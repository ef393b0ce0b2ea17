---------------------------- MODULE ArchiveProofs ----------------------------
(***************************************************************************)
(* What a deletion may not break, and what a restore may not: no increment *)
(* is left without the backup it comes from, whatever delete, cleanup and  *)
(* lifecycle remove; a cleanup leaves restorable what it has to, and a     *)
(* purge what the policy says; and no chunk of the oplog reaches from the  *)
(* data of before a restore into the data of after it.                     *)
(***************************************************************************)
EXTENDS Lifecycle, FiniteSetTheorems, WellFoundedInduction, TLAPS

\* The last write: a second after the start for a dump, of that instant for files.
IsLastWrite(b) ==
  b.lw = IF ~b.done THEN 0 ELSE IF b.type \in {"logical", "selective"} THEN b.start + 1 ELSE b.start

\* Backups are told apart by their start; an increment comes from an earlier one.
BackupsInTime ==
  /\ IsFiniteSet(bcps)
  /\ \A b \in bcps :
       /\ 1 <= b.start /\ b.start <= now /\ b.lw <= now
       /\ IsLastWrite(b)
       /\ b.src < b.start /\ (b.src # 0 => b.type = "incremental")
  /\ \A a, b \in bcps : a.start = b.start => a = b

\* What each increment comes from is there.
Whole(B) == \A x \in Increments(B) : x.src # 0 => \E y \in Increments(B) : y.start = x.src

\* It was the last one when the increment was made.
NoneBetween == \A x, z \in Increments(bcps) : x.src # 0 => z.start <= x.src \/ x.start <= z.start

\* Since the last restore every slicer has begun after it, unless one went on from an
\* older chunk.
SlicedAfterRestore ==
  ~fell /\ restored > 0 =>
    \A r \in RS : /\ \A c \in chunks[r] : c.e <= restored \/ restored <= c.s
                  /\ lastTS[r] # 0 => restored <= lastTS[r]

ArchiveInv == plan \in Plans /\ TypeOK /\ BackupsInTime /\ Whole(bcps) /\ NoneBetween /\ SlicedAfterRestore

-----------------------------------------------------------------------------
(* The last of a finite set, and the sets that a relation closes.            *)

\* A finite set that is totally ordered has a greatest element.
LEMMA GreatestOfFinite ==
  ASSUME NEW S, IsFiniteSet(S), S # {}, NEW R,
         \A x, y \in S : x # y => <<x, y>> \in R \/ <<y, x>> \in R,
         \A x, y, z \in S : <<x, y>> \in R /\ <<y, z>> \in R => <<x, z>> \in R
  PROVE  \E b \in S : \A x \in S \ {b} : <<x, b>> \in R
<1> DEFINE HasGreatest(U) == \E b \in U : \A x \in U \ {b} : <<x, b>> \in R
           T == {U \in FiniteSubsetsOf(S) : U # {} /\ ~HasGreatest(U)}
           less == StrictSubsetOrdering(S)
<1>1. SUFFICES ASSUME ~HasGreatest(S) PROVE FALSE
  OBVIOUS
<1>2. S \in T /\ T \subseteq FiniteSubsetsOf(S)
  BY <1>1 DEF FiniteSubsetsOf
<1>3. \E U \in T : \A V \in T : <<V, U>> \notin less
  <2>1. IsWellFoundedOn(less, FiniteSubsetsOf(S))
    BY FS_StrictSubsetOrderingWellFounded
  <2> HIDE DEF T, less
  <2> QED BY <1>2, <2>1, WFMin
<1>4. PICK U \in T : \A V \in T : <<V, U>> \notin less
  BY <1>3
<1>5. PICK u \in U : TRUE
  OBVIOUS
<1> DEFINE V == U \ {u}
<1>6. U \subseteq S /\ IsFiniteSet(U) /\ IsFiniteSet(V) /\ V \subseteq S /\ V # U
  BY <1>5, FS_RemoveElement DEF FiniteSubsetsOf
<1>7. V = {} \/ HasGreatest(V)
  BY <1>4, <1>6 DEF StrictSubsetOrdering, FiniteSubsetsOf
<1>8. CASE V = {}
  BY <1>5, <1>8
<1>9. CASE HasGreatest(V)
  <2>1. PICK m \in V : \A x \in V \ {m} : <<x, m>> \in R
    BY <1>9
  <2>2. CASE <<u, m>> \in R
    <3>1. \A x \in U \ {m} : <<x, m>> \in R
      BY <2>1, <2>2
    <3> QED BY <2>1, <3>1
  <2>3. CASE <<m, u>> \in R
    <3>1. \A x \in U \ {u} : <<x, u>> \in R
      BY <1>5, <1>6, <2>1, <2>3
    <3> QED BY <1>5, <3>1
  <2> QED BY <1>5, <1>6, <2>1, <2>2, <2>3
<1> QED BY <1>7, <1>8, <1>9

LEMMA HighestIsLast ==
  ASSUME NEW B, IsFiniteSet(B), B # {},
         \A x \in B : x.lw \in Nat /\ x.start \in Nat,
         \A x, y \in B : x.start = y.start => x = y
  PROVE  Highest(B) \in B /\ \A x \in B \ {Highest(B)} : ByLw(x, Highest(B))
<1> DEFINE R == {p \in B \X B : ByLw(p[1], p[2])}
<1>1. \A x, y \in B : <<x, y>> \in R <=> ByLw(x, y)
  OBVIOUS
<1> HIDE DEF R
<1>2. \A x, y \in B : x # y => ByLw(x, y) \/ ByLw(y, x)
  BY DEF ByLw
<1>3. \A x, y, z \in B : ByLw(x, y) /\ ByLw(y, z) => ByLw(x, z)
  BY DEF ByLw
<1>4. \E b \in B : \A x \in B \ {b} : <<x, b>> \in R
  <2>1. \A x, y \in B : x # y => <<x, y>> \in R \/ <<y, x>> \in R
    BY <1>1, <1>2
  <2>2. \A x, y, z \in B : <<x, y>> \in R /\ <<y, z>> \in R => <<x, z>> \in R
    BY <1>1, <1>3
  <2> QED BY <2>1, <2>2, GreatestOfFinite
<1>5. \E b \in B : \A x \in B \ {b} : ByLw(x, b)
  BY <1>1, <1>4
<1> QED BY <1>5 DEF Highest

LEMMA NewestIsLast ==
  ASSUME NEW B, IsFiniteSet(B), B # {}, \A x \in B : x.start \in Nat
  PROVE  Newest(B) \in B /\ \A x \in B : x.start <= Newest(B).start
<1> DEFINE R == {p \in B \X B : p[1].start <= p[2].start}
<1>1. \A x, y \in B : <<x, y>> \in R <=> x.start <= y.start
  OBVIOUS
<1> HIDE DEF R
<1>2. \A x, y \in B : x # y => <<x, y>> \in R \/ <<y, x>> \in R
  <2>1. \A x, y \in B : x.start <= y.start \/ y.start <= x.start
    OBVIOUS
  <2> QED BY <1>1, <2>1
<1>3. \A x, y, z \in B : <<x, y>> \in R /\ <<y, z>> \in R => <<x, z>> \in R
  <2>1. \A x, y, z \in B : x.start <= y.start /\ y.start <= z.start => x.start <= z.start
    OBVIOUS
  <2> QED BY <1>1, <2>1
<1>4. \E b \in B : \A x \in B \ {b} : <<x, b>> \in R
  BY <1>2, <1>3, GreatestOfFinite
<1>5. \E b \in B : \A x \in B : x.start <= b.start
  <2>1. PICK b \in B : \A x \in B \ {b} : <<x, b>> \in R
    BY <1>4
  <2>2. \A x \in B : x.start <= b.start
    <3>1. b.start <= b.start
      OBVIOUS
    <3> QED BY <1>1, <2>1, <3>1
  <2> QED BY <2>2
<1> QED BY <1>5 DEF Newest

\* A chain has what comes from it.
LEMMA ChainIsClosed ==
  ASSUME NEW B, NEW base
  PROVE  /\ Chain(B, base) \subseteq B \cup {base}
         /\ \A x \in Chain(B, base), b \in B : x.done /\ b.src = x.start => b \in Chain(B, base)
BY DEF Chain

\* With a backup there are all it comes from.
LEMMA AncestorsAreClosed ==
  ASSUME NEW B, NEW b
  PROVE  /\ b \in Ancestors(B, b) /\ Ancestors(B, b) \subseteq B \cup {b}
         /\ \A x \in B, y \in Ancestors(B, b) : y.src = x.start => x \in Ancestors(B, b)
BY DEF Ancestors

-----------------------------------------------------------------------------
(* What a deletion leaves.                                                   *)

LEMMA DeletionKeepsWhole ==
  ASSUME NEW B, Whole(B), NEW C, NEW b
  PROVE  AfterDelete(B, C, b) \subseteq B /\ Whole(AfterDelete(B, C, b))
<1>1. CASE AfterDelete(B, C, b) = B
  BY <1>1
<1>2. CASE b.type = "incremental" /\ AfterDelete(B, C, b) = B \ Chain(B, b)
  <2>1. \A x \in Chain(B, b), y \in B : x.done /\ y.src = x.start => y \in Chain(B, b)
    BY ChainIsClosed
  <2> QED BY <1>2, <2>1 DEF Whole, Increments
<1>3. CASE b.type # "incremental" /\ AfterDelete(B, C, b) = B \ {b}
  BY <1>3 DEF Whole, Increments
<1> QED BY <1>1, <1>2, <1>3 DEF AfterDelete

LEMMA Numbers ==
  ASSUME bcps \subseteq Backup, plan \in Plans
  PROVE  \A b \in bcps : b.start \in Nat /\ b.lw \in Nat /\ b.src \in Nat /\ b.done \in BOOLEAN
BY Assumptions DEF Backup, Time, MaxTime

\* A set that holds, with an increment, all earlier increments; of these only the last
\* can have in the list what comes from it.
Earliest(S) ==
  /\ S \subseteq bcps
  /\ \A x, z \in Increments(bcps) : z \in S /\ x.start < z.start => x \in S

LEMMA LastChainStays ==
  ASSUME bcps \subseteq Backup, plan \in Plans, BackupsInTime, Whole(bcps), NoneBetween, NEW S, Earliest(S)
  PROVE  Whole(bcps \ WithoutLastChain(S))
<1> DEFINE I == Increments(S)
           last == Highest(I)
           R == WithoutLastChain(S)
<1>1. SUFFICES ASSUME NEW x \in Increments(bcps), x \notin R, x.src # 0, NEW y \in Increments(bcps), y.start = x.src
               PROVE  y \notin R
  BY DEF Whole, Increments
<1>2. SUFFICES ASSUME y \in R PROVE FALSE
  OBVIOUS
<1>3. R \subseteq S /\ y \in I
  BY <1>2 DEF WithoutLastChain, Increments
<1>4. last \in I /\ \A w \in I \ {last} : ByLw(w, last)
  <2>1. I \subseteq bcps /\ I \subseteq Increments(bcps)
    BY DEF Increments, Earliest
  <2>2. IsFiniteSet(I)
    BY <2>1, FS_Subset DEF BackupsInTime
  <2>3. (\A w \in I : w.lw \in Nat /\ w.start \in Nat) /\ \A v, w \in I : v.start = w.start => v = w
    BY <2>1, Numbers DEF BackupsInTime
  <2> HIDE DEF I
  <2> QED BY <1>3, <2>2, <2>3, HighestIsLast
<1>5. \A w \in I : w.lw = w.start /\ w.start \in Nat /\ w \in Increments(bcps) /\ w.done
  BY Numbers DEF BackupsInTime, IsLastWrite, Increments, Earliest
<1>6. {b \in bcps : b.done /\ b.src = last.start} = {} \/ R = S \ Ancestors(I, last)
  BY <1>3 DEF WithoutLastChain
<1>7. {b \in bcps : b.done /\ b.src = last.start} = {} => R = S
  BY DEF WithoutLastChain
<1>8. last \in Ancestors(I, last) /\ \A v \in I, w \in Ancestors(I, last) : w.src = v.start => v \in Ancestors(I, last)
  BY AncestorsAreClosed
<1> HIDE DEF I, last, R
<1>9. CASE y = last
  <2>1. x \in {b \in bcps : b.done /\ b.src = last.start}
    BY <1>1, <1>9 DEF Increments
  <2>2. R = S \ Ancestors(I, last)
    BY <2>1, <1>6
  <2> QED BY <1>2, <1>8, <1>9, <2>2
<1>10. CASE y # last
  <2>1. y.start < last.start
    <3>1. ByLw(y, last)
      BY <1>3, <1>4, <1>10
    <3> QED BY <3>1, <1>3, <1>4, <1>5, <1>10 DEF ByLw
  <2>2. x.start <= last.start
    <3>1. last.start <= x.src \/ x.start <= last.start
      BY <1>1, <1>4, <1>5 DEF NoneBetween
    <3> QED BY <3>1, <2>1, <1>1, <1>3, <1>4, <1>5
  <2>3. x \in S
    <3>1. CASE x.start = last.start
      <4>1. x = last
        BY <3>1, <1>4, <1>5 DEF BackupsInTime, Increments
      <4> QED BY <4>1, <1>4 DEF I, Increments
    <3>2. CASE x.start < last.start
      <4>1. last \in S /\ last \in Increments(bcps)
        BY <1>4, <1>5 DEF I, Increments
      <4> QED BY <3>2, <4>1, <1>1 DEF Earliest
    <3>3. x.start \in Nat /\ last.start \in Nat
      BY <1>4, <1>5, Numbers DEF Increments
    <3> QED BY <2>2, <3>1, <3>2, <3>3
  <2>4. x \in I
    BY <2>3, <1>1 DEF I, Increments
  <2>5. R = S \ Ancestors(I, last)
    BY <1>1, <1>6, <1>7, <2>3
  <2>6. x \in Ancestors(I, last)
    BY <1>1, <2>3, <2>5
  <2>7. y \in Ancestors(I, last)
    BY <1>1, <1>3, <1>8, <2>6
  <2> QED BY <1>2, <2>5, <2>7
<1> QED BY <1>9, <1>10

LEMMA CleanupKeepsWhole ==
  ASSUME bcps \subseteq Backup, plan \in Plans, BackupsInTime, Whole(bcps), NoneBetween, NEW ts \in Nat
  PROVE  CleanupInfo(ts).backups \subseteq bcps /\ Whole(bcps \ CleanupInfo(ts).backups)
<1> DEFINE old == {b \in bcps : b.lw <= ts}
           at == Highest(old)
           rest == IF at.lw = ts THEN old \ {at} ELSE old
           base == Highest(Bases(rest))
           R == CleanupInfo(ts).backups
<1>1. \/ R = {}
      \/ R = rest /\ Bases(rest) = {}
      \/ old # {} /\ R = WithoutLastChain(rest)
      \/ old # {} /\ Bases(rest) # {} /\ R = WithoutLastChain(rest \ {base})
  BY DEF CleanupInfo
<1>2. /\ \A b \in bcps : b.start \in Nat /\ b.lw \in Nat /\ b.src \in Nat
      /\ \A a, b \in bcps : a.start = b.start => a = b
      /\ \A b \in Increments(bcps) : b \in bcps /\ b.lw = b.start
      /\ \A B \in SUBSET bcps : IsFiniteSet(B)
  <2>1. \A B \in SUBSET bcps : IsFiniteSet(B)
    BY FS_Subset DEF BackupsInTime
  <2> QED BY <2>1, Numbers DEF BackupsInTime, IsLastWrite, Increments
<1>3. old \subseteq bcps /\ Earliest(old)
  BY <1>2 DEF Earliest
<1>4. old # {} => Earliest(rest)
  <2> SUFFICES ASSUME old # {} PROVE Earliest(rest)
    OBVIOUS
  <2>1. at \in old /\ \A x \in old \ {at} : ByLw(x, at)
    BY <1>2, <1>3, HighestIsLast
  <2>2. ASSUME NEW x \in Increments(bcps), NEW z \in Increments(bcps), z \in rest, x.start < z.start PROVE x \in rest
    <3>1. z \in old /\ x \in old
      BY <1>3, <2>2 DEF Earliest
    <3>2. x = at => z = at
      <4> SUFFICES ASSUME x = at, z # at PROVE FALSE
        OBVIOUS
      <4>1. ByLw(z, x)
        BY <2>1, <3>1
      <4> QED BY <4>1, <1>2, <2>2 DEF ByLw
    <3> QED BY <2>2, <3>1, <3>2
  <2> QED BY <1>3, <2>2 DEF Earliest
<1>5. old # {} /\ Bases(rest) # {} => Earliest(rest \ {base})
  <2> SUFFICES ASSUME old # {}, Bases(rest) # {} PROVE Earliest(rest \ {base})
    OBVIOUS
  <2>1. Earliest(rest) /\ Bases(rest) \subseteq bcps
    BY <1>4 DEF Earliest, Bases
  <2> HIDE DEF rest
  <2>2. base \in Bases(rest) /\ \A x \in Bases(rest) \ {base} : ByLw(x, base)
    BY <1>2, <2>1, HighestIsLast
  <2> HIDE DEF base
  <2>3. ASSUME NEW x \in Increments(bcps), NEW z \in Increments(bcps), z \in rest \ {base}, x.start < z.start
        PROVE  x \in rest \ {base}
    <3>1. x \in rest
      BY <2>1, <2>3 DEF Earliest
    <3>2. z \in Bases(rest)
      BY <2>3 DEF Bases, IsValidBase, Increments
    <3>3. x # base
      <4> SUFFICES ASSUME x = base PROVE FALSE
        OBVIOUS
      <4>1. ByLw(z, x)
        BY <2>2, <2>3, <3>2
      <4> QED BY <4>1, <1>2, <2>3 DEF ByLw
    <3> QED BY <3>1, <3>3
  <2> QED BY <2>1, <2>3 DEF Earliest
<1>6. rest \subseteq bcps
  BY <1>3
<1>7. \A S : WithoutLastChain(S) \subseteq S
  BY DEF WithoutLastChain
<1> HIDE DEF old, rest, base, R
<1>8. CASE R = {}
  BY <1>8 DEF R, Whole, Increments
<1>9. CASE R = rest /\ Bases(rest) = {}
  <2>1. \A y \in Increments(bcps) : y \notin rest
    BY <1>9 DEF Bases, IsValidBase, Increments
  <2> QED BY <1>6, <1>9, <2>1 DEF R, Whole, Increments
<1>10. CASE old # {} /\ R = WithoutLastChain(rest)
  BY <1>4, <1>6, <1>7, <1>10, LastChainStays DEF R
<1>11. CASE old # {} /\ Bases(rest) # {} /\ R = WithoutLastChain(rest \ {base})
  BY <1>5, <1>6, <1>7, <1>11, LastChainStays DEF R
<1> QED BY <1>1, <1>8, <1>9, <1>10, <1>11

\* The backups of one type among those of a cleanup.
LEMMA OneTypeKeepsWhole ==
  ASSUME NEW B, NEW R, Whole(B), Whole(B \ R), NEW type, NEW Q, Q = {b \in R : b.type \in {type}}
  PROVE  Whole(B \ Q)
<1>1. CASE type = "incremental"
  <2>1. Increments(B \ Q) = Increments(B \ R)
    BY <1>1 DEF Increments
  <2> QED BY <2>1 DEF Whole
<1>2. CASE type # "incremental"
  <2>1. Increments(B \ Q) = Increments(B)
    BY <1>2 DEF Increments
  <2> QED BY <2>1 DEF Whole
<1> QED BY <1>1, <1>2

-----------------------------------------------------------------------------
(* The steps, by what they do to the backups and to the chunks.              *)

NewChunk(c) == c.s < c.e /\ c.e <= now /\ (~fell => restored <= c.s)

LEMMA SlicingKeeps ==
  ASSUME TypeOK, SlicedAfterRestore, UNCHANGED <<plan, restored>>, now' \in Nat, now <= now',
         fell' \in BOOLEAN, fell => fell',
         chunks' \in [RS -> SUBSET [s : Time \ {0}, e : Time \ {0}]],
         \A r \in RS : \A c \in chunks'[r] : c \in chunks[r] \/ NewChunk(c),
         lastTS' \in [RS -> 0..now'],
         \A r \in RS : lastTS'[r] \in {0, lastTS[r]} \/ (~fell' => restored <= lastTS'[r])
  PROVE  SlicedAfterRestore' /\ \A r \in RS : \A c \in chunks'[r] : c.s < c.e /\ c.e <= now'
<1>1. RS' = RS /\ restored \in Nat /\ now \in Nat
  BY DEF RS, TypeOK, Time
<1>2. \A r \in RS : \A c \in chunks'[r] : c.s \in Nat /\ c.e \in Nat
  BY DEF Time
<1>3. \A r \in RS : \A c \in chunks'[r] : c.s < c.e /\ c.e <= now
  BY DEF TypeOK, NewChunk
<1>4. \A r \in RS : \A c \in chunks'[r] : c.s < c.e /\ c.e <= now'
  BY <1>1, <1>2, <1>3
<1>5. ASSUME ~fell', restored > 0, NEW r \in RS
      PROVE  /\ \A c \in chunks'[r] : c.e <= restored \/ restored <= c.s
             /\ lastTS'[r] # 0 => restored <= lastTS'[r]
  BY <1>5 DEF SlicedAfterRestore, NewChunk
<1> QED BY <1>1, <1>4, <1>5 DEF SlicedAfterRestore

LEMMA RemovalKeeps ==
  ASSUME TypeOK, plan \in Plans, BackupsInTime, NoneBetween, plan' = plan, now' \in Nat, now <= now', bcps' \subseteq bcps
  PROVE  BackupsInTime' /\ NoneBetween'
<1>1. IsFiniteSet(bcps')
  BY FS_Subset DEF BackupsInTime
<1>2. now \in Nat /\ \A b \in bcps : b.start \in Nat /\ b.lw \in Nat
  BY Numbers DEF TypeOK, Time
<1>3. BackupsInTime'
  BY <1>1, <1>2 DEF BackupsInTime
<1>4. NoneBetween'
  BY DEF NoneBetween, Increments
<1> QED BY <1>3, <1>4

-----------------------------------------------------------------------------
(* The slicers.                                                              *)

Chunk == [s : Time \ {0}, e : Time \ {0}]

\* What a slicer uploads begins where it was.
LEMMA SliceIsNew ==
  ASSUME TypeOK, plan \in Plans, SlicedAfterRestore, NEW r \in RS
  PROVE  Slice(r, now) \subseteq Chunk /\ \A c \in Slice(r, now) : c \in chunks[r] \/ NewChunk(c)
<1> DEFINE at == lastTS[r]
           c0 == [s |-> at, e |-> now]
<1>1. at \in 0..now /\ now \in Time /\ MaxTime \in Nat /\ chunks[r] \subseteq Chunk /\ restored \in 0..now
  BY Assumptions DEF TypeOK, Chunk, Time, MaxTime
<1>2. ~fell /\ restored > 0 /\ at # 0 => restored <= at
  BY DEF SlicedAfterRestore
<1>3. at \in 1..(now - 1) => c0 \in Chunk /\ NewChunk(c0)
  <2> SUFFICES ASSUME at \in 1..(now - 1) PROVE c0 \in Chunk /\ NewChunk(c0)
    OBVIOUS
  <2>1. at \in Time \ {0} /\ now \in Time \ {0} /\ at < now
    BY <1>1 DEF Time
  <2>2. ~fell => restored <= at
    BY <1>1, <1>2
  <2> HIDE DEF at
  <2> QED BY <1>1, <2>1, <2>2 DEF Chunk, NewChunk
<1>4. Slice(r, now) = chunks[r] \/ (at \in 1..(now - 1) /\ Slice(r, now) = chunks[r] \cup {c0})
  BY DEF Slice
<1> HIDE DEF at, c0
<1> QED BY <1>1, <1>3, <1>4

LEMMA AllSlice ==
  ASSUME TypeOK, plan \in Plans, SlicedAfterRestore, chunks' = [r \in RS |-> Slice(r, now)]
  PROVE  /\ chunks' \in [RS -> SUBSET Chunk]
         /\ \A r \in RS : \A c \in chunks'[r] : c \in chunks[r] \/ NewChunk(c)
<1>1. \A r \in RS : Slice(r, now) \subseteq Chunk /\ \A c \in Slice(r, now) : c \in chunks[r] \/ NewChunk(c)
  BY SliceIsNew
<1> QED BY <1>1

\* What a step of the slicers may do.
SlicersStep ==
  /\ UNCHANGED <<plan, restored>>
  /\ now' \in Time /\ now <= now' /\ oldest' \in 1..now' /\ fell' \in BOOLEAN /\ (fell => fell')
  /\ pitr' \in plan.modes \cup {"off"} /\ uploaded' \in [RS -> BOOLEAN]
  /\ chunks' \in [RS -> SUBSET Chunk] /\ \A r \in RS : \A c \in chunks'[r] : c \in chunks[r] \/ NewChunk(c)
  /\ lastTS' \in [RS -> 0..now'] /\ \A r \in RS : lastTS'[r] \in {0, lastTS[r]} \/ (~fell' => restored <= lastTS'[r])

LEMMA SlicersStepKeeps ==
  ASSUME ArchiveInv, SlicersStep
  PROVE  /\ SlicedAfterRestore'
         /\ bcps' \subseteq Backup => TypeOK'
         /\ bcps' = bcps => ArchiveInv'
<1>1. /\ RS' = RS /\ Time' = Time /\ Backup' = Backup /\ Time \subseteq Nat
      /\ now' \in Nat /\ restored' = restored /\ restored \in 0..now /\ now \in Nat
  BY DEF ArchiveInv, SlicersStep, TypeOK, RS, Time, Backup, MaxTime, Types
<1>2. SlicedAfterRestore' /\ \A r \in RS : \A c \in chunks'[r] : c.s < c.e /\ c.e <= now'
  BY <1>1, SlicingKeeps DEF ArchiveInv, SlicersStep, Chunk
<1>3. ASSUME bcps' \subseteq Backup PROVE TypeOK'
  <2>1. restored' \in 0..now'
    BY <1>1 DEF SlicersStep
  <2>2. now' \in Time' /\ oldest' \in 1..now' /\ fell' \in BOOLEAN /\ bcps' \subseteq Backup'
    BY <1>1, <1>3 DEF SlicersStep
  <2>3. chunks' \in [RS' -> SUBSET [s : Time' \ {0}, e : Time' \ {0}]]
    BY <1>1 DEF SlicersStep, Chunk
  <2>4. pitr' \in plan'.modes \cup {"off"} /\ lastTS' \in [RS' -> 0..now'] /\ uploaded' \in [RS' -> BOOLEAN]
    BY <1>1 DEF SlicersStep
  <2> QED BY <1>1, <1>2, <2>1, <2>2, <2>3, <2>4 DEF TypeOK
<1>4. ASSUME bcps' = bcps PROVE ArchiveInv'
  <2>1. bcps' \subseteq Backup
    BY <1>4 DEF ArchiveInv, TypeOK
  <2>2. BackupsInTime' /\ NoneBetween'
    BY <1>1, <1>4, RemovalKeeps DEF ArchiveInv, SlicersStep
  <2>3. Whole(bcps)'
    BY <1>4 DEF ArchiveInv, Whole, Increments
  <2> QED BY <1>2, <1>3, <2>1, <2>2, <2>3 DEF ArchiveInv, SlicersStep
<1> QED BY <1>2, <1>3, <1>4

LEMMA StopAllStops ==
  ASSUME ArchiveInv, StopAll, plan' = plan, now' \in Nat
  PROVE  /\ uploaded' \in [RS -> BOOLEAN] /\ lastTS' \in [RS -> 0..now']
         /\ \A r \in RS : lastTS'[r] = 0
BY DEF StopAll

\* Where a slicer may start.
LEMMA StartKeeps ==
  ASSUME ArchiveInv, plan' = plan, NEW r \in RS, NEW at \in 0..now, NEW C, Start(r, at, C),
         C \subseteq Chunk, \A c \in C : c \in chunks[r] \/ NewChunk(c),
         fell' \in BOOLEAN, fell => fell', ~fell' => restored <= at
  PROVE  ArchiveInv'
<1>1. now \in Time /\ now \in Nat /\ now' = now /\ bcps' = bcps
  BY DEF ArchiveInv, TypeOK, Start, Time
<1>2. /\ lastTS \in [RS -> 0..now] /\ chunks \in [RS -> SUBSET Chunk]
      /\ oldest \in 1..now /\ uploaded \in [RS -> BOOLEAN] /\ pitr \in plan.modes \cup {"off"}
  BY DEF ArchiveInv, TypeOK, Chunk
<1>3. PICK from \in {0, at} : lastTS' = [lastTS EXCEPT ![r] = from]
  BY DEF Start
<1>4. lastTS' \in [RS -> 0..now'] /\ \A q \in RS : lastTS'[q] \in {0, lastTS[q]} \/ (~fell' => restored <= lastTS'[q])
  <2>1. from \in 0..now
    BY <1>1
  <2> QED BY <1>1, <1>2, <1>3, <2>1
<1>5. chunks' \in [RS -> SUBSET Chunk] /\ \A q \in RS : \A c \in chunks'[q] : c \in chunks[q] \/ NewChunk(c)
  <2>1. chunks' = [chunks EXCEPT ![r] = C]
    BY DEF Start
  <2> QED BY <1>2, <2>1
<1>6. SlicersStep
  <2>1. UNCHANGED <<plan, restored, pitr, uploaded, oldest>>
    BY DEF Start
  <2> QED BY <1>1, <1>2, <1>4, <1>5, <2>1 DEF SlicersStep
<1> QED BY <1>1, <1>6, SlicersStepKeeps

LEMMA TypesOfSlicing ==
  ASSUME ArchiveInv
  PROVE  /\ now \in Time /\ now \in Nat /\ Time \subseteq Nat /\ oldest \in 1..now /\ restored \in 0..now
         /\ lastTS \in [RS -> 0..now] /\ chunks \in [RS -> SUBSET Chunk] /\ fell \in BOOLEAN
         /\ uploaded \in [RS -> BOOLEAN] /\ pitr \in plan.modes \cup {"off"}
         /\ \A r \in RS : \A c \in chunks[r] : c.s < c.e /\ c.e <= now /\ c.s \in Time \ {0} /\ c.e \in Time \ {0}
<1>1. now \in Time /\ Time \subseteq Nat /\ \A c \in Chunk : c.s \in Time \ {0} /\ c.e \in Time \ {0}
  BY DEF ArchiveInv, TypeOK, Time, Chunk
<1>2. chunks \in [RS -> SUBSET Chunk]
  BY DEF ArchiveInv, TypeOK, Chunk
<1>3. \A r \in RS : \A c \in chunks[r] : c.s < c.e /\ c.e <= now
  BY DEF ArchiveInv, TypeOK
<1> QED BY <1>1, <1>2, <1>3 DEF ArchiveInv, TypeOK

LEMMA CatchupKeeps ==
  ASSUME ArchiveInv, plan' = plan, NEW r \in RS, Catchup(r) PROVE ArchiveInv'
<1> DEFINE b == Newest(Bases(bcps))
<1>1. b \in bcps /\ b.done /\ b.start >= restored
  <2>1. Bases(bcps) # {} /\ Bases(bcps) \subseteq bcps /\ \A x \in Bases(bcps) : x.done
    BY DEF Catchup, Bases, IsValidBase
  <2>2. IsFiniteSet(Bases(bcps)) /\ \A x \in Bases(bcps) : x.start \in Nat
    BY <2>1, Numbers, FS_Subset DEF ArchiveInv, TypeOK, BackupsInTime
  <2>3. b \in Bases(bcps)
    BY <2>1, <2>2, NewestIsLast
  <2> QED BY <2>1, <2>3 DEF Catchup
<1> DEFINE gap(c) == IF c.e < b.start /\ IsSufficient(c.e) THEN {[s |-> c.e, e |-> b.start]} ELSE {}
           own == {[s |-> b.start, e |-> b.lw]}
<1>2. \/ chunks[r] = {} /\ Start(r, b.lw, {})
      \/ \E c \in LastChunks(chunks[r]) :
           \/ Start(r, b.lw, chunks[r])
           \/ ~Outdated(c) /\ Start(r, c.e, chunks[r])
           \/ ~Outdated(c) /\ b.type = "logical" /\ Start(r, b.lw, chunks[r] \cup gap(c) \cup own)
           \/ ~Outdated(c) /\ Start(r, b.start, chunks[r] \cup gap(c))
           \/ ~Outdated(c) /\ Start(r, b.lw, chunks[r] \cup gap(c))
  BY DEF Catchup
<1>3. /\ b.start \in Time \ {0} /\ b.lw \in Time \ {0} /\ b.start <= now /\ b.lw <= now /\ b.start <= b.lw
      /\ restored <= b.start /\ restored <= b.lw
      /\ b.type = "logical" => b.start < b.lw
  <2>1. b \in Backup /\ 1 <= b.start /\ b.start <= now /\ b.lw <= now /\ b.start <= b.lw /\ (b.type = "logical" => b.start < b.lw)
    <3>1. b \in Backup /\ 1 <= b.start /\ b.start <= now /\ b.lw <= now /\ IsLastWrite(b) /\ b.done
      BY <1>1 DEF ArchiveInv, TypeOK, BackupsInTime
    <3>2. b.start \in Nat
      BY <3>1, TypesOfSlicing DEF Backup
    <3> HIDE DEF b
    <3> QED BY <3>1, <3>2 DEF IsLastWrite
  <2>3. b.start \in Time /\ b.lw \in Time /\ Time \subseteq Nat
    BY <2>1, TypesOfSlicing DEF Backup
  <2>4. b.start >= restored /\ restored \in Nat
    BY <1>1, TypesOfSlicing
  <2> HIDE DEF b
  <2>5. b.start \in Nat /\ b.lw \in Nat
    BY <2>3
  <2>6. b.start # 0 /\ b.lw # 0 /\ restored <= b.start /\ restored <= b.lw
    BY <2>1, <2>4, <2>5
  <2> QED BY <2>1, <2>3, <2>6
<1>4. fell' = fell
  BY DEF Catchup
<1> HIDE DEF b
<1>5. b.lw \in 0..now /\ b.start \in 0..now
  BY <1>3, TypesOfSlicing
<1>6. CASE chunks[r] = {} /\ Start(r, b.lw, {})
  BY <1>3, <1>4, <1>5, <1>6, StartKeeps, TypesOfSlicing
<1>7. ASSUME NEW c \in LastChunks(chunks[r]),
             \/ Start(r, b.lw, chunks[r])
             \/ ~Outdated(c) /\ Start(r, c.e, chunks[r])
             \/ ~Outdated(c) /\ b.type = "logical" /\ Start(r, b.lw, chunks[r] \cup gap(c) \cup own)
             \/ ~Outdated(c) /\ Start(r, b.start, chunks[r] \cup gap(c))
             \/ ~Outdated(c) /\ Start(r, b.lw, chunks[r] \cup gap(c))
      PROVE  ArchiveInv'
  <2>1. c \in chunks[r] /\ c.e \in Time \ {0} /\ c.e \in 0..now /\ chunks[r] \subseteq Chunk
    BY TypesOfSlicing DEF LastChunks
  <2>2. ~Outdated(c) => restored <= c.e
    BY <2>1, TypesOfSlicing DEF Outdated
  <2>3. ~Outdated(c) => gap(c) \subseteq Chunk /\ \A x \in gap(c) : NewChunk(x)
    <3> SUFFICES ASSUME ~Outdated(c), gap(c) # {} PROVE gap(c) \subseteq Chunk /\ \A x \in gap(c) : NewChunk(x)
      OBVIOUS
    <3>1. c.e < b.start /\ gap(c) = {[s |-> c.e, e |-> b.start]}
      OBVIOUS
    <3> QED BY <1>3, <2>1, <2>2, <3>1 DEF Chunk, NewChunk
  <2>4. b.type = "logical" => own \subseteq Chunk /\ \A x \in own : NewChunk(x)
    BY <1>3 DEF Chunk, NewChunk
  <2> HIDE DEF gap, own
  <2>5. CASE Start(r, b.lw, chunks[r])
    BY <1>3, <1>4, <1>5, <2>1, <2>5, StartKeeps, TypesOfSlicing
  <2>6. CASE ~Outdated(c) /\ Start(r, c.e, chunks[r])
    BY <1>4, <2>1, <2>2, <2>6, StartKeeps, TypesOfSlicing
  <2>7. CASE ~Outdated(c) /\ b.type = "logical" /\ Start(r, b.lw, chunks[r] \cup gap(c) \cup own)
    <3> DEFINE C == chunks[r] \cup gap(c) \cup own
    <3>1. C \subseteq Chunk /\ \A x \in C : x \in chunks[r] \/ NewChunk(x)
      BY <2>1, <2>3, <2>4, <2>7
    <3>2. Start(r, b.lw, C)
      BY <2>7
    <3> HIDE DEF C
    <3> QED BY <1>3, <1>4, <1>5, <3>1, <3>2, StartKeeps, TypesOfSlicing
  <2>8. CASE ~Outdated(c) /\ (Start(r, b.start, chunks[r] \cup gap(c)) \/ Start(r, b.lw, chunks[r] \cup gap(c)))
    <3> DEFINE C == chunks[r] \cup gap(c)
    <3>1. C \subseteq Chunk /\ \A x \in C : x \in chunks[r] \/ NewChunk(x)
      BY <2>1, <2>3, <2>8
    <3>2. PICK at \in {b.start, b.lw} : Start(r, at, C)
      BY <2>8
    <3> HIDE DEF C
    <3> QED BY <1>3, <1>4, <1>5, <3>1, <3>2, StartKeeps, TypesOfSlicing
  <2> QED BY <1>7, <2>5, <2>6, <2>7, <2>8
<1> HIDE DEF gap, own
<1> QED BY <1>2, <1>6, <1>7

LEMMA OplogOnlyCatchupKeeps ==
  ASSUME ArchiveInv, plan' = plan, NEW r \in RS, OplogOnlyCatchup(r) PROVE ArchiveInv'
<1>1. CASE chunks[r] = {} /\ Start(r, now, {}) /\ UNCHANGED fell
  <2>1. now \in 0..now /\ restored <= now /\ fell' \in BOOLEAN
    BY <1>1, TypesOfSlicing
  <2> QED BY <1>1, <2>1, StartKeeps
<1>2. ASSUME NEW c \in LastChunks(chunks[r]), Start(r, c.e, chunks[r]), fell' = (fell \/ Outdated(c)) PROVE ArchiveInv'
  <2>1. c \in chunks[r] /\ c.e \in 0..now /\ chunks[r] \subseteq Chunk /\ restored \in Nat
    BY TypesOfSlicing DEF LastChunks
  <2>2. ~fell' => restored <= c.e
    <3>1. ~Outdated(c) => restored <= c.e
      BY <2>1 DEF Outdated
    <3> QED BY <1>2, <3>1, Zenon
  <2>3. fell' \in BOOLEAN /\ (fell => fell')
    BY <1>2, TypesOfSlicing
  <2> QED BY <1>2, <2>1, <2>2, <2>3, StartKeeps
<1> QED BY <1>1, <1>2 DEF OplogOnlyCatchup

LEMMA StreamKeeps ==
  ASSUME ArchiveInv, plan' = plan, NEW r \in RS, Stream(r) PROVE ArchiveInv'
<1>1. Slice(r, now) \subseteq Chunk /\ \A c \in Slice(r, now) : c \in chunks[r] \/ NewChunk(c)
  BY SliceIsNew DEF ArchiveInv
<1>2. /\ UNCHANGED <<plan, restored, now, oldest, pitr, fell, bcps>>
      /\ chunks' = [chunks EXCEPT ![r] = Slice(r, now)]
      /\ lastTS' = [lastTS EXCEPT ![r] = now] /\ uploaded' = [uploaded EXCEPT ![r] = TRUE]
  BY DEF Stream
<1>3. chunks' \in [RS -> SUBSET Chunk] /\ \A q \in RS : \A c \in chunks'[q] : c \in chunks[q] \/ NewChunk(c)
  BY <1>1, <1>2, TypesOfSlicing
<1>4. lastTS' \in [RS -> 0..now'] /\ \A q \in RS : lastTS'[q] \in {0, lastTS[q]} \/ (~fell' => restored <= lastTS'[q])
  BY <1>2, TypesOfSlicing
<1>5. SlicersStep
  BY <1>2, <1>3, <1>4, TypesOfSlicing DEF SlicersStep
<1> QED BY <1>2, <1>5, SlicersStepKeeps

LEMMA SliceErrorKeeps ==
  ASSUME ArchiveInv, plan' = plan, NEW r \in RS, SliceError(r) PROVE ArchiveInv'
<1>1. UNCHANGED <<plan, restored, now, oldest, pitr, fell, bcps>> /\ StopAll
  BY DEF SliceError
<1>2. chunks' \in [RS -> SUBSET Chunk] /\ \A q \in RS : \A c \in chunks'[q] : c \in chunks[q]
  <2>1. PICK last : chunks' = [q \in RS |-> chunks[q] \ {last[q]}]
    BY DEF SliceError
  <2> QED BY <2>1, TypesOfSlicing
<1>3. SlicersStep
  BY <1>1, <1>2, StopAllStops, TypesOfSlicing DEF SlicersStep
<1> QED BY <1>1, <1>3, SlicersStepKeeps

LEMMA SetPitrKeeps ==
  ASSUME ArchiveInv, plan' = plan, NEW mode \in plan.modes, SetPitr(mode) PROVE ArchiveInv'
<1>1. UNCHANGED <<plan, restored, now, oldest, fell, bcps>> /\ StopAll /\ pitr' = mode
  BY DEF SetPitr
<1>2. chunks' \in [RS -> SUBSET Chunk] /\ \A q \in RS : \A c \in chunks'[q] : c \in chunks[q] \/ NewChunk(c)
  BY AllSlice DEF SetPitr, ArchiveInv
<1>3. SlicersStep
  BY <1>1, <1>2, StopAllStops, TypesOfSlicing DEF SlicersStep
<1> QED BY <1>1, <1>3, SlicersStepKeeps

LEMMA TimeKeeps ==
  ASSUME ArchiveInv, plan' = plan, Tick \/ Truncate PROVE ArchiveInv'
<1>1. UNCHANGED <<plan, restored, fell, bcps, chunks, pitr, lastTS, uploaded>>
  BY DEF Tick, Truncate
<1>2. now' \in Time /\ now <= now' /\ oldest' \in 1..now'
  <2>1. MaxTime \in Nat
    BY Assumptions DEF ArchiveInv, MaxTime
  <2>2. CASE Tick
    BY <2>1, <2>2, TypesOfSlicing DEF Tick, Time
  <2>3. CASE Truncate
    BY <2>1, <2>3, TypesOfSlicing DEF Truncate, Time
  <2> QED BY <2>2, <2>3
<1>3. lastTS' \in [RS -> 0..now']
  <2>1. \A r \in RS : lastTS[r] \in 0..now'
    BY <1>2, TypesOfSlicing
  <2> QED BY <1>1, <2>1, TypesOfSlicing
<1>4. SlicersStep
  BY <1>1, <1>2, <1>3, TypesOfSlicing DEF SlicersStep
<1> QED BY <1>1, <1>4, SlicersStepKeeps

-----------------------------------------------------------------------------
(* Backups, restores and deletions.                                          *)

\* A new backup; an increment comes from the last one.
LEMMA NewBackupKeeps ==
  ASSUME ArchiveInv, plan' = plan, now' \in Nat, now <= now', NEW b \in Backup, bcps' = bcps \cup {b},
         b.start = now, \A x \in bcps : x.start # now, b.lw <= now',
         IsLastWrite(b),
         b.src # 0 => b.type = "incremental" /\ Increments(bcps) # {} /\ b.src = Newest(Increments(bcps)).start
  PROVE  bcps' \subseteq Backup /\ BackupsInTime' /\ Whole(bcps)' /\ NoneBetween'
<1> DEFINE I == Increments(bcps)
<1>1. /\ now \in Nat /\ 1 <= now /\ bcps \subseteq Backup /\ plan \in Plans
      /\ \A x \in bcps : x.start \in Nat /\ x.lw \in Nat /\ x.src \in Nat
  <2>1. now \in Nat /\ 1 <= now
    BY TypesOfSlicing
  <2> QED BY <2>1, Numbers DEF ArchiveInv, TypeOK
<1>2. I \subseteq bcps /\ \A x \in bcps' : x \in Increments(bcps') <=> x \in I \/ (x = b /\ b.done /\ b.type = "incremental")
  BY DEF Increments
<1>3. I # {} => Newest(I) \in I /\ \A x \in I : x.start <= Newest(I).start
  <2>1. IsFiniteSet(I) /\ \A x \in I : x.start \in Nat
    BY <1>1, <1>2, FS_Subset DEF ArchiveInv, BackupsInTime
  <2> HIDE DEF I
  <2> QED BY <2>1, NewestIsLast
<1>4. BackupsInTime'
  <2>1. IsFiniteSet(bcps')
    BY FS_AddElement DEF ArchiveInv, BackupsInTime
  <2>2. \A x \in bcps : /\ 1 <= x.start /\ x.start <= now' /\ x.lw <= now'
                        /\ IsLastWrite(x) /\ x.src < x.start /\ (x.src # 0 => x.type = "incremental")
    BY <1>1 DEF ArchiveInv, BackupsInTime
  <2>3. /\ 1 <= b.start /\ b.start <= now' /\ b.lw <= now'
        /\ b.src < b.start /\ (b.src # 0 => b.type = "incremental")
    <3>1. CASE b.src = 0
      BY <1>1, <3>1
    <3>2. CASE b.src # 0
      <4>1. Newest(I) \in bcps /\ b.src = Newest(I).start
        BY <1>2, <1>3, <3>2
      <4>2. Newest(I).start \in Nat /\ Newest(I).start <= now /\ Newest(I).start # now
        BY <1>1, <4>1 DEF ArchiveInv, BackupsInTime
      <4> QED BY <1>1, <3>2, <4>1, <4>2
    <3> QED BY <3>1, <3>2
  <2>4. \A x, y \in bcps' : x.start = y.start => x = y
    BY <1>1 DEF ArchiveInv, BackupsInTime
  <2> QED BY <2>1, <2>2, <2>3, <2>4 DEF BackupsInTime
<1>5. b.src # 0 => I # {} /\ b.src = Newest(I).start
  OBVIOUS
<1> HIDE DEF I
<1>6. Whole(bcps')
  <2> SUFFICES ASSUME NEW x \in Increments(bcps'), x.src # 0 PROVE \E y \in Increments(bcps') : y.start = x.src
    BY DEF Whole
  <2>1. x \in bcps' /\ I \subseteq Increments(bcps')
    BY <1>2 DEF Increments
  <2>2. CASE x \in I
    BY <2>1, <2>2 DEF ArchiveInv, Whole, I
  <2>3. CASE x = b
    BY <1>3, <1>5, <2>1, <2>3
  <2> QED BY <1>2, <2>1, <2>2, <2>3
<1>7. NoneBetween'
  <2> SUFFICES ASSUME NEW x \in Increments(bcps'), NEW z \in Increments(bcps'), x.src # 0
               PROVE  z.start <= x.src \/ x.start <= z.start
    BY DEF NoneBetween
  <2>1. x \in I \cup {b} /\ z \in I \cup {b}
    BY <1>2 DEF Increments
  <2>2. CASE x \in I /\ z \in I
    BY <2>2 DEF ArchiveInv, NoneBetween, I
  <2>3. CASE x \in I /\ z = b
    BY <1>1, <1>2, <2>3 DEF ArchiveInv, BackupsInTime
  <2>4. CASE x = b /\ z \in I
    BY <1>3, <1>5, <2>4
  <2>5. CASE x = b /\ z = b
    BY <1>1, <2>5
  <2> QED BY <2>1, <2>2, <2>3, <2>4, <2>5
<1>8. Whole(bcps)'
  BY <1>6
<1> QED BY <1>1, <1>4, <1>7, <1>8

LEMMA LogicalBackupKeeps ==
  ASSUME ArchiveInv, plan' = plan, NEW type \in Types, NEW done \in BOOLEAN, LogicalBackup(type, done)
  PROVE  ArchiveInv'
<1>1. /\ UNCHANGED <<plan, restored, pitr, oldest, fell>> /\ StopAll /\ now < MaxTime /\ now' = now + 1
      /\ type \in {"logical", "selective"} /\ \A x \in bcps : x.start # now
      /\ chunks' = [r \in RS |-> Slice(r, now)]
  BY DEF LogicalBackup
<1>2. MaxTime \in Nat /\ now \in Nat /\ 1 <= now /\ now \in Time /\ now' \in Time /\ now' \in Nat /\ 0 \in Time /\ now <= now' /\ now # now'
      /\ oldest \in 1..now'
  <2>1. MaxTime \in Nat
    BY Assumptions DEF ArchiveInv, MaxTime
  <2> QED BY <1>1, <2>1, TypesOfSlicing DEF Time
<1>3. PICK lw \in {0, now'} : /\ bcps' = bcps \cup {[start |-> now, lw |-> lw, type |-> type, src |-> 0, done |-> done]}
                              /\ lw = IF done THEN now' ELSE 0
  BY <1>1 DEF LogicalBackup
<1> DEFINE b == [start |-> now, lw |-> lw, type |-> type, src |-> 0, done |-> done]
<1>4. b \in Backup
  BY <1>2, <1>3 DEF Backup
<1>5. bcps' \subseteq Backup /\ BackupsInTime' /\ Whole(bcps)' /\ NoneBetween'
  <2>1. b.start = now /\ b.lw = lw /\ b.done = done /\ b.type = type /\ b.src = 0 /\ bcps' = bcps \cup {b}
    BY <1>3
  <2>2. lw <= now'
    BY <1>1, <1>2, <1>3
  <2>3. IsLastWrite(b)
    BY <1>1, <1>3 DEF IsLastWrite
  <2> HIDE DEF b
  <2> QED BY <1>1, <1>2, <1>4, <2>1, <2>2, <2>3, NewBackupKeeps
<1>6. chunks' \in [RS -> SUBSET Chunk] /\ \A q \in RS : \A c \in chunks'[q] : c \in chunks[q] \/ NewChunk(c)
  BY <1>1, AllSlice DEF ArchiveInv
<1>7. SlicersStep
  BY <1>1, <1>2, <1>6, StopAllStops, TypesOfSlicing DEF SlicersStep
<1> QED BY <1>1, <1>5, <1>7, SlicersStepKeeps DEF ArchiveInv

LEMMA PhysicalBackupKeeps ==
  ASSUME ArchiveInv, plan' = plan, NEW type \in Types, NEW done \in BOOLEAN, NEW base \in BOOLEAN,
         PhysicalBackup(type, done, base)
  PROVE  ArchiveInv'
<1>1. /\ UNCHANGED <<plan, now, chunks, pitr, lastTS, uploaded, oldest, restored, fell>>
      /\ type \in {"physical", "incremental"} /\ (\A x \in bcps : x.start # now)
      /\ ~base => type = "incremental" /\ Increments(bcps) # {}
  BY DEF PhysicalBackup
<1>2. now \in Nat /\ now \in Time /\ 0 \in Time /\ 1 <= now
  BY TypesOfSlicing, Assumptions DEF ArchiveInv, MaxTime, Time
<1>3. Increments(bcps) # {} => Newest(Increments(bcps)).start \in Time
  <2>1. Increments(bcps) \subseteq bcps /\ bcps \subseteq Backup
    BY DEF Increments, ArchiveInv, TypeOK
  <2>2. IsFiniteSet(Increments(bcps)) /\ \A x \in Increments(bcps) : x.start \in Nat
    BY <2>1, Numbers, FS_Subset DEF ArchiveInv, BackupsInTime
  <2>3. Increments(bcps) # {} => Newest(Increments(bcps)) \in Increments(bcps)
    BY <2>2, NewestIsLast
  <2> QED BY <2>1, <2>3 DEF Backup
<1>4. PICK lw \in {0, now}, src \in Time :
        /\ bcps' = bcps \cup {[start |-> now, lw |-> lw, type |-> type, src |-> src, done |-> done]}
        /\ lw = IF done THEN now ELSE 0
        /\ src # 0 => ~base /\ src = Newest(Increments(bcps)).start
  <2>1. CASE base
    BY <1>2, <2>1 DEF PhysicalBackup
  <2>2. CASE ~base
    <3>1. Newest(Increments(bcps)).start \in Time
      BY <1>1, <1>3, <2>2
    <3> QED BY <2>2, <3>1 DEF PhysicalBackup
  <2> QED BY <2>1, <2>2
<1> DEFINE b == [start |-> now, lw |-> lw, type |-> type, src |-> src, done |-> done]
<1>5. b \in Backup
  BY <1>2, <1>4 DEF Backup
<1>6. bcps' \subseteq Backup /\ BackupsInTime' /\ Whole(bcps)' /\ NoneBetween'
  <2>1. b.start = now /\ b.lw = lw /\ b.done = done /\ b.type = type /\ b.src = src /\ bcps' = bcps \cup {b}
    BY <1>4
  <2>2. lw <= now' /\ now' \in Nat /\ now <= now'
    BY <1>1, <1>2, <1>4
  <2>3. b.src # 0 => b.type = "incremental" /\ Increments(bcps) # {} /\ b.src = Newest(Increments(bcps)).start
    BY <1>1, <1>4, <2>1
  <2>4. IsLastWrite(b)
    BY <1>1, <1>4 DEF IsLastWrite
  <2> HIDE DEF b
  <2> QED BY <1>1, <1>5, <2>1, <2>2, <2>3, <2>4, NewBackupKeeps
<1>7. SlicersStep
  BY <1>1, <1>2, TypesOfSlicing DEF SlicersStep
<1> QED BY <1>1, <1>6, <1>7, SlicersStepKeeps DEF ArchiveInv

LEMMA RestoreKeeps ==
  ASSUME ArchiveInv, plan' = plan, Restore PROVE ArchiveInv'
<1>1. /\ UNCHANGED <<plan, bcps, oldest, fell>> /\ StopAll /\ now + 2 <= MaxTime /\ now' = now + 2 /\ restored' = now + 1
      /\ pitr' = "off" /\ chunks' = [r \in RS |-> Slice(r, now)]
  BY DEF Restore
<1>2. /\ now \in Nat /\ now' \in Time /\ now' \in Nat /\ now <= now' /\ oldest \in 1..now' /\ restored' \in 0..now'
      /\ \A e \in Nat : e <= now => e <= restored' /\ e <= now'
  <2>1. MaxTime \in Nat
    BY Assumptions DEF ArchiveInv, MaxTime
  <2> QED BY <1>1, <2>1, TypesOfSlicing DEF Time
<1>3. /\ RS' = RS /\ Time' = Time /\ Backup' = Backup /\ Time \subseteq Nat
  BY <1>1, TypesOfSlicing DEF RS, Time, Backup, MaxTime, Types
<1>4. chunks' \in [RS -> SUBSET Chunk] /\ \A r \in RS : \A c \in chunks'[r] : c.s < c.e /\ c.e <= now /\ c.e \in Nat
  <2>1. chunks' \in [RS -> SUBSET Chunk] /\ \A r \in RS : \A c \in chunks'[r] : c \in chunks[r] \/ NewChunk(c)
    BY <1>1, AllSlice DEF ArchiveInv
  <2>2. \A c \in Chunk : c.e \in Nat
    BY <1>3 DEF Chunk
  <2> QED BY <2>1, <2>2, TypesOfSlicing DEF NewChunk
<1>5. uploaded' \in [RS -> BOOLEAN] /\ lastTS' \in [RS -> 0..now'] /\ \A r \in RS : lastTS'[r] = 0
  BY <1>1, <1>2, StopAllStops
<1>6. SlicedAfterRestore'
  BY <1>2, <1>3, <1>4, <1>5 DEF SlicedAfterRestore
<1>7. TypeOK'
  <2>1. chunks' \in [RS' -> SUBSET [s : Time' \ {0}, e : Time' \ {0}]]
    BY <1>3, <1>4 DEF Chunk
  <2>2. \A r \in RS' : \A c \in chunks'[r] : c.s < c.e /\ c.e <= now'
    BY <1>2, <1>3, <1>4
  <2>3. bcps' \subseteq Backup' /\ now' \in Time' /\ oldest' \in 1..now' /\ fell' \in BOOLEAN /\ pitr' \in plan'.modes \cup {"off"}
    BY <1>1, <1>2, <1>3 DEF ArchiveInv, TypeOK
  <2>4. lastTS' \in [RS' -> 0..now'] /\ uploaded' \in [RS' -> BOOLEAN]
    BY <1>3, <1>5
  <2> QED BY <1>2, <2>1, <2>2, <2>3, <2>4 DEF TypeOK
<1>8. BackupsInTime' /\ NoneBetween'
  BY <1>1, <1>2, RemovalKeeps DEF ArchiveInv
<1>9. Whole(bcps)'
  BY <1>1 DEF ArchiveInv, Whole, Increments
<1> QED BY <1>1, <1>6, <1>7, <1>8, <1>9 DEF ArchiveInv

\* Backups and chunks are removed, and the increments that are left are whole.
LEMMA DeletingKeeps ==
  ASSUME ArchiveInv, plan' = plan, bcps' \subseteq bcps, Whole(bcps'),
         UNCHANGED <<now, pitr, lastTS, uploaded, oldest, restored, fell>>,
         chunks' \in [RS -> SUBSET Chunk], \A r \in RS : chunks'[r] \subseteq chunks[r]
  PROVE  ArchiveInv'
<1>1. SlicersStep
  BY TypesOfSlicing DEF SlicersStep
<1>2. bcps' \subseteq Backup
  BY DEF ArchiveInv, TypeOK
<1>3. BackupsInTime' /\ NoneBetween'
  BY TypesOfSlicing, RemovalKeeps DEF ArchiveInv
<1>4. Whole(bcps)'
  OBVIOUS
<1> QED BY <1>1, <1>2, <1>3, <1>4, SlicersStepKeeps DEF ArchiveInv

LEMMA DeleteKeeps ==
  ASSUME ArchiveInv, plan' = plan, NEW b \in bcps, DeleteBackup(b) PROVE ArchiveInv'
<1>1. bcps' \subseteq bcps /\ Whole(bcps')
  BY DeletionKeepsWhole DEF DeleteBackup, ArchiveInv
<1>2. UNCHANGED <<now, chunks, pitr, lastTS, uploaded, oldest, restored, fell>>
  BY DEF DeleteBackup
<1> QED BY <1>1, <1>2, TypesOfSlicing, DeletingKeeps

LEMMA CleanupKeepsInv ==
  ASSUME ArchiveInv, plan' = plan, NEW ts \in plan.deleteAt, NEW type,
         Cleanup(ts) \/ DeletePITR(ts) \/ DeleteBackupBefore(ts, {type})
  PROVE  ArchiveInv'
<1> DEFINE R == CleanupInfo(ts).backups
<1>1. Whole(bcps \ R) /\ Whole(bcps)
  <2>1. ts \in Nat
    BY Assumptions DEF ArchiveInv
  <2> QED BY <2>1, CleanupKeepsWhole DEF ArchiveInv, TypeOK
<1>2. bcps' \subseteq bcps /\ Whole(bcps')
  <2>1. \/ bcps' = bcps \ R
        \/ bcps' = bcps
        \/ bcps' = bcps \ {b \in R : b.type \in {type}}
    BY DEF Cleanup, DeletePITR, DeleteBackupBefore
  <2>2. Whole(bcps \ {b \in R : b.type \in {type}})
    <3> DEFINE Q == {b \in R : b.type \in {type}}
    <3> HIDE DEF R
    <3>1. Q = {b \in R : b.type \in {type}}
      OBVIOUS
    <3>2. Whole(bcps \ Q)
      <4> HIDE DEF Q
      <4> QED BY <1>1, <3>1, OneTypeKeepsWhole
    <3> QED BY <3>2
  <2> HIDE DEF R
  <2>3. CASE bcps' = bcps
    BY <1>1, <2>3
  <2>4. CASE bcps' = bcps \ R
    BY <1>1, <2>4
  <2>5. CASE bcps' = bcps \ {b \in R : b.type \in {type}}
    <3>1. bcps' \subseteq bcps
      BY <2>5
    <3> QED BY <2>2, <2>5, <3>1
  <2> QED BY <2>1, <2>3, <2>4, <2>5
<1>3. UNCHANGED <<now, pitr, lastTS, uploaded, oldest, restored, fell>>
  BY DEF Cleanup, DeletePITR, DeleteBackupBefore
<1>4. chunks' \in [RS -> SUBSET Chunk] /\ \A r \in RS : chunks'[r] \subseteq chunks[r]
  <2>1. chunks' = chunks \/ chunks' = [r \in RS |-> chunks[r] \ CleanupInfo(ts).chunks[r]]
    BY DEF Cleanup, DeletePITR, DeleteBackupBefore
  <2> QED BY <2>1, TypesOfSlicing
<1> QED BY <1>2, <1>3, <1>4, DeletingKeeps

-----------------------------------------------------------------------------
(* Lifecycle deletes one target after another.                               *)

\* What is left after each target.
IsLeft(f, n, B, C, targets) ==
  f = [i \in 0..n |-> IF i = 0 THEN B ELSE AfterDelete(f[i - 1], C, targets[i])]

\* A set of numbers that is not empty has a smallest one.
LEMMA Smallest ==
  ASSUME NEW T, T \subseteq Nat, T # {} PROVE \E n \in T : \A m \in T : n <= m
<1>1. PICK n \in T : \A m \in T : ~(<<m, n>> \in OpToRel(<, Nat))
  BY NatLessThanWellFounded, WFMin
<1>2. \A m \in T : ~(m < n)
  BY <1>1 DEF OpToRel
<1> QED BY <1>2

\* Each value is made from the one before.
IsRecursion(f, n, X, x0, F) == f \in [0..n -> X] /\ f[0] = x0 /\ \A i \in 1..n : f[i] = F[i][f[i - 1]]

\* There is such a function.
LEMMA SomeRecursion ==
  ASSUME NEW n \in Nat, NEW X, NEW x0 \in X, NEW F \in [1..n -> [X -> X]]
  PROVE  \E f : IsRecursion(f, n, X, x0, F)
<1> DEFINE Is(f, m) == f \in [0..m -> X] /\ f[0] = x0 /\ \A i \in 1..m : f[i] = F[i][f[i - 1]]
           T == {m \in 0..n : ~\E f : Is(f, m)}
<1>1. SUFFICES ASSUME T # {} PROVE FALSE
  <2>1. n \in 0..n
    OBVIOUS
  <2>2. T = {} => \E f : Is(f, n)
    <3> HIDE DEF Is
    <3> QED BY <2>1
  <2>3. \A f : Is(f, n) <=> IsRecursion(f, n, X, x0, F)
    BY DEF IsRecursion
  <2> HIDE DEF Is
  <2> QED BY <2>2, <2>3
<1>2. PICK m \in T : \A k \in T : m <= k
  <2> HIDE DEF T
  <2>1. T \subseteq Nat
    BY DEF T
  <2> QED BY <1>1, <2>1, Smallest
<1>3. m # 0
  <2>1. Is([i \in 0..0 |-> x0], 0)
    OBVIOUS
  <2> HIDE DEF Is
  <2> QED BY <2>1
<1>4. PICK g : Is(g, m - 1)
  <2>1. m - 1 \in 0..n /\ ~(m <= m - 1)
    BY <1>3
  <2> HIDE DEF Is
  <2> QED BY <1>2, <2>1
<1> DEFINE f == [i \in 0..m |-> IF i = m THEN F[m][g[m - 1]] ELSE g[i]]
<1>5. m \in 1..n /\ m - 1 \in 0..(m - 1) /\ \A i \in 0..m : i = m \/ i \in 0..(m - 1)
  BY <1>3
<1>6. g[m - 1] \in X /\ F[m][g[m - 1]] \in X
  BY <1>4, <1>5
<1>7. f \in [0..m -> X]
  BY <1>4, <1>5, <1>6
<1>8. f[m] = F[m][g[m - 1]] /\ \A i \in 0..(m - 1) : f[i] = g[i]
  BY <1>5
<1> HIDE DEF f
<1>9. \A i \in 1..m : f[i] = F[i][f[i - 1]]
  <2> TAKE i \in 1..m
  <2>1. CASE i = m
    BY <1>5, <1>8, <2>1
  <2>2. CASE i # m
    <3>1. i \in 1..(m - 1) /\ i \in 0..(m - 1) /\ i - 1 \in 0..(m - 1)
      BY <2>2
    <3> QED BY <1>4, <1>8, <3>1
  <2> QED BY <2>1, <2>2
<1>10. f[0] = x0
  BY <1>4, <1>5, <1>8
<1>11. Is(f, m)
  BY <1>7, <1>9, <1>10
<1> HIDE DEF Is
<1> QED BY <1>11

LEMMA SomethingIsLeft ==
  ASSUME NEW n \in Nat, NEW B, NEW C, NEW targets PROVE \E f : IsLeft(f, n, B, C, targets)
<1> DEFINE X == SUBSET B
           F == [i \in 1..n |-> [S \in X |-> AfterDelete(S, C, targets[i])]]
<1>1. \A b : \A S \in X : AfterDelete(S, C, b) \in X
  BY DEF AfterDelete
<1>2. B \in X
  OBVIOUS
<1> HIDE DEF X
<1>3. F \in [1..n -> [X -> X]] /\ \A i \in 1..n, S \in X : F[i][S] = AfterDelete(S, C, targets[i])
  BY <1>1
<1> HIDE DEF F
<1>4. PICK f : IsRecursion(f, n, X, B, F)
  <2>1. F \in [1..n -> [X -> X]]
    BY <1>3
  <2> QED BY <1>2, <2>1, SomeRecursion
<1>5. \A i \in 0..n : f[i] = IF i = 0 THEN B ELSE AfterDelete(f[i - 1], C, targets[i])
  <2> TAKE i \in 0..n
  <2>1. i # 0 => i \in 1..n /\ i - 1 \in 0..n
    OBVIOUS
  <2> QED BY <1>3, <1>4, <2>1 DEF IsRecursion
<1>6. f = [i \in 0..n |-> f[i]]
  BY <1>4 DEF IsRecursion
<1> QED BY <1>5, <1>6 DEF IsLeft

\* What is left is whole after every one.
LEMMA WholeIsLeft ==
  ASSUME NEW n \in Nat, NEW B, Whole(B), NEW C, NEW targets, NEW f, IsLeft(f, n, B, C, targets)
  PROVE  f[n] \subseteq B /\ Whole(f[n])
<1> DEFINE T == {m \in 0..n : ~(f[m] \subseteq B /\ Whole(f[m]))}
<1>1. SUFFICES ASSUME T # {} PROVE FALSE
  OBVIOUS
<1>2. PICK m \in T : \A k \in T : m <= k
  <2>1. T \subseteq Nat
    OBVIOUS
  <2> HIDE DEF T
  <2> QED BY <1>1, <2>1, Smallest
<1>3. f[m] = IF m = 0 THEN B ELSE AfterDelete(f[m - 1], C, targets[m])
  BY DEF IsLeft
<1>4. CASE m = 0
  BY <1>3, <1>4
<1>5. CASE m # 0
  <2>1. m - 1 \in 0..n /\ ~(m <= m - 1)
    BY <1>5
  <2>2. f[m - 1] \subseteq B /\ Whole(f[m - 1])
    BY <1>2, <2>1
  <2> QED BY <1>3, <1>5, <2>2, DeletionKeepsWhole
<1> QED BY <1>4, <1>5

\* A purge deletes its targets in their order.
LEMMA PurgeLeaves ==
  ASSUME ArchiveInv, NEW purgeFailed \in BOOLEAN, Purge(purgeFailed)
  PROVE  LET T == Targets(Kept(purgeFailed)) IN
         /\ T \subseteq bcps /\ IsFiniteSet(T) /\ Cardinality(T) \in Nat
         /\ \E f : IsLeft(f, Cardinality(T), bcps, chunks, Ordered(T)) /\ bcps' = f[Cardinality(T)]
<1> DEFINE T == Targets(Kept(purgeFailed))
           n == Cardinality(T)
           targets == Ordered(T)
<1>1. T \subseteq bcps
  BY DEF Targets
<1>2. IsFiniteSet(T) /\ n \in Nat
  <2>1. IsFiniteSet(T)
    BY <1>1, FS_Subset DEF ArchiveInv, BackupsInTime
  <2> QED BY <2>1, FS_CardinalityType
<1>3. bcps' = (CHOOSE f : f = [i \in 0..n |-> IF i = 0 THEN bcps ELSE AfterDelete(f[i - 1], chunks, targets[i])])[n]
  BY DEF Purge
<1> HIDE DEF n, targets
<1>4. \E f : f = [i \in 0..n |-> IF i = 0 THEN bcps ELSE AfterDelete(f[i - 1], chunks, targets[i])]
  <2>1. PICK f : IsLeft(f, n, bcps, chunks, targets)
    BY <1>2, SomethingIsLeft
  <2>2. f = [i \in 0..n |-> IF i = 0 THEN bcps ELSE AfterDelete(f[i - 1], chunks, targets[i])]
    BY <2>1 DEF IsLeft
  <2> QED BY <2>2
<1>5. \E f : IsLeft(f, n, bcps, chunks, targets) /\ bcps' = f[n]
  BY <1>3, <1>4 DEF IsLeft
<1> QED BY <1>1, <1>2, <1>5 DEF n, targets

LEMMA PurgeKeepsWhole ==
  ASSUME ArchiveInv, NEW purgeFailed \in BOOLEAN, Purge(purgeFailed)
  PROVE  bcps' \subseteq bcps /\ Whole(bcps')
<1> DEFINE T == Targets(Kept(purgeFailed))
<1> HIDE DEF T
<1>1. Cardinality(T) \in Nat /\ \E f : IsLeft(f, Cardinality(T), bcps, chunks, Ordered(T)) /\ bcps' = f[Cardinality(T)]
  BY PurgeLeaves DEF T
<1>2. Whole(bcps)
  BY DEF ArchiveInv
<1> QED BY <1>1, <1>2, WholeIsLeft

LEMMA PurgeKeepsInv ==
  ASSUME ArchiveInv, plan' = plan, NEW purgeFailed \in BOOLEAN, Purge(purgeFailed) PROVE ArchiveInv'
<1>1. UNCHANGED <<now, chunks, pitr, lastTS, uploaded, oldest, restored, fell>>
  BY DEF Purge
<1> QED BY <1>1, PurgeKeepsWhole, TypesOfSlicing, DeletingKeeps

\* R orders the elements of S, one after the other.
InOrder(R, S) ==
  /\ \A x \in S : <<x, x>> \notin R
  /\ \A x, y \in S : x # y => <<x, y>> \in R \/ <<y, x>> \in R
  /\ \A x, y, z \in S : <<x, y>> \in R /\ <<y, z>> \in R => <<x, z>> \in R

\* A finite set in the order of R: each element at the place that the number of those before
\* it says.
Lined(R, S) ==
  [i \in 1..Cardinality(S) |-> CHOOSE x \in S : Cardinality({y \in S : <<y, x>> \in R}) = i - 1]

LEMMA LinedUp ==
  ASSUME NEW S, IsFiniteSet(S), NEW R, InOrder(R, S)
  PROVE  /\ Cardinality(S) \in Nat
         /\ \A i \in 1..Cardinality(S) : Lined(R, S)[i] \in S
         /\ \A x \in S : \E i \in 1..Cardinality(S) : Lined(R, S)[i] = x
         /\ \A i, j \in 1..Cardinality(S) : i < j <=> <<Lined(R, S)[i], Lined(R, S)[j]>> \in R
<1> DEFINE n == Cardinality(S)
           Below(x) == {y \in S : <<y, x>> \in R}
           place == [x \in S |-> Cardinality(Below(x))]
           q == Lined(R, S)
<1>1. n \in Nat
  BY FS_CardinalityType
<1>2. \A x \in S : IsFiniteSet(Below(x)) /\ place[x] = Cardinality(Below(x)) /\ place[x] \in 0..(n - 1)
  <2> TAKE x \in S
  <2>1. Below(x) \in SUBSET S /\ Below(x) # S
    BY DEF InOrder
  <2>2. IsFiniteSet(Below(x)) /\ Cardinality(Below(x)) <= n /\ Cardinality(Below(x)) # n
    BY <2>1, FS_Subset
  <2>3. Cardinality(Below(x)) \in Nat
    BY <2>2, FS_CardinalityType
  <2>4. place[x] = Cardinality(Below(x))
    OBVIOUS
  <2> HIDE DEF Below, place, n
  <2> QED BY <1>1, <2>2, <2>3, <2>4
<1>3. \A x, y \in S : <<x, y>> \in R => place[x] < place[y]
  <2> SUFFICES ASSUME NEW x \in S, NEW y \in S, <<x, y>> \in R PROVE place[x] < place[y]
    OBVIOUS
  <2>1. Below(x) \in SUBSET Below(y) /\ x \in Below(y) /\ x \notin Below(x)
    BY DEF InOrder
  <2>2. IsFiniteSet(Below(y))
    BY <1>2
  <2> HIDE DEF Below
  <2>3. Cardinality(Below(x)) <= Cardinality(Below(y)) /\ Cardinality(Below(x)) # Cardinality(Below(y))
    BY <2>1, <2>2, FS_Subset
  <2> HIDE DEF place, n
  <2>4. place[x] <= place[y] /\ place[x] # place[y]
    BY <1>2, <2>3
  <2> QED BY <1>1, <1>2, <2>4
<1> HIDE DEF place, Below, n
<1>4. \A x, y \in S : place[x] = place[y] => x = y
  <2> SUFFICES ASSUME NEW x \in S, NEW y \in S, place[x] = place[y], x # y PROVE FALSE
    OBVIOUS
  <2>1. place[x] < place[y] \/ place[y] < place[x]
    BY <1>3 DEF InOrder
  <2>2. place[x] \in Nat /\ place[y] \in Nat
    BY <1>1, <1>2
  <2> QED BY <2>1, <2>2
<1>5. place \in Surjection(S, 0..(n - 1))
  <2>1. place \in [S -> 0..(n - 1)]
    <3>1. place = [x \in S |-> place[x]]
      BY DEF place
    <3> QED BY <1>2, <3>1
  <2>2. place \in Injection(S, 0..(n - 1))
    BY <1>4, <2>1 DEF Injection, IsInjective
  <2>3. IsFiniteSet(0..(n - 1)) /\ Cardinality(0..(n - 1)) = n
    <3>1. 0 \in Int /\ n - 1 \in Int
      BY <1>1
    <3>2. IsFiniteSet(0..(n - 1)) /\ Cardinality(0..(n - 1)) = IF 0 > n - 1 THEN 0 ELSE (n - 1) - 0 + 1
      BY <3>1, FS_Interval
    <3> QED BY <1>1, <3>2
  <2> QED BY <2>2, <2>3, FS_Injection DEF n
<1>6. \A i \in 1..n : q[i] \in S /\ place[q[i]] = i - 1
  <2> TAKE i \in 1..n
  <2>1. i - 1 \in 0..(n - 1)
    BY <1>1
  <2>2. \E x \in S : place[x] = i - 1
    BY <1>5, <2>1 DEF Surjection
  <2>3. \E x \in S : Cardinality(Below(x)) = i - 1
    BY <1>2, <2>2
  <2>4. q[i] = CHOOSE x \in S : Cardinality(Below(x)) = i - 1
    BY DEF Lined, n, Below
  <2>5. q[i] \in S /\ Cardinality(Below(q[i])) = i - 1
    <3> HIDE DEF q
    <3> QED BY <2>3, <2>4
  <2> HIDE DEF q
  <2> QED BY <1>2, <2>5
<1> HIDE DEF q
<1>7. \A x \in S : \E i \in 1..n : q[i] = x
  <2> TAKE x \in S
  <2>1. place[x] + 1 \in 1..n /\ (place[x] + 1) - 1 = place[x]
    BY <1>1, <1>2
  <2>2. q[place[x] + 1] \in S /\ place[q[place[x] + 1]] = place[x]
    BY <1>6, <2>1
  <2> QED BY <1>4, <2>1, <2>2
<1>8. \A i, j \in 1..n : i < j <=> <<q[i], q[j]>> \in R
  <2> TAKE i, j \in 1..n
  <2>1. q[i] \in S /\ q[j] \in S /\ place[q[i]] = i - 1 /\ place[q[j]] = j - 1 /\ i \in Nat /\ j \in Nat
    BY <1>1, <1>6
  <2>2. <<q[i], q[j]>> \in R => i - 1 < j - 1
    BY <1>3, <2>1
  <2>3. <<q[j], q[i]>> \in R => j - 1 < i - 1
    BY <1>3, <2>1
  <2>4. q[i] = q[j] => i - 1 = j - 1
    BY <2>1
  <2>5. q[i] = q[j] \/ <<q[i], q[j]>> \in R \/ <<q[j], q[i]>> \in R
    BY <2>1 DEF InOrder
  <2>6. i - 1 < j - 1 <=> i < j
    BY <2>1
  <2> QED BY <2>1, <2>2, <2>3, <2>4, <2>5, <2>6
<1> QED BY <1>1, <1>6, <1>7, <1>8 DEF n, q

\* The chunks before and after each other.
Spans == [s : Nat, e : Nat]
StartOrder(S) == {p \in S \X S : ByStart(p[1], p[2])}

LEMMA ByStartOrders ==
  ASSUME NEW S, S \subseteq Spans
  PROVE  /\ \A x, y \in S : <<x, y>> \in StartOrder(S) <=> ByStart(x, y)
         /\ InOrder(StartOrder(S), S)
<1>1. \A x, y \in S : <<x, y>> \in StartOrder(S) <=> ByStart(x, y)
  BY DEF StartOrder
<1>2. \A x, y \in S : x.s \in Nat /\ x.e \in Nat /\ (x.s = y.s /\ x.e = y.e => x = y)
  BY DEF Spans
<1>3. \A x \in S : ~ByStart(x, x)
  BY <1>2 DEF ByStart
<1>4. \A x, y \in S : x # y => ByStart(x, y) \/ ByStart(y, x)
  BY <1>2 DEF ByStart
<1>5. \A x, y, z \in S : ByStart(x, y) /\ ByStart(y, z) => ByStart(x, z)
  BY <1>2 DEF ByStart
<1> QED BY <1>1, <1>3, <1>4, <1>5 DEF InOrder

LEMMA SortedByStart ==
  ASSUME NEW S, IsFiniteSet(S), S \subseteq Spans
  PROVE  LET q == Sorted(S) IN
         /\ Cardinality(S) \in Nat /\ q \in [1..Cardinality(S) -> S] /\ Len(q) = Cardinality(S)
         /\ \A x \in S : \E i \in 1..Cardinality(S) : q[i] = x
         /\ \A i, j \in 1..Cardinality(S) : i < j <=> ByStart(q[i], q[j])
<1> DEFINE R == StartOrder(S)
           n == Cardinality(S)
           q == Sorted(S)
<1>1. InOrder(R, S) /\ \A x, y \in S : <<x, y>> \in R <=> ByStart(x, y)
  BY ByStartOrders
<1>2. q = Lined(R, S)
  <2>1. \A x \in S : {y \in S : <<y, x>> \in R} = {y \in S : ByStart(y, x)}
    BY <1>1
  <2>2. \A i \in 1..n : (CHOOSE x \in S : Cardinality({y \in S : <<y, x>> \in R}) = i - 1)
                        = (CHOOSE x \in S : Cardinality({y \in S : ByStart(y, x)}) = i - 1)
    <3> TAKE i \in 1..n
    <3>1. \A x \in S : (Cardinality({y \in S : <<y, x>> \in R}) = i - 1) <=> (Cardinality({y \in S : ByStart(y, x)}) = i - 1)
      BY <2>1
    <3> QED BY <3>1
  <2> QED BY <2>2 DEF Lined, Sorted
<1> HIDE DEF R
<1>3. /\ n \in Nat
      /\ \A i \in 1..n : q[i] \in S
      /\ \A x \in S : \E i \in 1..n : q[i] = x
      /\ \A i, j \in 1..n : i < j <=> <<q[i], q[j]>> \in R
  BY <1>1, <1>2, LinedUp
<1>4. q \in [1..n -> S]
  <2> DEFINE At(i) == CHOOSE x \in S : Cardinality({y \in S : ByStart(y, x)}) = i - 1
  <2>1. q = [i \in 1..n |-> At(i)]
    BY DEF Sorted
  <2> HIDE DEF At, q, n
  <2> QED BY <1>3, <2>1
<1> HIDE DEF q, n
<1>5. Len(q) = n
  <2>1. q \in Seq(S)
    BY <1>3, <1>4
  <2> QED BY <1>3, <1>4, <2>1
<1>6. \A i, j \in 1..n : i < j <=> ByStart(q[i], q[j])
  BY <1>1, <1>3
<1> QED BY <1>3, <1>4, <1>5, <1>6 DEF q, n

-----------------------------------------------------------------------------
(* What chunks cover, without numbers.                                       *)

\* p is the one right before x.
Right(Q, p, x) == p \in Q /\ x \in Q /\ ByStart(p, x) /\ \A z \in Q : ~(ByStart(p, z) /\ ByStart(z, x))

\* The first one starts in time, each starts before the one before it ends, and the last
\* one goes on for long enough.
Covers(Q, from, to) ==
  /\ Q # {}
  /\ \A x \in Q : (\A y \in Q : ~ByStart(y, x)) => x.s <= from
  /\ \A p, x \in Q : Right(Q, p, x) => x.s <= p.e
  /\ \A x \in Q : (\A y \in Q : ~ByStart(x, y)) => to <= x.e

\* Places next to each other.
LEMMA NextInOrder ==
  ASSUME NEW S, IsFiniteSet(S), S \subseteq Spans, NEW i \in 1..Cardinality(S)
  PROVE  /\ i = 1 <=> \A y \in S : ~ByStart(y, Sorted(S)[i])
         /\ i = Cardinality(S) <=> \A y \in S : ~ByStart(Sorted(S)[i], y)
         /\ i # 1 => Right(S, Sorted(S)[i - 1], Sorted(S)[i])
<1> DEFINE n == Cardinality(S)
           q == Sorted(S)
<1>1. /\ n \in Nat /\ q \in [1..n -> S]
      /\ \A x \in S : \E j \in 1..n : q[j] = x
      /\ \A j, k \in 1..n : j < k <=> ByStart(q[j], q[k])
  BY SortedByStart
<1>2. i \in 1..n
  OBVIOUS
<1> HIDE DEF n, q
<1>3. 1 \in 1..n /\ n \in 1..n /\ (i # 1 => i - 1 \in 1..n)
  BY <1>1, <1>2
<1>4. i = 1 <=> \A y \in S : ~ByStart(y, q[i])
  <2>1. i = 1 <=> \A j \in 1..n : ~(j < i)
    BY <1>1, <1>2
  <2> QED BY <1>1, <1>2, <2>1
<1>5. i = n <=> \A y \in S : ~ByStart(q[i], y)
  <2>1. i = n <=> \A j \in 1..n : ~(i < j)
    BY <1>1, <1>2, <1>3
  <2> QED BY <1>1, <1>2, <2>1
<1>6. i # 1 => Right(S, q[i - 1], q[i])
  <2> SUFFICES ASSUME i # 1 PROVE Right(S, q[i - 1], q[i])
    OBVIOUS
  <2>1. i - 1 < i /\ \A j \in 1..n : ~(i - 1 < j /\ j < i)
    BY <1>1, <1>2
  <2>2. \A z \in S : ~(ByStart(q[i - 1], z) /\ ByStart(z, q[i]))
    BY <1>1, <1>2, <1>3, <2>1
  <2> QED BY <1>1, <1>2, <1>3, <2>1, <2>2 DEF Right
<1> QED BY <1>4, <1>5, <1>6 DEF n, q

LEMMA Neighbours ==
  ASSUME NEW S, IsFiniteSet(S), S \subseteq Spans
  PROVE  /\ \A x \in S : (\E y \in S : ByStart(y, x)) => \E p \in S : Right(S, p, x)
         /\ \A x \in S : (\E y \in S : ByStart(x, y)) => \E y \in S : Right(S, x, y)
         /\ S # {} => \E x \in S : \A y \in S : ~ByStart(y, x)
         /\ S # {} => \E x \in S : \A y \in S : ~ByStart(x, y)
<1> DEFINE n == Cardinality(S)
           q == Sorted(S)
<1>1. /\ n \in Nat /\ q \in [1..n -> S]
      /\ \A x \in S : \E j \in 1..n : q[j] = x
  BY SortedByStart
<1>2. \A i \in 1..n : /\ i = 1 <=> \A y \in S : ~ByStart(y, q[i])
                      /\ i = n <=> \A y \in S : ~ByStart(q[i], y)
                      /\ i # 1 => Right(S, q[i - 1], q[i])
  BY NextInOrder
<1> HIDE DEF n, q
<1>3. ASSUME NEW x \in S, \E y \in S : ByStart(y, x) PROVE \E p \in S : Right(S, p, x)
  <2>1. PICK i \in 1..n : q[i] = x
    BY <1>1
  <2>2. Right(S, q[i - 1], x)
    BY <1>2, <1>3, <2>1
  <2> QED BY <2>2 DEF Right
<1>4. ASSUME NEW x \in S, \E y \in S : ByStart(x, y) PROVE \E y \in S : Right(S, x, y)
  <2>1. PICK i \in 1..n : q[i] = x
    BY <1>1
  <2>2. i # n
    BY <1>2, <1>4, <2>1
  <2>3. i + 1 \in 1..n /\ i + 1 # 1 /\ (i + 1) - 1 = i
    BY <1>1, <2>2
  <2>4. Right(S, q[(i + 1) - 1], q[i + 1])
    BY <1>2, <2>3
  <2>5. Right(S, x, q[i + 1])
    BY <2>1, <2>3, <2>4
  <2> QED BY <2>5 DEF Right
<1>5. ASSUME S # {} PROVE (\E x \in S : \A y \in S : ~ByStart(y, x)) /\ \E x \in S : \A y \in S : ~ByStart(x, y)
  <2>1. 1 \in 1..n /\ n \in 1..n
    BY <1>1, <1>5
  <2> QED BY <1>1, <1>2, <2>1
<1> QED BY <1>3, <1>4, <1>5

\* What is right before an element has the place right before its place.
LEMMA PlacesOfNeighbours ==
  ASSUME NEW S, IsFiniteSet(S), S \subseteq Spans, NEW p, NEW x, Right(S, p, x)
  PROVE  \E i \in 1..Cardinality(S) : i # 1 /\ x = Sorted(S)[i] /\ p = Sorted(S)[i - 1]
<1> DEFINE n == Cardinality(S)
           q == Sorted(S)
<1>1. /\ n \in Nat /\ q \in [1..n -> S]
      /\ \A y \in S : \E j \in 1..n : q[j] = y
      /\ \A j, k \in 1..n : j < k <=> ByStart(q[j], q[k])
  BY SortedByStart
<1> HIDE DEF n, q
<1>2. PICK i \in 1..n, j \in 1..n : q[i] = x /\ q[j] = p
  BY <1>1 DEF Right
<1>3. j < i /\ \A k \in 1..n : ~(j < k /\ k < i)
  BY <1>1, <1>2 DEF Right
<1>4. i # 1 /\ j = i - 1
  <2>1. j = i - 1 \/ (j + 1 \in 1..n /\ j < j + 1 /\ j + 1 < i)
    BY <1>1, <1>2, <1>3
  <2>2. i # 1
    BY <1>1, <1>2, <1>3
  <2> QED BY <1>3, <2>1, <2>2
<1> QED BY <1>2, <1>4 DEF n, q

\* A restore accepts chunks if they cover the range.
LEMMA AcceptedIfCovered ==
  ASSUME NEW C, IsFiniteSet(C), C \subseteq Spans, NEW from, NEW to
  PROVE  Accepts(C, from, to) <=> Covers({c \in C : c.e >= from /\ c.s <= to}, from, to)
<1> DEFINE Q == {c \in C : c.e >= from /\ c.s <= to}
           n == Cardinality(Q)
           q == Sorted(Q)
<1>1. IsFiniteSet(Q) /\ Q \subseteq Spans
  BY FS_Subset
<1>2. Accepts(C, from, to) <=> /\ q # <<>> /\ q[Len(q)].e >= to
                               /\ \A i \in DOMAIN q : q[i].s <= (IF i = 1 THEN from ELSE q[i - 1].e)
  BY DEF Accepts
<1> HIDE DEF Q
<1>3. /\ n \in Nat /\ q \in [1..n -> Q] /\ Len(q) = n
      /\ \A x \in Q : \E i \in 1..n : q[i] = x
  BY <1>1, SortedByStart
<1>4. \A i \in 1..n : /\ i = 1 <=> \A y \in Q : ~ByStart(y, q[i])
                      /\ i = n <=> \A y \in Q : ~ByStart(q[i], y)
                      /\ i # 1 => Right(Q, q[i - 1], q[i])
  BY <1>1, NextInOrder
<1>5. \A p, x : Right(Q, p, x) => \E i \in 1..n : i # 1 /\ x = q[i] /\ p = q[i - 1]
  BY <1>1, PlacesOfNeighbours
<1> HIDE DEF n, q
<1>6. DOMAIN q = 1..n /\ (q # <<>> <=> n # 0) /\ (n # 0 <=> Q # {})
  <2>1. DOMAIN q = 1..n
    BY <1>3
  <2>2. q # <<>> <=> n # 0
    <3>1. q \in Seq(Q)
      BY <1>3
    <3> QED BY <1>3, <3>1
  <2>3. n # 0 <=> Q # {}
    BY <1>1, FS_EmptySet DEF n
  <2> QED BY <2>1, <2>2, <2>3
<1>7. \A x \in Q : x.s \in Nat /\ x.e \in Nat
  BY <1>1 DEF Spans
<1>8. SUFFICES ASSUME Q # {}
               PROVE  (q[n].e >= to /\ \A i \in 1..n : q[i].s <= (IF i = 1 THEN from ELSE q[i - 1].e)) <=> Covers(Q, from, to)
  BY <1>2, <1>3, <1>6 DEF Covers, Q
<1>9. n \in 1..n /\ 1 \in 1..n
  BY <1>3, <1>6, <1>8
<1>10. (\A x \in Q : (\A y \in Q : ~ByStart(x, y)) => to <= x.e) <=> to <= q[n].e
  BY <1>3, <1>4, <1>9
<1>11. (\A x \in Q : (\A y \in Q : ~ByStart(y, x)) => x.s <= from) <=> q[1].s <= from
  BY <1>3, <1>4, <1>9
<1>12. (\A p, x \in Q : Right(Q, p, x) => x.s <= p.e) <=> \A i \in 1..n : i # 1 => q[i].s <= q[i - 1].e
  <2>1. ASSUME \A p, x \in Q : Right(Q, p, x) => x.s <= p.e, NEW i \in 1..n, i # 1 PROVE q[i].s <= q[i - 1].e
    BY <1>4, <2>1 DEF Right
  <2>2. ASSUME \A i \in 1..n : i # 1 => q[i].s <= q[i - 1].e, NEW p \in Q, NEW x \in Q, Right(Q, p, x) PROVE x.s <= p.e
    BY <1>5, <2>2
  <2> QED BY <2>1, <2>2
<1>13. q[n].e >= to <=> to <= q[n].e
  OBVIOUS
<1>14. (\A i \in 1..n : q[i].s <= (IF i = 1 THEN from ELSE q[i - 1].e))
          <=> q[1].s <= from /\ \A i \in 1..n : i # 1 => q[i].s <= q[i - 1].e
  BY <1>9
<1> QED BY <1>8, <1>10, <1>11, <1>12, <1>13, <1>14 DEF Covers

\* What ends before a later start is not needed for the range from there.
LEMMA EarlyEndsAreNotNeeded ==
  ASSUME NEW Q, IsFiniteSet(Q), Q \subseteq Spans, NEW from, NEW to, Covers(Q, from, to),
         from \in Nat, to \in Nat, NEW at \in Nat, from <= at, at < to
  PROVE  Covers({c \in Q : at < c.e}, at, to)
<1> DEFINE P == {c \in Q : at < c.e}
<1>1. IsFiniteSet(P) /\ P \subseteq Q
  BY FS_Subset
<1>2. \A x \in Q : x.s \in Nat /\ x.e \in Nat
  BY DEF Spans
<1>3. \A x \in Q : x \in P <=> at < x.e
  OBVIOUS
<1> HIDE DEF P
<1>4. PICK g \in Q : \A y \in Q : ~ByStart(g, y)
  BY Neighbours DEF Covers
<1>5. g \in P /\ to <= g.e
  BY <1>2, <1>3, <1>4 DEF Covers
<1>6. ASSUME NEW x \in P, \A y \in P : ~ByStart(y, x) PROVE x.s <= at
  <2>1. CASE \A y \in Q : ~ByStart(y, x)
    BY <1>1, <1>2, <2>1 DEF Covers
  <2>2. CASE \E y \in Q : ByStart(y, x)
    <3>1. PICK p \in Q : Right(Q, p, x)
      BY <1>1, <2>2, Neighbours
    <3>2. x.s <= p.e /\ p.e <= at
      BY <1>1, <1>2, <1>3, <1>6, <3>1 DEF Covers, Right
    <3> QED BY <1>1, <1>2, <3>2
  <2> QED BY <2>1, <2>2
<1>7. ASSUME NEW p \in P, NEW x \in P, Right(P, p, x) PROVE x.s <= p.e
  <2>1. PICK y \in Q : Right(Q, y, x)
    BY <1>1, <1>7, Neighbours DEF Right
  <2>2. x.s <= y.e
    BY <1>1, <2>1 DEF Covers
  <2>3. CASE y = p
    BY <2>2, <2>3
  <2>4. CASE y # p
    <3>1. ByStart(p, y)
      <4>1. ByStart(p, y) \/ ByStart(y, p)
        BY <1>1, <2>4, ByStartOrders DEF InOrder
      <4>2. ~ByStart(y, p)
        BY <1>1, <1>7, <2>1 DEF Right
      <4> QED BY <4>1, <4>2
    <3>2. y \notin P
      BY <1>7, <2>1, <3>1 DEF Right
    <3> QED BY <1>1, <1>2, <1>3, <2>2, <3>2
  <2> QED BY <2>3, <2>4
<1>8. ASSUME NEW x \in P, \A y \in P : ~ByStart(x, y) PROVE to <= x.e
  <2>1. x = g
    <3>1. ~ByStart(x, g) /\ ~ByStart(g, x)
      BY <1>1, <1>4, <1>5, <1>8
    <3> QED BY <1>1, <3>1, ByStartOrders DEF InOrder
  <2> QED BY <1>5, <2>1
<1>9. Covers(P, at, to)
  BY <1>5, <1>6, <1>7, <1>8 DEF Covers
<1> QED BY <1>9 DEF P

\* What starts after an earlier end is not needed for the range up to there.
LEMMA LateStartsAreNotNeeded ==
  ASSUME NEW Q, IsFiniteSet(Q), Q \subseteq Spans, NEW from, NEW to, Covers(Q, from, to),
         from \in Nat, to \in Nat, NEW at \in Nat, from < at, at <= to
  PROVE  Covers({c \in Q : c.s < at}, from, at)
<1> DEFINE P == {c \in Q : c.s < at}
<1>1. IsFiniteSet(P) /\ P \subseteq Q
  BY FS_Subset
<1>2. \A x \in Q : x.s \in Nat /\ x.e \in Nat
  BY DEF Spans
<1>3. \A x \in Q : x \in P <=> x.s < at
  OBVIOUS
<1> HIDE DEF P
<1>4. \A x \in P, y \in Q : ByStart(y, x) => y \in P
  BY <1>1, <1>2, <1>3 DEF ByStart
<1>5. P # {}
  <2>1. PICK x \in Q : \A y \in Q : ~ByStart(y, x)
    BY Neighbours DEF Covers
  <2>2. x.s <= from
    BY <2>1 DEF Covers
  <2> QED BY <1>2, <1>3, <2>2
<1>6. ASSUME NEW x \in P, \A y \in P : ~ByStart(y, x) PROVE x.s <= from
  <2>1. \A y \in Q : ~ByStart(y, x)
    BY <1>4, <1>6
  <2> QED BY <1>1, <2>1 DEF Covers
<1>7. ASSUME NEW p \in P, NEW x \in P, Right(P, p, x) PROVE x.s <= p.e
  <2>1. Right(Q, p, x)
    BY <1>1, <1>4, <1>7 DEF Right
  <2> QED BY <1>1, <2>1 DEF Covers
<1>8. ASSUME NEW x \in P, \A y \in P : ~ByStart(x, y) PROVE at <= x.e
  <2>1. CASE \A y \in Q : ~ByStart(x, y)
    <3>1. to <= x.e
      BY <1>1, <2>1 DEF Covers
    <3> QED BY <1>1, <1>2, <3>1
  <2>2. CASE \E y \in Q : ByStart(x, y)
    <3>1. PICK y \in Q : Right(Q, x, y)
      BY <1>1, <2>2, Neighbours
    <3>2. y.s <= x.e
      BY <1>1, <3>1 DEF Covers
    <3>3. y \notin P
      BY <1>8, <3>1 DEF Right
    <3> QED BY <1>1, <1>2, <1>3, <3>2, <3>3
  <2> QED BY <2>1, <2>2
<1>9. Covers(P, from, at)
  BY <1>5, <1>6, <1>7, <1>8 DEF Covers
<1> QED BY <1>9 DEF P

-----------------------------------------------------------------------------
(* The timelines of chunks that cover a range, and those merged.             *)

LEMMA OneTimeline ==
  ASSUME NEW S, IsFiniteSet(S), S \subseteq Spans, NEW from, NEW to, Covers(S, from, to), from \in Nat, to \in Nat
  PROVE  \E t \in Spans : Gettimelines(S) = {t} /\ t.s <= from /\ to <= t.e
<1> DEFINE n == Cardinality(S)
           q == Sorted(S)
           first == {i \in DOMAIN q : i = 1 \/ q[i - 1].e < q[i].s}
           last(i) == Min({j \in DOMAIN q : j >= i /\ (j = Len(q) \/ j + 1 \in first)})
<1>1. S # {} /\ \A x \in S : x.s \in Nat /\ x.e \in Nat
  BY DEF Covers, Spans
<1>2. Gettimelines(S) = {[s |-> q[i].s, e |-> q[last(i)].e] : i \in first}
  BY <1>1 DEF Gettimelines
<1>3. /\ n \in Nat /\ q \in [1..n -> S] /\ Len(q) = n
  BY SortedByStart
<1>4. \A i \in 1..n : /\ i = 1 <=> \A y \in S : ~ByStart(y, q[i])
                      /\ i = n <=> \A y \in S : ~ByStart(q[i], y)
                      /\ i # 1 => Right(S, q[i - 1], q[i])
  BY NextInOrder
<1>5. n # 0
  BY <1>1, FS_EmptySet
<1> HIDE DEF n, q
<1>6. DOMAIN q = 1..n /\ 1 \in 1..n /\ n \in 1..n
  BY <1>3, <1>5
<1>7. first = {1}
  <2>1. \A i \in 1..n : i # 1 => q[i].s <= q[i - 1].e /\ q[i].s \in Nat /\ q[i - 1].e \in Nat
    <3> SUFFICES ASSUME NEW i \in 1..n, i # 1 PROVE q[i].s <= q[i - 1].e /\ q[i].s \in Nat /\ q[i - 1].e \in Nat
      OBVIOUS
    <3>1. Right(S, q[i - 1], q[i])
      BY <1>4
    <3>2. q[i - 1] \in S /\ q[i] \in S
      BY <3>1 DEF Right
    <3> QED BY <1>1, <3>1, <3>2 DEF Covers
  <2>2. \A i \in 1..n : i # 1 => ~(q[i - 1].e < q[i].s)
    BY <2>1
  <2> QED BY <1>6, <2>2
<1>8. last(1) = n
  <2>1. {j \in DOMAIN q : j >= 1 /\ (j = Len(q) \/ j + 1 \in first)} = {n}
    <3>1. \A j \in 1..n : j >= 1 /\ j + 1 # 1
      BY <1>3
    <3> HIDE DEF first
    <3> QED BY <1>3, <1>6, <1>7, <3>1
  <2>2. Min({n}) = n
    BY <1>3 DEF Min
  <2> QED BY <2>1, <2>2
<1> DEFINE t == [s |-> q[1].s, e |-> q[n].e]
<1>9. Gettimelines(S) = {t}
  <2> HIDE DEF first, last
  <2> QED BY <1>2, <1>7, <1>8
<1>10. q[1] \in S /\ q[n] \in S /\ q[1].s <= from /\ to <= q[n].e
  <2>1. q[1] \in S /\ q[n] \in S
    BY <1>3, <1>6
  <2> QED BY <1>4, <1>6, <2>1 DEF Covers
<1>11. t \in Spans
  BY <1>1, <1>10 DEF Spans
<1> QED BY <1>9, <1>10, <1>11

\* The values of a function on 1..n, seen one after the other: the smallest, where zero is
\* taken for none.
IsEarliest(f, n, tlns) ==
  f = [i \in 0..n |-> IF i = 0 THEN 0
                      ELSE IF f[i - 1] = 0 \/ Max(Ends(tlns[i])) < f[i - 1] THEN Max(Ends(tlns[i])) ELSE f[i - 1]]

LEMMA SomeEarliest ==
  ASSUME NEW n \in Nat, NEW tlns PROVE \E f : IsEarliest(f, n, tlns)
<1> DEFINE End(i) == Max(Ends(tlns[i]))
           Step(i, m) == IF m = 0 \/ End(i) < m THEN End(i) ELSE m
           X == {0} \cup {End(i) : i \in 1..n}
           F == [i \in 1..n |-> [m \in X |-> Step(i, m)]]
<1> HIDE DEF End
<1>1. \A i \in 1..n, m \in X : Step(i, m) \in X
  OBVIOUS
<1>2. 0 \in X
  OBVIOUS
<1> HIDE DEF X, Step
<1>3. F \in [1..n -> [X -> X]] /\ \A i \in 1..n, m \in X : F[i][m] = Step(i, m)
  BY <1>1
<1> HIDE DEF F
<1>4. PICK f : IsRecursion(f, n, X, 0, F)
  <2>1. F \in [1..n -> [X -> X]]
    BY <1>3
  <2> QED BY <1>2, <2>1, SomeRecursion
<1>5. \A i \in 0..n : f[i] = IF i = 0 THEN 0 ELSE Step(i, f[i - 1])
  <2> TAKE i \in 0..n
  <2>1. i # 0 => i \in 1..n /\ i - 1 \in 0..n
    OBVIOUS
  <2> QED BY <1>3, <1>4, <2>1 DEF IsRecursion
<1>6. f = [i \in 0..n |-> f[i]]
  BY <1>4 DEF IsRecursion
<1>7. f = [i \in 0..n |-> IF i = 0 THEN 0 ELSE Step(i, f[i - 1])]
  BY <1>5, <1>6
<1> QED BY <1>7 DEF IsEarliest, Step, End

\* The smallest of the ends that are not zero.
LEMMA EarliestIsSmallest ==
  ASSUME NEW n \in Nat, n # 0, NEW tlns, Len(tlns) = n, \A i \in 1..n : Max(Ends(tlns[i])) \in Nat \ {0}
  PROVE  /\ \E i \in 1..n : EarliestEnd(tlns) = Max(Ends(tlns[i]))
         /\ \A i \in 1..n : EarliestEnd(tlns) <= Max(Ends(tlns[i]))
<1> DEFINE End(i) == Max(Ends(tlns[i]))
<1>1. PICK f : IsEarliest(f, n, tlns) /\ EarliestEnd(tlns) = f[n]
  <2>1. \E f : IsEarliest(f, n, tlns)
    BY SomeEarliest
  <2>2. EarliestEnd(tlns) = (CHOOSE f : IsEarliest(f, n, tlns))[n]
    BY DEF EarliestEnd, IsEarliest
  <2> QED BY <2>1, <2>2
<1>2. \A i \in 0..n : f[i] = IF i = 0 THEN 0 ELSE IF f[i - 1] = 0 \/ End(i) < f[i - 1] THEN End(i) ELSE f[i - 1]
  BY <1>1 DEF IsEarliest
<1>3. \A i \in 1..n : End(i) \in Nat /\ End(i) # 0
  OBVIOUS
<1> HIDE DEF End
<1> DEFINE Holds(k) == (\E i \in 1..k : f[k] = End(i)) /\ \A i \in 1..k : f[k] <= End(i)
           T == {k \in 1..n : ~Holds(k)}
<1>4. SUFFICES ASSUME T # {} PROVE FALSE
  <2>1. n \in 1..n
    OBVIOUS
  <2>2. T = {} => Holds(n)
    <3> HIDE DEF Holds
    <3> QED BY <2>1
  <2> QED BY <1>1, <2>2 DEF End
<1>5. PICK k \in T : \A m \in T : k <= m
  <2> HIDE DEF T
  <2>1. T \subseteq Nat
    BY DEF T
  <2> QED BY <1>4, <2>1, Smallest
<1>6. k \in 1..n /\ k \in 0..n /\ k # 0 /\ k - 1 \in 0..n /\ ~(k <= k - 1)
  OBVIOUS
<1>7. CASE k = 1
  <2>1. f[0] = 0 /\ f[1] = End(1)
    <3>1. 0 \in 0..n /\ 1 \in 0..n /\ 1 - 1 = 0
      OBVIOUS
    <3> QED BY <1>2, <3>1
  <2>2. Holds(1)
    BY <1>3, <2>1
  <2> HIDE DEF Holds
  <2> QED BY <1>7, <2>2
<1>8. CASE k # 1
  <2>1. k - 1 \in 1..n
    BY <1>6, <1>8
  <2>2. Holds(k - 1)
    <3> HIDE DEF Holds
    <3> QED BY <1>5, <1>6, <2>1
  <2>3. PICK i \in 1..(k - 1) : f[k - 1] = End(i)
    BY <2>2
  <2>4. i \in 1..n /\ i \in 1..k /\ k \in 1..k
    BY <1>6
  <2>5. f[k] = IF End(k) < f[k - 1] THEN End(k) ELSE f[k - 1]
    BY <1>2, <1>3, <1>6, <2>3, <2>4
  <2>6. f[k - 1] \in Nat /\ End(k) \in Nat
    BY <1>3, <1>6, <2>3, <2>4
  <2>7. \E m \in 1..k : f[k] = End(m)
    BY <2>3, <2>4, <2>5
  <2>8. ASSUME NEW m \in 1..k PROVE f[k] <= End(m)
    <3>1. CASE m = k
      BY <2>5, <2>6, <3>1
    <3>2. CASE m # k
      <4>1. m \in 1..(k - 1) /\ m \in 1..n
        BY <1>6, <3>2
      <4>2. f[k - 1] <= End(m) /\ End(m) \in Nat
        BY <1>3, <2>2, <4>1
      <4> QED BY <2>5, <2>6, <4>2
    <3> QED BY <3>1, <3>2
  <2>9. Holds(k)
    BY <2>7, <2>8
  <2> HIDE DEF Holds
  <2> QED BY <2>9
<1> QED BY <1>7, <1>8

\* The largest of some numbers.
LEMMA MaxIsLargest ==
  ASSUME NEW S, IsFiniteSet(S), S \subseteq Nat, S # {} PROVE Max(S) \in S /\ \A x \in S : x <= Max(S)
<1> DEFINE R == {p \in S \X S : p[1] <= p[2]}
<1>1. \A x, y \in S : <<x, y>> \in R <=> x <= y
  OBVIOUS
<1> HIDE DEF R
<1>2. \A x, y \in S : x # y => <<x, y>> \in R \/ <<y, x>> \in R
  BY <1>1
<1>3. \A x, y, z \in S : <<x, y>> \in R /\ <<y, z>> \in R => <<x, z>> \in R
  BY <1>1
<1>4. PICK b \in S : \A x \in S \ {b} : <<x, b>> \in R
  BY <1>2, <1>3, GreatestOfFinite
<1>5. \A x \in S : b >= x
  <2> TAKE x \in S
  <2>1. CASE x = b
    BY <2>1
  <2>2. CASE x # b
    <3>1. x <= b
      BY <1>1, <1>4, <2>2
    <3> QED BY <3>1
  <2> QED BY <2>1, <2>2
<1>6. Max(S) \in S /\ \A x \in S : Max(S) >= x
  BY <1>5 DEF Max
<1> QED BY <1>6

\* Timelines that each are one, and long enough, are merged into one that is long enough.
LEMMA MergedIsLongEnough ==
  ASSUME NEW n \in Nat, n # 0, NEW tlns, Len(tlns) = n, DOMAIN tlns = 1..n,
         NEW from \in Nat, NEW to \in Nat, to # 0,
         \A i \in 1..n : \E t \in Spans : tlns[i] = {t} /\ t.s <= from /\ to <= t.e
  PROVE  \E t \in MergeTimelines(tlns) : t.s <= from /\ to <= t.e
<1>1. ASSUME NEW i \in 1..n
      PROVE  /\ Gaps(tlns[i]) = {}
             /\ Max(Ends(tlns[i])) \in Nat /\ to <= Max(Ends(tlns[i]))
             /\ Min(Starts(tlns[i])) \in Nat /\ Min(Starts(tlns[i])) <= from
  <2>1. PICK t \in Spans : tlns[i] = {t} /\ t.s <= from /\ to <= t.e
    BY <1>1
  <2>2. t.s \in Nat /\ t.e \in Nat
    BY DEF Spans
  <2>3. Starts(tlns[i]) = {t.s} /\ Ends(tlns[i]) = {t.e}
    BY <2>1 DEF Starts, Ends
  <2>4. Max({t.s}) = t.s /\ Max({t.e}) = t.e /\ Min({t.s}) = t.s
    BY <2>2 DEF Max, Min
  <2>5. {u \in tlns[i] : u.s < Max(Starts(tlns[i]))} = {}
    <3>1. Max(Starts(tlns[i])) = t.s /\ ~(t.s < t.s)
      BY <2>2, <2>3, <2>4
    <3>2. \A u \in tlns[i] : u = t
      BY <2>1
    <3> QED BY <3>1, <3>2
  <2>6. Gaps(tlns[i]) = {}
    BY <2>5 DEF Gaps
  <2> QED BY <2>1, <2>2, <2>3, <2>4, <2>6
<1>2. CASE n = 1
  <2>1. MergeTimelines(tlns) = tlns[1]
    BY <1>2 DEF MergeTimelines
  <2>2. 1 \in 1..n
    BY <1>2
  <2> QED BY <2>1, <2>2
<1>3. CASE n # 1
  <2> DEFINE S == {Min(Starts(tlns[i])) : i \in DOMAIN tlns}
             G == UNION {Gaps(tlns[i]) : i \in DOMAIN tlns}
  <2>1. MergeTimelines(tlns) = WithinRange(G, Max(S), EarliestEnd(tlns))
    BY <1>3 DEF MergeTimelines
  <2>2. G = {}
    BY <1>1
  <2>3. MergeTimelines(tlns) = {[s |-> Max(S), e |-> EarliestEnd(tlns)]}
    <3> HIDE DEF S, G
    <3> QED BY <2>1, <2>2 DEF WithinRange
  <2>4. Max(S) \in S
    <3>1. S \subseteq Nat /\ \A x \in S : x <= from
      BY <1>1
    <3>2. Min(Starts(tlns[1])) \in S
      OBVIOUS
    <3> HIDE DEF S
    <3>3. IsFiniteSet(S)
      BY <3>1, FS_BoundedSetOfNaturals
    <3> QED BY <3>1, <3>2, <3>3, MaxIsLargest
  <2>5. Max(S) <= from
    BY <1>1, <2>4
  <2>6. EarliestEnd(tlns) \in Nat /\ to <= EarliestEnd(tlns)
    <3>1. \A i \in 1..n : Max(Ends(tlns[i])) \in Nat \ {0}
      BY <1>1
    <3>2. PICK i \in 1..n : EarliestEnd(tlns) = Max(Ends(tlns[i]))
      BY <3>1, EarliestIsSmallest
    <3> QED BY <1>1, <3>2
  <2> HIDE DEF S
  <2> QED BY <2>3, <2>5, <2>6
<1> QED BY <1>2, <1>3

\* If the chunks of every replica set cover the range, a single timeline does.
LEMMA CoveredBySingleTimeline ==
  ASSUME NEW rss, IsFiniteSet(rss), rss # {}, NEW C, DOMAIN C = rss, NEW from \in Nat, NEW to \in Nat, to # 0,
         \A r \in rss : IsFiniteSet(C[r]) /\ C[r] \subseteq Spans /\ Covers(C[r], from, to)
  PROVE  HasSingleTimelineToCover(C, from, to)
<1> DEFINE n == Cardinality(rss)
           rs == SetToSeq(rss)
           tlns == [i \in 1..n |-> Gettimelines(C[rs[i]])]
<1>1. {r \in DOMAIN C : C[r] # {}} = rss
  BY DEF Covers
<1>2. HasSingleTimelineToCover(C, from, to) <=> \E t \in MergeTimelines(tlns) : t.s <= from /\ to <= t.e
  BY <1>1 DEF HasSingleTimelineToCover
<1>3. n \in Nat /\ n # 0
  BY FS_CardinalityType, FS_EmptySet
<1>4. rs \in [1..n -> rss]
  <2>1. \E f \in [1..n -> rss] : IsInjective(f)
    <3>1. ExistsBijection(1..n, rss)
      BY FS_CardinalityType
    <3>2. PICK f \in Bijection(1..n, rss) : TRUE
      BY <3>1 DEF ExistsBijection
    <3>3. f \in [1..n -> rss] /\ \A i, j \in 1..n : f[i] = f[j] => i = j
      BY <3>2 DEF Bijection, Injection, IsInjective
    <3>4. IsInjective(f)
      BY <3>3 DEF IsInjective
    <3> QED BY <3>3, <3>4
  <2> QED BY <2>1 DEF SetToSeq
<1> HIDE DEF n, rs
<1>5. \A i \in 1..n : \E t \in Spans : tlns[i] = {t} /\ t.s <= from /\ to <= t.e
  <2> TAKE i \in 1..n
  <2>1. rs[i] \in rss
    BY <1>4
  <2>2. \E t \in Spans : Gettimelines(C[rs[i]]) = {t} /\ t.s <= from /\ to <= t.e
    BY <2>1, OneTimeline
  <2> QED BY <2>2
<1>6. Len(tlns) = n /\ DOMAIN tlns = 1..n
  <2>1. tlns \in Seq({tlns[i] : i \in 1..n})
    BY <1>3
  <2> QED BY <1>3, <2>1
<1> HIDE DEF tlns
<1>7. \E t \in MergeTimelines(tlns) : t.s <= from /\ to <= t.e
  BY <1>3, <1>5, <1>6, MergedIsLongEnough
<1> QED BY <1>2, <1>7

-----------------------------------------------------------------------------
(* What a cleanup leaves can be restored.                                    *)

LEMMA ChunksAreFinite ==
  ASSUME ArchiveInv, NEW r \in RS
  PROVE  chunks[r] \subseteq Spans /\ IsFiniteSet(chunks[r]) /\ \A c \in chunks[r] : c.s < c.e
<1> DEFINE D == Time \ {0}
           f == [p \in D \X D |-> [s |-> p[1], e |-> p[2]]]
<1>1. IsFiniteSet(D) /\ D \subseteq Nat
  <2>1. MaxTime \in Nat
    BY Assumptions DEF ArchiveInv, MaxTime
  <2>2. IsFiniteSet(0..MaxTime)
    BY <2>1, FS_Interval
  <2> QED BY <2>1, <2>2, FS_Subset DEF Time
<1>2. IsFiniteSet(D \X D)
  BY <1>1, FS_Product
<1> HIDE DEF D
<1>3. f \in Surjection(D \X D, [s : D, e : D])
  <2>1. f \in [D \X D -> [s : D, e : D]]
    OBVIOUS
  <2>2. \A c \in [s : D, e : D] : <<c.s, c.e>> \in D \X D /\ f[<<c.s, c.e>>] = c
    OBVIOUS
  <2> HIDE DEF f
  <2> QED BY <2>1, <2>2 DEF Surjection
<1>4. IsFiniteSet([s : D, e : D])
  <2> HIDE DEF f
  <2> QED BY <1>2, <1>3, FS_Surjection
<1>5. chunks[r] \subseteq [s : D, e : D] /\ \A c \in chunks[r] : c.s < c.e
  BY DEF ArchiveInv, TypeOK, D
<1>6. [s : D, e : D] \subseteq Spans
  BY <1>1 DEF Spans
<1> QED BY <1>4, <1>5, <1>6, FS_Subset

\* A backup that can be a base has all that it comes from.
LEMMA WholeIsComplete ==
  ASSUME bcps \subseteq Backup, plan \in Plans, BackupsInTime, NEW B, B \subseteq bcps, Whole(B), NEW b \in Bases(B)
  PROVE  Complete(B, b)
<1> DEFINE A == {x \in Increments(B) : x \in Ancestors(B, b)}
           T == {x.start : x \in A}
<1>1. b \in B /\ b.done
  BY DEF Bases, IsValidBase
<1>2. b \in Ancestors(B, b) /\ \A x \in B, y \in Ancestors(B, b) : y.src = x.start => x \in Ancestors(B, b)
  BY AncestorsAreClosed
<1>3. \A x \in bcps : x.start \in Nat /\ x.src \in Nat /\ x.src < x.start /\ (x.src # 0 => x.type = "incremental")
  BY Numbers DEF BackupsInTime
<1>4. SUFFICES ASSUME \A x \in Ancestors(B, b) : x.src # 0 PROVE FALSE
  BY DEF Complete
<1>5. b \in A
  BY <1>1, <1>2, <1>3, <1>4 DEF Increments
<1>6. PICK n \in T : \A m \in T : n <= m
  <2>1. T \subseteq Nat /\ T # {}
    BY <1>3, <1>5 DEF Increments
  <2> HIDE DEF T
  <2> QED BY <2>1, Smallest
<1>7. PICK x \in A : n = x.start
  OBVIOUS
<1>8. x \in Increments(B) /\ x \in Ancestors(B, b) /\ x.src # 0 /\ x \in bcps
  BY <1>4 DEF Increments
<1>9. PICK y \in Increments(B) : y.start = x.src
  BY <1>8 DEF Whole
<1>10. y \in A /\ y \in B
  BY <1>2, <1>8, <1>9 DEF Increments
<1>11. x.start <= y.start
  BY <1>6, <1>7, <1>10
<1> QED BY <1>3, <1>8, <1>9, <1>11

\* What a backup comes from ends no later.
LEMMA AncestorsAreEarlier ==
  ASSUME bcps \subseteq Backup, plan \in Plans, BackupsInTime, NEW b \in Bases(bcps), NEW x \in Ancestors(bcps, b), x.done
  PROVE  x \in bcps /\ x.lw <= b.lw
<1> DEFINE S == {y \in bcps : y = b \/ y.start < b.start}
<1>1. b \in bcps /\ b.done
  BY DEF Bases, IsValidBase
<1>2. \A y \in bcps : y.start \in Nat /\ y.src \in Nat /\ y.lw \in Nat /\ y.src < y.start /\ IsLastWrite(y)
  BY Numbers DEF BackupsInTime
<1>3. \A y \in bcps, z \in S : z.src = y.start => y \in S
  BY <1>1, <1>2
<1>4. S \in SUBSET (bcps \cup {b}) /\ b \in S
  BY <1>1
<1>5. x \in S
  <2> HIDE DEF S
  <2> QED BY <1>3, <1>4 DEF Ancestors
<1>6. CASE x = b
  BY <1>1, <1>2, <1>6
<1>7. CASE x # b
  <2>1. x.start < b.start /\ x \in bcps
    BY <1>5, <1>7
  <2>2. x.lw <= x.start + 1 /\ b.start <= b.lw
    BY <1>1, <1>2, <2>1 DEF IsLastWrite
  <2> QED BY <1>1, <1>2, <2>1, <2>2
<1> QED BY <1>6, <1>7

\* What is accepted from an earlier time on is accepted from a later one, without the chunks
\* that end by then.
LEMMA LaterBaseReaches ==
  ASSUME ArchiveInv, NEW C, NEW from \in Nat, NEW at \in Nat, NEW t \in Nat, from <= at, at < t,
         \A r \in RS : /\ Accepts(chunks[r], from, t)
                       /\ C[r] \subseteq chunks[r] /\ \A c \in chunks[r] : c \in C[r] <=> at < c.e
  PROVE  \A r \in RS : Accepts(C[r], at, t)
<1> TAKE r \in RS
<1> DEFINE Q == {c \in chunks[r] : c.e >= from /\ c.s <= t}
           P == {c \in C[r] : c.e >= at /\ c.s <= t}
<1>1. chunks[r] \subseteq Spans /\ IsFiniteSet(chunks[r]) /\ \A c \in chunks[r] : c.s < c.e
  BY ChunksAreFinite
<1>2. Covers(Q, from, t)
  BY <1>1, AcceptedIfCovered
<1>3. IsFiniteSet(Q) /\ Q \subseteq Spans /\ C[r] \subseteq Spans /\ IsFiniteSet(C[r])
  BY <1>1, FS_Subset
<1>4. Covers({c \in Q : at < c.e}, at, t)
  <2> HIDE DEF Q
  <2> QED BY <1>2, <1>3, EarlyEndsAreNotNeeded
<1>5. {c \in Q : at < c.e} = P
  <2>1. \A c \in chunks[r] : c.s \in Nat /\ c.e \in Nat /\ c.s < c.e
    BY <1>1 DEF Spans
  <2>2. \A c \in chunks[r] : c \in C[r] <=> at < c.e
    OBVIOUS
  <2>3. \A c \in chunks[r] : (c \in Q /\ at < c.e) <=> c \in P
    BY <2>1, <2>2
  <2>4. Q \subseteq chunks[r] /\ P \subseteq chunks[r]
    OBVIOUS
  <2> HIDE DEF P, Q
  <2> QED BY <2>3, <2>4
<1>6. Covers(P, at, t)
  BY <1>4, <1>5
<1> QED BY <1>3, <1>6, AcceptedIfCovered

\* Then the chunks in between make a single timeline.
LEMMA ReachableIsCovered ==
  ASSUME ArchiveInv, NEW from \in Nat, NEW at \in Nat, NEW ts \in Nat, NEW t \in Nat, from <= at, at < ts, ts <= t,
         \A r \in RS : Accepts(chunks[r], from, t)
  PROVE  HasSingleTimelineToCover([r \in RS |-> {c \in chunks[r] : c.s < ts /\ c.e > at}], at, ts)
<1> DEFINE C == [r \in RS |-> {c \in chunks[r] : c.s < ts /\ c.e > at}]
<1>1. IsFiniteSet(RS) /\ RS # {}
  <2>1. plan.replsets \in Nat \ {0}
    BY Assumptions DEF ArchiveInv
  <2>2. 1 \in RS
    BY <2>1 DEF RS
  <2>3. IsFiniteSet(1..plan.replsets)
    BY <2>1, FS_Interval
  <2> QED BY <2>2, <2>3 DEF RS
<1>2. ASSUME NEW r \in RS PROVE IsFiniteSet(C[r]) /\ C[r] \subseteq Spans /\ Covers(C[r], at, ts)
  <2> DEFINE Q == {c \in chunks[r] : c.e >= from /\ c.s <= t}
             P == {c \in Q : at < c.e}
  <2>1. chunks[r] \subseteq Spans /\ IsFiniteSet(chunks[r])
    BY <1>2, ChunksAreFinite
  <2>2. Covers(Q, from, t)
    BY <1>2, <2>1, AcceptedIfCovered
  <2>3. IsFiniteSet(Q) /\ IsFiniteSet(P) /\ P \subseteq Spans /\ Q \subseteq Spans
    BY <2>1, FS_Subset
  <2>4. Covers(P, at, t)
    <3> HIDE DEF Q
    <3> QED BY <2>2, <2>3, EarlyEndsAreNotNeeded
  <2>5. Covers({c \in P : c.s < ts}, at, ts)
    <3> HIDE DEF P
    <3> QED BY <2>3, <2>4, LateStartsAreNotNeeded
  <2>6. {c \in P : c.s < ts} = {c \in chunks[r] : c.s < ts /\ c.e > at}
    <3>1. \A c \in chunks[r] : c.s \in Nat /\ c.e \in Nat
      BY <2>1 DEF Spans
    <3>2. \A c \in chunks[r] : (c \in P /\ c.s < ts) <=> (c.s < ts /\ c.e > at)
      BY <3>1
    <3>3. P \subseteq chunks[r]
      OBVIOUS
    <3> HIDE DEF P
    <3> QED BY <3>2, <3>3
  <2>7. C[r] = {c \in chunks[r] : c.s < ts /\ c.e > at}
    BY <1>2
  <2>8. IsFiniteSet(C[r]) /\ C[r] \subseteq Spans
    <3>1. C[r] \in SUBSET chunks[r]
      BY <2>7
    <3> HIDE DEF C
    <3> QED BY <2>1, <3>1, FS_Subset
  <2> HIDE DEF C, P
  <2> QED BY <2>5, <2>6, <2>7, <2>8
<1>3. DOMAIN C = RS /\ ts # 0
  OBVIOUS
<1> HIDE DEF C
<1>4. HasSingleTimelineToCover(C, at, ts)
  BY <1>1, <1>2, <1>3, CoveredBySingleTimeline
<1> QED BY <1>4 DEF C

\* A point that could be restored from a backup of the past still can be after a cleanup.
LEMMA CleanupLeavesReachable ==
  ASSUME ArchiveInv, NEW ts \in plan.deleteAt, Cleanup(ts), NEW t \in ts..now,
         NEW b \in Bases(bcps), b.lw <= ts,
         Reachable({x \in bcps : x = b \/ x \in Ancestors(bcps, b)}, chunks, t)
  PROVE  Reachable(bcps', chunks', t)
<1> DEFINE old  == {x \in bcps : x.lw <= ts}
           C    == [r \in RS |-> {c \in chunks[r] : c.s < ts}]
           at   == Highest(old)
           rest == IF at.lw = ts THEN old \ {at} ELSE old
           base == Highest(Bases(rest))
           after == [r \in RS |-> {c \in C[r] : c.e > base.lw}]
           R == CleanupInfo(ts).backups
           G == CleanupInfo(ts).chunks
<1>1. /\ ts \in Nat /\ t \in Nat /\ ts <= t
      /\ bcps \subseteq Backup /\ plan \in Plans /\ BackupsInTime /\ Whole(bcps) /\ NoneBetween
  <2>1. ts \in Nat /\ now \in Nat
    BY Assumptions, TypesOfSlicing DEF ArchiveInv
  <2> QED BY <2>1 DEF ArchiveInv, TypeOK
<1>2. /\ \A x \in bcps : x.start \in Nat /\ x.lw \in Nat /\ x.src \in Nat /\ 1 <= x.start /\ IsLastWrite(x)
      /\ \A x \in bcps : x.type \in {"logical", "physical", "incremental", "selective"}
      /\ \A x, y \in bcps : x.start = y.start => x = y
      /\ \A B \in SUBSET bcps : IsFiniteSet(B)
  <2>1. \A B \in SUBSET bcps : IsFiniteSet(B)
    BY <1>1, FS_Subset DEF BackupsInTime
  <2>2. \A x \in bcps : x.type \in {"logical", "physical", "incremental", "selective"}
    BY <1>1, Assumptions DEF Backup, Types
  <2> QED BY <1>1, <2>1, <2>2, Numbers DEF BackupsInTime
<1>3. bcps' = bcps \ R /\ (\A r \in RS : chunks'[r] = chunks[r] \ G[r]) /\ Whole(bcps')
  BY <1>1, CleanupKeepsWhole DEF Cleanup
<1>4. PICK x \in Bases(bcps) : /\ x.lw <= b.lw
                               /\ x.lw = t \/ (x.lw < t /\ \A r \in RS : Accepts(chunks[r], x.lw, t))
  <2> DEFINE B == {x \in bcps : x = b \/ x \in Ancestors(bcps, b)}
  <2>1. PICK x \in Bases(B) : x.lw = t \/ (x.lw < t /\ \A r \in RS : Accepts(chunks[r], x.lw, t))
    BY DEF Reachable
  <2>2. x \in Bases(bcps) /\ x \in Ancestors(bcps, b) /\ x.done
    BY <2>1, AncestorsAreClosed DEF Bases, IsValidBase
  <2>3. x.lw <= b.lw
    BY <1>1, <2>2, AncestorsAreEarlier
  <2> QED BY <2>1, <2>2, <2>3
<1>5. b \in old /\ b \in bcps /\ IsValidBase(b) /\ old \subseteq bcps
  BY DEF Bases
<1>6. at \in old /\ \A y \in old \ {at} : ByLw(y, at)
  BY <1>2, <1>5, HighestIsLast
<1>7. rest \subseteq bcps /\ rest \subseteq old
  BY <1>5
<1>8. x \in bcps /\ x.lw \in Nat /\ b.lw \in Nat /\ x.lw <= ts
  <2>1. x \in bcps
    BY DEF Bases
  <2> QED BY <1>1, <1>2, <1>4, <1>5, <2>1
\* A base that stays, and no earlier than the backups of the past, is enough.
<1>9. ASSUME NEW y \in bcps', IsValidBase(y), x.lw <= y.lw, y.lw <= t,
             y.lw < t => \A r \in RS : \A c \in chunks[r] : c \in chunks'[r] <=> y.lw < c.e
      PROVE  Reachable(bcps', chunks', t)
  <2>1. y \in Bases(bcps') /\ bcps' \subseteq bcps /\ y.lw \in Nat
    BY <1>2, <1>3, <1>9 DEF Bases
  <2>2. Complete(bcps', y)
    BY <1>1, <1>3, <2>1, WholeIsComplete
  <2>3. CASE y.lw = t
    BY <2>1, <2>2, <2>3 DEF Reachable
  <2>4. CASE y.lw < t
    <3>1. x.lw < t /\ \A r \in RS : Accepts(chunks[r], x.lw, t)
      BY <1>1, <1>4, <1>8, <1>9, <2>1, <2>4
    <3>2. \A r \in RS : chunks'[r] \subseteq chunks[r]
      BY <1>3
    <3>3. \A r \in RS : Accepts(chunks'[r], y.lw, t)
      BY <1>1, <1>8, <1>9, <2>1, <2>4, <3>1, <3>2, LaterBaseReaches
    <3> QED BY <2>1, <2>2, <2>4, <3>3 DEF Reachable
  <2> QED BY <1>1, <1>9, <2>1, <2>3, <2>4
<1>10. CASE at.lw = ts /\ IsValidBase(at)
  <2>1. R = WithoutLastChain(rest) /\ rest = old \ {at} /\ G = Upto(C, ts)
    BY <1>5, <1>10 DEF CleanupInfo
  <2> HIDE DEF R, G, rest, C
  <2>2. at \in bcps'
    BY <1>3, <1>5, <1>6, <2>1 DEF WithoutLastChain
  <2>3. \A r \in RS : \A c \in chunks[r] : c \in chunks'[r] <=> at.lw < c.e
    <3> SUFFICES ASSUME NEW r \in RS, NEW c \in chunks[r] PROVE c \in chunks'[r] <=> at.lw < c.e
      OBVIOUS
    <3>1. c \in G[r] <=> c.s < ts /\ c.e <= ts
      BY <2>1 DEF C, Upto
    <3>2. c.s \in Nat /\ c.e \in Nat /\ c.s < c.e
      BY ChunksAreFinite DEF Spans
    <3> QED BY <1>1, <1>3, <1>10, <3>1, <3>2
  <2> QED BY <1>1, <1>8, <1>9, <1>10, <2>2, <2>3
<1>11. CASE ~(at.lw = ts /\ IsValidBase(at))
  <2>1. b \in Bases(rest)
    BY <1>5, <1>11 DEF Bases
  <2>2. base \in Bases(rest) /\ \A y \in Bases(rest) \ {base} : ByLw(y, base)
    <3>1. Bases(rest) \subseteq bcps
      BY <1>7 DEF Bases
    <3> HIDE DEF rest
    <3> QED BY <1>2, <2>1, <3>1, HighestIsLast
  <2>3. base \in rest /\ base \in old /\ base \in bcps /\ IsValidBase(base) /\ base.lw \in Nat /\ base.lw <= ts
    <3>1. base \in rest /\ IsValidBase(base)
      BY <2>2 DEF Bases
    <3> HIDE DEF base, rest
    <3> QED BY <1>2, <1>7, <3>1
  <2>4. b.lw <= base.lw
    <3> HIDE DEF base, rest
    <3> QED BY <1>8, <2>1, <2>2, <2>3 DEF ByLw
  \* A backup that is no base ends at the time at which one does that starts earlier.
  <2>5. base.lw # ts
    <3> SUFFICES ASSUME base.lw = ts PROVE FALSE
      OBVIOUS
    <3>1. at.lw = ts /\ ~IsValidBase(at) /\ base # at
      <4>1. at \in bcps /\ at.lw \in Nat /\ at.lw <= ts
        BY <1>2, <1>5, <1>6
      <4>2. base # at => ByLw(base, at)
        BY <1>6, <2>3
      <4> HIDE DEF base, at
      <4>3. at.lw = ts
        BY <1>1, <2>3, <4>1, <4>2 DEF ByLw
      <4> QED BY <1>11, <2>3, <4>3
    <3>2. ByLw(base, at) /\ at \in bcps
      BY <1>5, <1>6, <2>3, <3>1
    <3> HIDE DEF base, at
    <3>3. IsLastWrite(at) /\ IsLastWrite(base) /\ at.start \in Nat /\ base.start \in Nat /\ 1 <= base.start /\ base.done
      BY <1>2, <2>3, <3>2 DEF IsValidBase
    <3>4. base.start < at.start /\ at.lw = base.lw
      BY <1>1, <3>1, <3>2 DEF ByLw
    <3>5. at.done /\ at.type = "selective"
      BY <3>1, <3>3, <3>4 DEF IsValidBase, IsLastWrite
    <3> QED BY <3>3, <3>4, <3>5 DEF IsLastWrite
  <2> DEFINE needed == \/ HasSingleTimelineToCover(after, base.lw, ts)
                       \/ pitr = "on" /\ BaseAfter(bcps, ts) = {}
  <2>6. IF needed THEN R = WithoutLastChain(rest \ {base}) /\ G = Upto(C, base.lw)
                  ELSE R = WithoutLastChain(rest) /\ G = C
    <3>1. old # {} /\ Bases(rest) # {}
      BY <1>5, <2>1
    <3> QED BY <1>11, <3>1 DEF CleanupInfo
  <2>7. needed
    <3>1. x.lw < t /\ \A r \in RS : Accepts(chunks[r], x.lw, t)
      <4> HIDE DEF base
      <4> QED BY <1>1, <1>4, <1>8, <2>3, <2>4, <2>5
    <3>2. x.lw <= base.lw /\ base.lw < ts /\ x.lw \in Nat /\ base.lw \in Nat
      <4> HIDE DEF base
      <4> QED BY <1>1, <1>4, <1>8, <2>3, <2>4, <2>5
    <3>3. after = [r \in RS |-> {c \in chunks[r] : c.s < ts /\ c.e > base.lw}]
      <4> HIDE DEF base
      <4> QED OBVIOUS
    <3> HIDE DEF base, after
    <3>4. HasSingleTimelineToCover(after, base.lw, ts)
      BY <1>1, <3>1, <3>2, <3>3, ReachableIsCovered
    <3> QED BY <3>4
  <2> HIDE DEF R, G, needed, base
  <2>8. R = WithoutLastChain(rest \ {base}) /\ G = Upto(C, base.lw)
    BY <2>6, <2>7
  <2> HIDE DEF rest, C
  <2>9. base \in bcps'
    BY <1>3, <2>3, <2>8 DEF WithoutLastChain
  <2>10. \A r \in RS : \A c \in chunks[r] : c \in chunks'[r] <=> base.lw < c.e
    <3> SUFFICES ASSUME NEW r \in RS, NEW c \in chunks[r] PROVE c \in chunks'[r] <=> base.lw < c.e
      OBVIOUS
    <3>1. c \in G[r] <=> c.s < ts /\ c.e <= base.lw
      BY <2>8 DEF C, Upto
    <3>2. c.s \in Nat /\ c.e \in Nat /\ c.s < c.e
      BY ChunksAreFinite DEF Spans
    <3> QED BY <1>1, <1>3, <2>3, <3>1, <3>2
  <2>11. x.lw <= base.lw /\ base.lw <= t
    BY <1>1, <1>4, <1>8, <2>3, <2>4
  <2> QED BY <1>9, <2>3, <2>9, <2>10, <2>11
<1> QED BY <1>10, <1>11

-----------------------------------------------------------------------------
(* What a lifecycle purge keeps.                                             *)

Incs == {b \in bcps : b.type = "incremental"}
Roots(b) == {x \in Ancestors(Incs, b) : x.src = 0}

\* All that comes from a base has it for its only root, whichever of the others are left.
LEMMA ChainHasOneRoot ==
  ASSUME bcps \subseteq Backup, plan \in Plans, BackupsInTime, NEW B, B \subseteq bcps, NEW b \in Incs, b.src = 0,
         NEW x \in Chain(B, b)
  PROVE  x \in Incs /\ Roots(x) = {b}
<1> DEFINE S == {y \in B \cup {b} : y \in Incs /\ Roots(y) = {b}}
<1>1. \A y \in bcps : /\ y.start \in Nat /\ y.src \in Nat /\ 1 <= y.start
                      /\ (y.src # 0 => y.type = "incremental")
  BY Numbers DEF BackupsInTime
<1>2. \A y, z \in bcps : y.start = z.start => y = z
  BY DEF BackupsInTime
<1>3. Incs \subseteq bcps
  BY DEF Incs
<1>4. \A y \in Incs : y \in Ancestors(Incs, y) /\ Ancestors(Incs, y) \subseteq Incs
  BY AncestorsAreClosed
<1>5. Roots(b) = {b}
  <2>1. \A z \in Incs, y \in {b} : y.src = z.start => z \in {b}
    BY <1>1, <1>3
  <2>2. {b} \in SUBSET (Incs \cup {b}) /\ b \in {b}
    OBVIOUS
  <2>3. Ancestors(Incs, b) \subseteq {b}
    BY <2>1, <2>2 DEF Ancestors
  <2> QED BY <1>4, <2>3 DEF Roots
<1>6. ASSUME NEW y \in Incs, NEW z \in Incs, z.src = y.start PROVE Roots(z) = Roots(y)
  <2>1. Ancestors(Incs, y) \subseteq Ancestors(Incs, z)
    <3>1. y \in Ancestors(Incs, z)
      BY <1>4, <1>6, AncestorsAreClosed
    <3>2. \A v \in Incs, w \in Ancestors(Incs, z) : w.src = v.start => v \in Ancestors(Incs, z)
      BY AncestorsAreClosed
    <3>3. Ancestors(Incs, z) \in SUBSET (Incs \cup {y})
      BY <1>4
    <3> QED BY <3>1, <3>2, <3>3 DEF Ancestors
  <2>2. Ancestors(Incs, z) \subseteq Ancestors(Incs, y) \cup {z}
    <3> DEFINE U == Ancestors(Incs, y) \cup {z}
    <3>1. \A v \in Incs, w \in U : w.src = v.start => v \in U
      <4> SUFFICES ASSUME NEW v \in Incs, NEW w \in U, w.src = v.start PROVE v \in U
        OBVIOUS
      <4>1. CASE w = z
        <5>1. v.start = y.start
          BY <1>6, <4>1
        <5>2. v = y
          BY <1>2, <1>3, <5>1
        <5> QED BY <1>4, <5>2
      <4>2. CASE w \in Ancestors(Incs, y)
        BY <4>2, AncestorsAreClosed
      <4> QED BY <4>1, <4>2
    <3>2. U \in SUBSET (Incs \cup {z}) /\ z \in U
      BY <1>4
    <3> HIDE DEF U
    <3>3. Ancestors(Incs, z) \subseteq U
      BY <3>1, <3>2 DEF Ancestors
    <3> QED BY <3>3 DEF U
  <2>3. z.src # 0
    BY <1>1, <1>3, <1>6
  <2> QED BY <2>1, <2>2, <2>3 DEF Roots
<1>7. b \in S
  BY <1>5
<1>8. \A y \in S, z \in B : y.done /\ z.src = y.start => z \in S
  <2> SUFFICES ASSUME NEW y \in S, NEW z \in B, z.src = y.start PROVE z \in S
    OBVIOUS
  <2>1. y \in Incs /\ Roots(y) = {b} /\ z \in bcps
    OBVIOUS
  <2>2. z \in Incs
    BY <1>1, <1>3, <2>1 DEF Incs
  <2> QED BY <1>6, <2>1, <2>2
<1>9. S \in SUBSET (B \cup {b})
  OBVIOUS
<1>10. x \in S
  <2> HIDE DEF S
  <2> QED BY <1>7, <1>8, <1>9 DEF Chain
<1> QED BY <1>10

\* What is kept is kept with its chain, so that no target takes any of it away.
LEMMA TargetsSpareKept ==
  ASSUME bcps \subseteq Backup, plan \in Plans, BackupsInTime, NEW K0, NEW b \in Targets(WithChains(K0)),
         NEW B, B \subseteq bcps, WithChains(K0) \subseteq B, NEW C
  PROVE  WithChains(K0) \subseteq AfterDelete(B, C, b)
<1> DEFINE K == WithChains(K0)
<1>1. K = K0 \cup {y \in Incs : Roots(y) = {} \/ \E x \in K0 \cap Incs : Roots(x) = Roots(y)}
  BY DEF WithChains, Incs, Roots
<1>2. b \in bcps /\ b \notin K /\ (b.type = "incremental" => b.src = 0)
  BY DEF Targets
<1> HIDE DEF K
<1>3. CASE b.type # "incremental"
  BY <1>2, <1>3 DEF AfterDelete, K
<1>4. CASE b.type = "incremental"
  <2>1. b \in Incs /\ b.src = 0
    BY <1>2, <1>4 DEF Incs
  <2>2. ASSUME NEW x \in Chain(B, b), x \in K PROVE FALSE
    <3>1. x \in Incs /\ Roots(x) = {b}
      BY <2>1, ChainHasOneRoot
    <3>2. b \in Chain(B, b)
      BY DEF Chain
    <3>3. Roots(b) = {b}
      BY <2>1, <3>2, ChainHasOneRoot
    <3>4. \E y \in K0 \cap Incs : Roots(y) = Roots(b)
      BY <1>1, <2>2, <3>1, <3>3
    <3> QED BY <1>1, <1>2, <2>1, <3>4
  <2>3. AfterDelete(B, C, b) \in {B, B \ Chain(B, b)}
    BY <1>4 DEF AfterDelete
  <2> QED BY <2>2, <2>3 DEF K
<1> QED BY <1>3, <1>4

\* What the policy keeps is there, and is kept with the chains by all rules.
LEMMA PolicyIsOfBackups ==
  ASSUME ArchiveInv, NEW purgeFailed \in BOOLEAN PROVE KeptByPolicy(purgeFailed) \subseteq bcps
<1> DEFINE in(w, i, type) == {b \in bcps : /\ b.done /\ b.type = type /\ b.start < now
                                           /\ (now - b.start) \div w = i}
           buckets == UNION {{in(k[1], i, type) : i \in 0..(k[2] - 1), type \in Types \ {"selective"}} :
                              k \in plan.buckets}
<1>1. BestOfBuckets = {Highest(C) : C \in buckets \ {{}}}
  BY DEF BestOfBuckets
<1>2. \A C \in buckets : C \subseteq bcps
  OBVIOUS
<1> HIDE DEF buckets
<1>3. ASSUME NEW C \in buckets \ {{}} PROVE Highest(C) \in bcps
  <2>1. C \subseteq bcps /\ C # {} /\ IsFiniteSet(C)
    BY <1>2, FS_Subset DEF ArchiveInv, BackupsInTime
  <2>2. (\A x \in C : x.lw \in Nat /\ x.start \in Nat) /\ \A x, y \in C : x.start = y.start => x = y
    BY <2>1, Numbers DEF ArchiveInv, TypeOK, BackupsInTime
  <2> QED BY <2>1, <2>2, HighestIsLast
<1> QED BY <1>1, <1>3 DEF KeptByPolicy

IsKept(P, K) == \E K0 \in SUBSET bcps : P \subseteq K0 /\ K = WithChains(K0)

LEMMA MoreIsKept ==
  ASSUME NEW P, NEW K, IsKept(P, K)
  PROVE  K \subseteq bcps /\ P \subseteq K /\ \A L \in SUBSET bcps : IsKept(P, WithChains(K \cup L))
<1>1. PICK K0 \in SUBSET bcps : P \subseteq K0 /\ K = WithChains(K0)
  BY DEF IsKept
<1>2. K \subseteq bcps /\ K0 \subseteq K
  BY <1>1 DEF WithChains
<1>3. ASSUME NEW L \in SUBSET bcps PROVE IsKept(P, WithChains(K \cup L))
  <2>1. K \cup L \in SUBSET bcps /\ P \subseteq K \cup L
    BY <1>1, <1>2
  <2> QED BY <2>1 DEF IsKept
<1> QED BY <1>1, <1>2, <1>3

LEMMA ProtectedIsKept ==
  ASSUME NEW P, NEW K, IsKept(P, K) PROVE IsKept(P, Protected(K))
<1> DEFINE purged == Bases(bcps \ K)
           latest == {b \in purged : b.lw = Highest(purged).lw}
<1>1. latest \in SUBSET bcps
  BY DEF Bases
<1>2. Protected(K) = K \/ Protected(K) = WithChains(K \cup latest)
  BY DEF Protected, WithPITRBase
<1> HIDE DEF latest
<1> QED BY <1>1, <1>2, MoreIsKept

LEMMA RefusedIsKept ==
  ASSUME ArchiveInv, NEW P, NEW K, IsKept(P, K) PROVE IsKept(P, WithRefused(K))
<1> DEFINE refused == {b \in Targets(K) : ~CanDelete(bcps, chunks, b)}
           anchor(b) == IF b.type # "incremental" THEN b
                        ELSE Newest({b} \cup {x \in Chain(bcps, b) : x.done})
           L == {anchor(b) : b \in refused}
<1>1. ASSUME NEW b \in refused PROVE anchor(b) \in bcps
  <2> DEFINE B == {b} \cup {x \in Chain(bcps, b) : x.done}
  <2>1. b \in bcps
    BY DEF Targets
  <2>2. B \subseteq bcps /\ B # {}
    BY <2>1, ChainIsClosed
  <2> HIDE DEF B
  <2>3. IsFiniteSet(B) /\ \A x \in B : x.start \in Nat
    BY <2>2, Numbers, FS_Subset DEF ArchiveInv, TypeOK, BackupsInTime
  <2>4. Newest(B) \in bcps
    BY <2>2, <2>3, NewestIsLast
  <2> QED BY <2>1, <2>4 DEF B
<1>2. L \in SUBSET bcps
  BY <1>1
<1>3. WithRefused(K) = K \/ WithRefused(K) = WithChains(K \cup L)
  BY DEF WithRefused
<1> HIDE DEF L
<1> QED BY <1>2, <1>3, MoreIsKept

LEMMA AllRulesKeep ==
  ASSUME ArchiveInv, NEW purgeFailed \in BOOLEAN
  PROVE  IsKept(KeptByPolicy(purgeFailed), Kept(purgeFailed))
<1> DEFINE P == KeptByPolicy(purgeFailed)
<1>1. IsKept(P, WithChains(P))
  BY PolicyIsOfBackups DEF IsKept
<1> HIDE DEF P
<1>2. \A K : IsKept(P, K) => IsKept(P, Unrefused(K))
  BY ProtectedIsKept, RefusedIsKept DEF Unrefused
<1>3. IsKept(P, Unrefused(WithChains(P)))
  BY <1>1, <1>2
<1> QED BY <1>3 DEF Kept, P

\* The targets, in the order in which they are deleted.
LEMMA OrderedAreTargets ==
  ASSUME ArchiveInv, NEW T, T \subseteq bcps
  PROVE  \A i \in 1..Cardinality(T) : Ordered(T)[i] \in T
<1> DEFINE at(b) == Max({0} \cup {x.lw : x \in {y \in Chain(bcps, b) : y.done}})
           Before(x, y) == at(x) < at(y) \/ (at(x) = at(y) /\ x.start < y.start)
           R == {p \in T \X T : Before(p[1], p[2])}
<1>1. now \in Nat /\ \A x \in bcps : x.start \in Nat /\ x.lw \in Nat /\ x.lw <= now
  BY TypesOfSlicing, Numbers DEF ArchiveInv, TypeOK, BackupsInTime
<1>2. \A x, y \in T : x.start = y.start => x = y
  BY DEF ArchiveInv, BackupsInTime
<1>3. ASSUME NEW b \in T PROVE at(b) \in Nat
  <2> DEFINE S == {0} \cup {x.lw : x \in {y \in Chain(bcps, b) : y.done}}
  <2>1. Chain(bcps, b) \subseteq bcps
    BY ChainIsClosed
  <2>2. S \subseteq Nat /\ S # {} /\ \A n \in S : n <= now
    BY <1>1, <2>1
  <2> HIDE DEF S
  <2>3. IsFiniteSet(S)
    BY <1>1, <2>2, FS_BoundedSetOfNaturals
  <2>4. Max(S) \in Nat
    BY <2>2, <2>3, MaxIsLargest
  <2> QED BY <2>4 DEF S
<1>4. IsFiniteSet(T)
  BY FS_Subset DEF ArchiveInv, BackupsInTime
<1>5. Ordered(T) = [i \in 1..Cardinality(T) |-> CHOOSE x \in T : Cardinality({y \in T : Before(y, x)}) = i - 1]
  BY DEF Ordered
<1> HIDE DEF at
<1>6. \A x, y \in T : <<x, y>> \in R <=> Before(x, y)
  OBVIOUS
<1>7. \A x \in T : ~Before(x, x)
  BY <1>1, <1>3
<1>8. \A x, y \in T : x # y => Before(x, y) \/ Before(y, x)
  BY <1>1, <1>2, <1>3
<1>9. \A x, y, z \in T : Before(x, y) /\ Before(y, z) => Before(x, z)
  BY <1>1, <1>3
<1> HIDE DEF R, Before
<1>10. InOrder(R, T)
  BY <1>6, <1>7, <1>8, <1>9 DEF InOrder
<1>11. \A i \in 1..Cardinality(T) : Lined(R, T)[i] \in T
  BY <1>4, <1>10, LinedUp
<1>12. \A i \in 1..Cardinality(T) : Ordered(T)[i] = Lined(R, T)[i]
  <2> TAKE i \in 1..Cardinality(T)
  <2>1. \A x \in T : {y \in T : <<y, x>> \in R} = {y \in T : Before(y, x)}
    BY <1>6
  <2>2. \A x \in T : (Cardinality({y \in T : <<y, x>> \in R}) = i - 1) <=> (Cardinality({y \in T : Before(y, x)}) = i - 1)
    BY <2>1
  <2>3. (CHOOSE x \in T : Cardinality({y \in T : <<y, x>> \in R}) = i - 1)
           = (CHOOSE x \in T : Cardinality({y \in T : Before(y, x)}) = i - 1)
    BY <2>2
  <2> QED BY <1>5, <2>3 DEF Lined
<1> QED BY <1>11, <1>12

\* What is kept is left after every target.
LEMMA KeptIsLeft ==
  ASSUME ArchiveInv, NEW K0 \in SUBSET bcps, NEW T, T = Targets(WithChains(K0)), Cardinality(T) \in Nat,
         NEW C, NEW f, IsLeft(f, Cardinality(T), bcps, C, Ordered(T))
  PROVE  WithChains(K0) \subseteq f[Cardinality(T)]
<1> DEFINE K == WithChains(K0)
           n == Cardinality(T)
           Bad == {m \in 0..n : ~(K \subseteq f[m] /\ f[m] \subseteq bcps)}
<1>1. SUFFICES ASSUME Bad # {} PROVE FALSE
  OBVIOUS
<1>2. PICK m \in Bad : \A k \in Bad : m <= k
  <2>1. Bad \subseteq Nat
    OBVIOUS
  <2> HIDE DEF Bad
  <2> QED BY <1>1, <2>1, Smallest
<1>3. f[m] = IF m = 0 THEN bcps ELSE AfterDelete(f[m - 1], C, Ordered(T)[m])
  BY DEF IsLeft
<1>4. CASE m = 0
  <2>1. K \subseteq bcps
    BY DEF WithChains
  <2> QED BY <1>3, <1>4, <2>1
<1>5. CASE m # 0
  <2>1. m - 1 \in 0..n /\ ~(m <= m - 1) /\ m \in 1..n
    BY <1>5
  <2>2. K \subseteq f[m - 1] /\ f[m - 1] \subseteq bcps
    BY <1>2, <2>1
  <2>3. Ordered(T)[m] \in T
    <3>1. T \subseteq bcps
      BY DEF Targets
    <3> QED BY <2>1, <3>1, OrderedAreTargets
  <2>4. bcps \subseteq Backup /\ plan \in Plans /\ BackupsInTime
    BY DEF ArchiveInv, TypeOK
  <2>5. K \subseteq f[m]
    BY <1>3, <1>5, <2>2, <2>3, <2>4, TargetsSpareKept
  <2>6. f[m] \subseteq bcps
    BY <1>3, <1>5, <2>2 DEF AfterDelete
  <2> QED BY <2>5, <2>6
<1> QED BY <1>4, <1>5

LEMMA PurgeLeavesKept ==
  ASSUME ArchiveInv, plan' = plan, NEW purgeFailed \in BOOLEAN, Purge(purgeFailed)
  PROVE  /\ KeptByPolicy(purgeFailed) \subseteq bcps'
         /\ Cardinality({b \in Bases(bcps') : Complete(bcps', b)}) >= plan.minKeep
<1> DEFINE K == Kept(purgeFailed)
           Left == {b \in Bases(bcps') : Complete(bcps', b)}
<1>1. PICK K0 \in SUBSET bcps : KeptByPolicy(purgeFailed) \subseteq K0 /\ K = WithChains(K0)
  BY AllRulesKeep DEF IsKept
<1>2. K \subseteq bcps'
  <2>1. PICK f : /\ IsLeft(f, Cardinality(Targets(K)), bcps, chunks, Ordered(Targets(K)))
                 /\ bcps' = f[Cardinality(Targets(K))]
                 /\ Cardinality(Targets(K)) \in Nat
    BY PurgeLeaves
  <2> HIDE DEF K
  <2> QED BY <1>1, <2>1, KeptIsLeft
<1>3. K0 \subseteq K
  BY <1>1 DEF WithChains
<1>4. ArchiveInv'
  BY PurgeKeepsInv
<1>5. IsFiniteSet(Left) /\ Cardinality(Left) \in Nat
  <2>1. Left \in SUBSET bcps' /\ IsFiniteSet(bcps')
    BY <1>4 DEF Bases, ArchiveInv, BackupsInTime
  <2> HIDE DEF Left
  <2> QED BY <2>1, FS_Subset, FS_CardinalityType
<1>6. RestorePoints(K) \subseteq Left
  <2> SUFFICES ASSUME NEW b \in RestorePoints(K) PROVE b \in Left
    OBVIOUS
  <2>1. b \in Bases(bcps')
    BY <1>2 DEF RestorePoints, Bases
  <2>2. bcps' \subseteq bcps /\ Whole(bcps')
    BY PurgeKeepsWhole
  <2>3. Complete(bcps', b)
    BY <2>1, <2>2, WholeIsComplete DEF ArchiveInv, TypeOK
  <2> QED BY <2>1, <2>3
<1>7. Cardinality(RestorePoints(K)) <= Cardinality(Left)
  <2> HIDE DEF Left
  <2> QED BY <1>5, <1>6, FS_Subset
<1>8. plan.minKeep \in Nat /\ (plan.minKeep > 0 => Cardinality(RestorePoints(K)) >= plan.minKeep)
  BY Assumptions DEF ArchiveInv, Purge
<1>9. Cardinality(RestorePoints(K)) \in Nat
  <2> HIDE DEF Left
  <2>1. IsFiniteSet(RestorePoints(K))
    BY <1>5, <1>6, FS_Subset
  <2> QED BY <2>1, FS_CardinalityType
<1>10. Cardinality(Left) >= plan.minKeep
  <2> HIDE DEF Left, K
  <2> QED BY <1>5, <1>7, <1>8, <1>9
<1> QED BY <1>1, <1>2, <1>3, <1>10

-----------------------------------------------------------------------------
(* The chunks of a replica set follow each other.                            *)

\* What starts later does not end earlier.
Row(C) == \A c, d \in C : (c.s = d.s => c = d) /\ (c.s < d.s => c.e <= d.e)

\* A slicer goes on after all of them.
InRow == \A r \in RS : Row(chunks[r]) /\ (lastTS[r] # 0 => \A c \in chunks[r] : c.s < lastTS[r])

\* A chunk that starts after all others and ends no earlier goes on the row.
LEMMA RowGrows ==
  ASSUME NEW C, Row(C), NEW x, x.s \in Nat, x.e \in Nat,
         \A c \in C : c.s \in Nat /\ c.e \in Nat /\ c.s < x.s /\ c.e <= x.e
  PROVE  Row(C \cup {x})
BY DEF Row

\* Chunks are removed, and slicers stop.
LEMMA RemovalKeepsRow ==
  ASSUME ArchiveInv, InRow, plan' = plan, \A r \in RS : chunks'[r] \subseteq chunks[r] /\ lastTS'[r] \in {0, lastTS[r]}
  PROVE  InRow'
<1>1. RS' = RS
  BY DEF RS
<1>2. \A r \in RS : Row(chunks'[r])
  BY DEF InRow, Row
<1>3. \A r \in RS : lastTS'[r] # 0 => \A c \in chunks'[r] : c.s < lastTS'[r]
  BY DEF InRow
<1> QED BY <1>1, <1>2, <1>3 DEF InRow

\* A slice is such a chunk.
LEMMA SliceKeepsRow ==
  ASSUME ArchiveInv, InRow, NEW r \in RS
  PROVE  Row(Slice(r, now)) /\ (lastTS[r] \in 1..(now - 1) => \A c \in Slice(r, now) : c.s < now)
<1> DEFINE c0 == [s |-> lastTS[r], e |-> now]
<1>1. /\ now \in Nat /\ lastTS[r] \in 0..now /\ Row(chunks[r]) /\ (lastTS[r] # 0 => \A c \in chunks[r] : c.s < lastTS[r])
      /\ \A c \in chunks[r] : c.s \in Nat /\ c.e \in Nat /\ c.e <= now /\ c.s < c.e
  BY TypesOfSlicing DEF InRow
<1>2. CASE Slice(r, now) = chunks[r]
  BY <1>1, <1>2
<1>3. CASE lastTS[r] \in 1..(now - 1) /\ Slice(r, now) = chunks[r] \cup {c0}
  <2>1. c0.s = lastTS[r] /\ c0.e = now /\ lastTS[r] \in Nat /\ lastTS[r] # 0 /\ lastTS[r] < now
    BY <1>1, <1>3
  <2> HIDE DEF c0
  <2>2. Row(chunks[r] \cup {c0})
    BY <1>1, <2>1, RowGrows
  <2>3. \A c \in chunks[r] \cup {c0} : c.s < now
    BY <1>1, <2>1
  <2> QED BY <1>3, <2>2, <2>3
<1> QED BY <1>2, <1>3 DEF Slice

LEMMA AllSliceKeepRow ==
  ASSUME ArchiveInv, InRow, plan' = plan, StopAll, chunks' = [r \in RS |-> Slice(r, now)]
  PROVE  InRow'
<1>1. RS' = RS
  BY DEF RS
<1>2. \A r \in RS : Row(chunks'[r]) /\ lastTS'[r] = 0
  BY SliceKeepsRow DEF StopAll
<1> QED BY <1>1, <1>2 DEF InRow

LEMMA StreamKeepsRow ==
  ASSUME ArchiveInv, InRow, plan' = plan, NEW r \in RS, Stream(r) PROVE InRow'
<1>1. /\ RS' = RS /\ chunks' = [chunks EXCEPT ![r] = Slice(r, now)] /\ lastTS' = [lastTS EXCEPT ![r] = now]
      /\ lastTS[r] \in 1..(now - 1)
  BY DEF RS, Stream
<1>2. chunks \in [RS -> SUBSET Chunk] /\ lastTS \in [RS -> 0..now]
  BY TypesOfSlicing
<1>3. \A q \in RS \ {r} : chunks'[q] = chunks[q] /\ lastTS'[q] = lastTS[q]
  BY <1>1, <1>2
<1>4. chunks'[r] = Slice(r, now) /\ lastTS'[r] = now
  BY <1>1, <1>2
<1>5. Row(chunks'[r]) /\ \A c \in chunks'[r] : c.s < lastTS'[r]
  BY <1>1, <1>4, SliceKeepsRow
<1> QED BY <1>1, <1>3, <1>5 DEF InRow

\* A slicer may start after what is stored.
LEMMA StartKeepsRow ==
  ASSUME ArchiveInv, InRow, plan' = plan, NEW r \in RS, NEW at, NEW C, Start(r, at, C), Row(C), \A c \in C : c.s < at
  PROVE  InRow'
<1>1. RS' = RS /\ chunks \in [RS -> SUBSET Chunk] /\ lastTS \in [RS -> 0..now]
  BY TypesOfSlicing DEF RS
<1>2. PICK from \in {0, at} : chunks' = [chunks EXCEPT ![r] = C] /\ lastTS' = [lastTS EXCEPT ![r] = from]
  BY DEF Start
<1>3. \A q \in RS \ {r} : chunks'[q] = chunks[q] /\ lastTS'[q] = lastTS[q]
  BY <1>1, <1>2
<1>4. chunks'[r] = C /\ lastTS'[r] \in {0, at}
  BY <1>1, <1>2
<1> QED BY <1>1, <1>3, <1>4 DEF InRow

\* The last chunk is the last to end, too.
LEMMA LastEndsLast ==
  ASSUME ArchiveInv, InRow, NEW r \in RS, NEW c \in LastChunks(chunks[r])
  PROVE  /\ c \in chunks[r] /\ c.s \in Nat /\ c.e \in Nat /\ c.s < c.e
         /\ \A d \in chunks[r] : d.s \in Nat /\ d.e \in Nat /\ d.s <= c.s /\ d.e <= c.e
<1>1. c \in chunks[r] /\ \A d \in chunks[r] : d.s <= c.s
  BY DEF LastChunks
<1>2. \A d \in chunks[r] : d.s \in Nat /\ d.e \in Nat /\ d.s < d.e
  BY TypesOfSlicing
<1>3. \A d \in chunks[r] : d.s = c.s \/ d.s < c.s
  BY <1>1, <1>2
<1>4. \A d \in chunks[r] : d = c \/ d.e <= c.e
  BY <1>1, <1>3 DEF InRow, Row
<1>5. \A d \in chunks[r] : d.e <= c.e
  BY <1>1, <1>2, <1>4
<1> QED BY <1>1, <1>2, <1>5

LEMMA CatchupKeepsRow ==
  ASSUME ArchiveInv, InRow, plan' = plan, NEW r \in RS, Catchup(r) PROVE InRow'
<1> DEFINE b == Newest(Bases(bcps))
<1>1. b \in bcps /\ b.done /\ b.start >= restored
  <2>1. Bases(bcps) # {} /\ Bases(bcps) \subseteq bcps /\ \A x \in Bases(bcps) : x.done
    BY DEF Catchup, Bases, IsValidBase
  <2>2. IsFiniteSet(Bases(bcps)) /\ \A x \in Bases(bcps) : x.start \in Nat
    BY <2>1, Numbers, FS_Subset DEF ArchiveInv, TypeOK, BackupsInTime
  <2>3. b \in Bases(bcps)
    BY <2>1, <2>2, NewestIsLast
  <2> QED BY <2>1, <2>3 DEF Catchup
<1> DEFINE g(c) == [s |-> c.e, e |-> b.start]
           gap(c) == IF c.e < b.start /\ IsSufficient(c.e) THEN {g(c)} ELSE {}
           own == [s |-> b.start, e |-> b.lw]
<1>2. \/ chunks[r] = {} /\ Start(r, b.lw, {})
      \/ \E c \in LastChunks(chunks[r]) :
           \/ Outdated(c) /\ Start(r, b.lw, chunks[r])
           \/ Start(r, c.e, chunks[r])
           \/ c.e < b.lw /\ b.type = "logical" /\ Start(r, b.lw, chunks[r] \cup gap(c) \cup {own})
           \/ c.e < b.lw /\ b.type = "logical" /\ Start(r, b.start, chunks[r] \cup gap(c))
           \/ c.e < b.lw /\ Start(r, b.lw, chunks[r] \cup gap(c))
  <2>1. \A c \in LastChunks(chunks[r]) : ~(c.e >= b.lw) => c.e < b.lw
    <3>1. b.lw \in Nat
      BY <1>1, Numbers DEF ArchiveInv, TypeOK
    <3>2. \A c \in LastChunks(chunks[r]) : c.e \in Nat
      BY LastEndsLast
    <3> HIDE DEF b
    <3> QED BY <3>1, <3>2
  <2> QED BY <2>1 DEF Catchup
<1>3. /\ b.start \in Nat /\ b.lw \in Nat /\ restored \in Nat /\ restored <= b.start
      /\ IF b.type = "logical" THEN b.lw = b.start + 1 ELSE b.lw = b.start \/ b.lw = b.start + 1
  <2>1. b \in bcps /\ b.done /\ b.start >= restored /\ restored \in Nat /\ b.start \in Nat /\ b.lw \in Nat /\ IsLastWrite(b)
    BY <1>1, Numbers, TypesOfSlicing DEF ArchiveInv, TypeOK, BackupsInTime
  <2> HIDE DEF b
  <2> QED BY <2>1 DEF IsLastWrite
<1> HIDE DEF b
<1>4. CASE chunks[r] = {} /\ Start(r, b.lw, {})
  <2>1. Row({})
    BY DEF Row
  <2> QED BY <1>4, <2>1, StartKeepsRow
<1>5. ASSUME NEW c \in LastChunks(chunks[r]),
             \/ Outdated(c) /\ Start(r, b.lw, chunks[r])
             \/ Start(r, c.e, chunks[r])
             \/ c.e < b.lw /\ b.type = "logical" /\ Start(r, b.lw, chunks[r] \cup gap(c) \cup {own})
             \/ c.e < b.lw /\ b.type = "logical" /\ Start(r, b.start, chunks[r] \cup gap(c))
             \/ c.e < b.lw /\ Start(r, b.lw, chunks[r] \cup gap(c))
      PROVE  InRow'
  <2>1. /\ c \in chunks[r] /\ c.s \in Nat /\ c.e \in Nat /\ c.s < c.e
        /\ \A d \in chunks[r] : d.s \in Nat /\ d.e \in Nat /\ d.s <= c.s /\ d.e <= c.e
    BY LastEndsLast
  <2>2. Row(chunks[r])
    BY DEF InRow
  <2> DEFINE G == chunks[r] \cup gap(c)
  <2>3. c.e < b.lw => c.e <= b.start
    BY <1>3, <2>1
  <2>4. c.e < b.lw => /\ Row(G)
                      /\ \A d \in G : d.s \in Nat /\ d.e \in Nat /\ d.e <= b.start /\ d.s < b.start
    <3> SUFFICES ASSUME c.e < b.lw
                 PROVE  Row(G) /\ \A d \in G : d.s \in Nat /\ d.e \in Nat /\ d.e <= b.start /\ d.s < b.start
      OBVIOUS
    <3>1. CASE c.e < b.start /\ gap(c) = {g(c)}
      <4>1. g(c).s = c.e /\ g(c).e = b.start
        OBVIOUS
      <4> HIDE DEF g, gap
      <4>2. \A d \in chunks[r] : d.s \in Nat /\ d.e \in Nat /\ d.s < g(c).s /\ d.e <= g(c).e
        BY <1>3, <2>1, <3>1, <4>1
      <4>3. Row(chunks[r] \cup {g(c)})
        BY <1>3, <2>1, <2>2, <4>1, <4>2, RowGrows
      <4> QED BY <1>3, <2>1, <3>1, <4>1, <4>2, <4>3
    <3>2. CASE gap(c) = {}
      <4>1. \A d \in chunks[r] : d.e <= b.start /\ d.s < b.start
        BY <1>3, <2>1, <2>3
      <4>2. G = chunks[r]
        BY <3>2
      <4> QED BY <2>1, <2>2, <4>1, <4>2
    <3> QED BY <3>1, <3>2
  <2> HIDE DEF gap, g
  <2>5. CASE Outdated(c) /\ Start(r, b.lw, chunks[r])
    <3>1. \A d \in chunks[r] : d.s < b.lw
      BY <1>3, <2>1, <2>5 DEF Outdated
    <3> QED BY <2>2, <2>5, <3>1, StartKeepsRow
  <2>6. CASE Start(r, c.e, chunks[r])
    <3>1. \A d \in chunks[r] : d.s < c.e
      BY <2>1
    <3> QED BY <2>2, <2>6, <3>1, StartKeepsRow
  <2>7. CASE c.e < b.lw /\ b.type = "logical" /\ Start(r, b.lw, G \cup {own})
    <3>1. own.s = b.start /\ own.e = b.lw /\ b.start < b.lw
      BY <1>3, <2>7
    <3> HIDE DEF own, G
    <3>2. Row(G \cup {own})
      <4>1. \A d \in G : d.s \in Nat /\ d.e \in Nat /\ d.s < own.s /\ d.e <= own.e
        BY <1>3, <2>4, <2>7, <3>1
      <4> QED BY <1>3, <2>4, <2>7, <3>1, <4>1, RowGrows
    <3>3. \A d \in G \cup {own} : d.s < b.lw
      BY <1>3, <2>4, <2>7, <3>1
    <3> QED BY <2>7, <3>2, <3>3, StartKeepsRow
  <2>8. CASE c.e < b.lw /\ (Start(r, b.start, G) \/ Start(r, b.lw, G))
    <3>1. \A d \in G : d.s < b.start /\ d.s < b.lw
      BY <1>3, <2>4, <2>8
    <3> HIDE DEF G
    <3> QED BY <2>4, <2>8, <3>1, StartKeepsRow
  <2> QED BY <1>5, <2>5, <2>6, <2>7, <2>8
<1> HIDE DEF gap, own
<1> QED BY <1>2, <1>4, <1>5

LEMMA OplogOnlyCatchupKeepsRow ==
  ASSUME ArchiveInv, InRow, plan' = plan, NEW r \in RS, OplogOnlyCatchup(r) PROVE InRow'
<1>1. CASE chunks[r] = {} /\ Start(r, now, {})
  <2>1. Row({})
    BY DEF Row
  <2> QED BY <1>1, <2>1, StartKeepsRow
<1>2. ASSUME NEW c \in LastChunks(chunks[r]), Start(r, c.e, chunks[r]) PROVE InRow'
  <2>1. Row(chunks[r])
    BY DEF InRow
  <2>2. \A d \in chunks[r] : d.s < c.e
    BY LastEndsLast
  <2> QED BY <1>2, <2>1, <2>2, StartKeepsRow
<1> QED BY <1>1, <1>2 DEF OplogOnlyCatchup

\* Every step keeps the rows.
LEMMA RowStep == ArchiveInv /\ InRow /\ [LifecycleNext /\ UNCHANGED plan]_vars => InRow'
<1> SUFFICES ASSUME ArchiveInv, InRow, [LifecycleNext /\ UNCHANGED plan]_vars PROVE InRow'
  OBVIOUS
<1>1. CASE UNCHANGED <<plan, chunks, lastTS>>
  BY <1>1 DEF InRow, RS
<1>2. SUFFICES ASSUME LifecycleNext, plan' = plan PROVE InRow'
  BY <1>1 DEF vars
<1>3. ASSUME NEW r \in RS, Catchup(r) PROVE InRow'
  BY <1>2, <1>3, CatchupKeepsRow
<1>4. ASSUME NEW r \in RS, OplogOnlyCatchup(r) PROVE InRow'
  BY <1>2, <1>4, OplogOnlyCatchupKeepsRow
<1>5. ASSUME NEW r \in RS, Stream(r) PROVE InRow'
  BY <1>2, <1>5, StreamKeepsRow
<1>6. ASSUME NEW r \in RS, SliceError(r) PROVE InRow'
  <2>1. StopAll /\ \E last : chunks' = [q \in RS |-> chunks[q] \ {last[q]}]
    BY <1>6 DEF SliceError
  <2>2. \A q \in RS : chunks'[q] \subseteq chunks[q] /\ lastTS'[q] \in {0, lastTS[q]}
    BY <2>1 DEF StopAll
  <2> QED BY <1>2, <2>2, RemovalKeepsRow
<1>7. ASSUME NEW mode \in plan.modes, SetPitr(mode) PROVE InRow'
  BY <1>2, <1>7, AllSliceKeepRow DEF SetPitr
<1>8. CASE Tick \/ Truncate
  BY <1>1, <1>2, <1>8 DEF Tick, Truncate
<1>9. CASE Restore
  BY <1>2, <1>9, AllSliceKeepRow DEF Restore
<1>10. ASSUME NEW type \in Types, NEW done \in BOOLEAN, LogicalBackup(type, done) PROVE InRow'
  BY <1>2, <1>10, AllSliceKeepRow DEF LogicalBackup
<1>11. ASSUME NEW type \in Types, NEW done \in BOOLEAN, NEW base \in BOOLEAN, PhysicalBackup(type, done, base)
       PROVE  InRow'
  BY <1>1, <1>2, <1>11 DEF PhysicalBackup
<1>12. ASSUME NEW b \in bcps, DeleteBackup(b) PROVE InRow'
  BY <1>1, <1>2, <1>12 DEF DeleteBackup
<1>13. ASSUME NEW ts \in plan.deleteAt, Cleanup(ts) \/ DeletePITR(ts) PROVE InRow'
  <2>1. lastTS' = lastTS /\ chunks' = [r \in RS |-> chunks[r] \ CleanupInfo(ts).chunks[r]]
    BY <1>13 DEF Cleanup, DeletePITR
  <2> QED BY <1>2, <2>1, RemovalKeepsRow
<1>14. ASSUME NEW ts \in plan.deleteAt, NEW type \in Types, DeleteBackupBefore(ts, {type}) PROVE InRow'
  BY <1>1, <1>2, <1>14 DEF DeleteBackupBefore
<1>15. ASSUME NEW purgeFailed \in BOOLEAN, Purge(purgeFailed) PROVE InRow'
  BY <1>1, <1>2, <1>15 DEF Purge
<1> QED
  BY <1>2, <1>3, <1>4, <1>5, <1>6, <1>7, <1>8, <1>9, <1>10, <1>11, <1>12, <1>13, <1>14, <1>15 DEF LifecycleNext, Next

-----------------------------------------------------------------------------
(* Gaps, merged.                                                             *)

\* A range has nothing of a gap.
Avoids(g, a, b) == g.e <= a \/ b <= g.s

\* Gaps one after the other, each within the range or on its border.
GapList(gs, start, end) ==
  /\ gs \in Seq(Spans)
  /\ \A j \in 1..Len(gs) :
       /\ gs[j].s < gs[j].e /\ start < gs[j].e /\ gs[j].s < end
       /\ \A k \in 1..Len(gs) : j < k => gs[j].e < gs[k].s

Merge(gs, g) ==
  IF gs = <<>> \/ g.s > gs[Len(gs)].e THEN Append(gs, g)
  ELSE IF g.e > gs[Len(gs)].e THEN [gs EXCEPT ![Len(gs)].e = g.e] ELSE gs

\* hs leaves what gs and g leave, and its last gap starts no later than g.
HasMerged(hs, gs, g, start, end) ==
  /\ GapList(hs, start, end) /\ hs # <<>> /\ hs[Len(hs)].s <= g.s
  /\ \A a, b \in Nat : a < b =>
       ((\A j \in 1..Len(hs) : Avoids(hs[j], a, b)) <=> Avoids(g, a, b) /\ \A j \in 1..Len(gs) : Avoids(gs[j], a, b))

\* One more gap.
LEMMA GapIsMerged ==
  ASSUME NEW start \in Nat, NEW end \in Nat, NEW gs, GapList(gs, start, end),
         NEW g \in Spans, g.s < g.e, start < g.e, g.s < end, gs # <<>> => gs[Len(gs)].s <= g.s
  PROVE  HasMerged(Merge(gs, g), gs, g, start, end)
<1> DEFINE n == Len(gs)
<1>1. /\ n \in Nat /\ gs \in [1..n -> Spans] /\ (gs = <<>> <=> n = 0)
      /\ g.s \in Nat /\ g.e \in Nat /\ \A j \in 1..n : gs[j] \in Spans /\ gs[j].s \in Nat /\ gs[j].e \in Nat
  <2>1. gs \in Seq(Spans) /\ n \in Nat /\ gs \in [1..n -> Spans] /\ (gs = <<>> <=> n = 0)
    BY DEF GapList
  <2>2. \A x \in Spans : x.s \in Nat /\ x.e \in Nat
    BY DEF Spans
  <2> HIDE DEF n
  <2> QED BY <2>1, <2>2
<1>2. \A j \in 1..n : gs[j].s < gs[j].e /\ start < gs[j].e /\ gs[j].s < end /\ \A k \in 1..n : j < k => gs[j].e < gs[k].s
  BY DEF GapList
<1>3. CASE gs = <<>> \/ g.s > gs[n].e
  <2> DEFINE h == Append(gs, g)
  <2>1. Merge(gs, g) = h
    BY <1>3 DEF Merge
  <2>2. h \in Seq(Spans) /\ Len(h) = n + 1 /\ h[n + 1] = g /\ h # <<>> /\ \A j \in 1..n : h[j] = gs[j]
    <3>1. gs \in Seq(Spans) /\ Len(gs) = n
      BY DEF GapList
    <3> HIDE DEF n
    <3>2. h \in Seq(Spans) /\ Len(h) = n + 1 /\ h[n + 1] = g /\ \A j \in 1..n : h[j] = gs[j]
      BY <1>1, <3>1
    <3>3. h # <<>>
      <4> HIDE DEF h
      <4>1. Len(h) # Len(<<>>)
        BY <1>1, <3>2
      <4> QED BY <4>1
    <3> QED BY <3>2, <3>3
  <2>3. \A j \in 1..(n + 1) : j = n + 1 \/ j \in 1..n
    BY <1>1
  <2>4. \A j \in 1..n : gs[j].e < g.s
    <3> TAKE j \in 1..n
    <3>1. n \in 1..n /\ gs # <<>> /\ g.s > gs[n].e
      BY <1>1, <1>3
    <3>2. j = n \/ gs[j].e < gs[n].s
      BY <1>1, <1>2, <3>1
    <3> QED BY <1>1, <1>2, <3>1, <3>2
  <2>5. \A j, k \in 1..(n + 1) : j < k => j \in 1..n /\ (k = n + 1 \/ k \in 1..n)
    BY <1>1
  <2> HIDE DEF h, n
  <2>6. GapList(h, start, end)
    <3>1. \A j \in 1..(n + 1) : h[j].s < h[j].e /\ start < h[j].e /\ h[j].s < end
      BY <1>2, <2>2, <2>3
    <3>2. \A j, k \in 1..(n + 1) : j < k => h[j].e < h[k].s
      BY <1>2, <2>2, <2>4, <2>5
    <3> QED BY <2>2, <3>1, <3>2 DEF GapList
  <2>7. \A a, b : (\A j \in 1..(n + 1) : Avoids(h[j], a, b)) <=> Avoids(g, a, b) /\ \A j \in 1..n : Avoids(gs[j], a, b)
    <3>1. n + 1 \in 1..(n + 1) /\ \A j \in 1..n : j \in 1..(n + 1)
      BY <1>1
    <3> QED BY <2>2, <2>3, <3>1
  <2>8. h[Len(h)].s <= g.s
    BY <1>1, <2>2
  <2> QED BY <2>1, <2>2, <2>6, <2>7, <2>8 DEF HasMerged, n
<1>4. CASE ~(gs = <<>> \/ g.s > gs[n].e)
  <2>1. n \in 1..n /\ g.s <= gs[n].e /\ gs[n].s <= g.s
    BY <1>1, <1>4
  <2> DEFINE l == gs[n]
  <2>2. /\ l \in Spans /\ l.s \in Nat /\ l.e \in Nat /\ l.s < l.e /\ start < l.e /\ l.s < end /\ g.s <= l.e /\ l.s <= g.s
    BY <1>1, <1>2, <2>1
  <2> DEFINE h == Merge(gs, g)
             e == IF g.e > l.e THEN g.e ELSE l.e
  <2>3. h \in [1..n -> Spans] /\ h[n].s = l.s /\ h[n].e = e /\ e \in Nat /\ \A j \in 1..n : j # n => h[j] = gs[j]
    <3>1. CASE g.e > l.e
      <4> DEFINE m == [l EXCEPT !.e = g.e]
      <4>1. h = [gs EXCEPT ![n] = m]
        BY <1>4, <3>1 DEF Merge
      <4>2. m \in Spans /\ m.s = l.s /\ m.e = g.e
        BY <1>1, <2>2 DEF Spans
      <4> HIDE DEF l, n, m, h
      <4>3. h \in [1..n -> Spans] /\ h[n] = m /\ \A j \in 1..n : j # n => h[j] = gs[j]
        BY <1>1, <2>1, <4>1, <4>2
      <4> QED BY <1>1, <3>1, <4>2, <4>3
    <3>2. CASE ~(g.e > l.e)
      <4>1. h = gs
        BY <1>4, <3>2 DEF Merge
      <4> HIDE DEF h
      <4> QED BY <1>1, <2>2, <3>2, <4>1
    <3> QED BY <3>1, <3>2
  <2> HIDE DEF h
  <2>4. h \in Seq(Spans) /\ Len(h) = n /\ h # <<>>
    <3> HIDE DEF n
    <3>1. h \in Seq(Spans) /\ Len(h) = n
      BY <1>1, <2>3
    <3> QED BY <2>1, <3>1
  <2>5. \A j \in 1..n : h[j].s = gs[j].s /\ (j # n => h[j].e = gs[j].e) /\ gs[j].e <= h[j].e
    <3> TAKE j \in 1..n
    <3> QED BY <1>1, <2>2, <2>3
  <2>6. \A j, k \in 1..n : j < k => j # n
    BY <1>1
  <2> HIDE DEF n, l, e
  <2>7. GapList(h, start, end)
    <3>1. \A j \in 1..n : h[j].s < h[j].e /\ start < h[j].e /\ h[j].s < end
      <4> TAKE j \in 1..n
      <4>1. CASE j = n
        <5>1. l.e <= e
          BY <1>1, <2>2 DEF e
        <5>2. h[j].s = l.s /\ h[j].e = e
          BY <2>3, <4>1
        <5> QED BY <2>2, <2>3, <5>1, <5>2
      <4>2. CASE j # n
        BY <1>2, <2>5, <4>2
      <4> QED BY <4>1, <4>2
    <3>2. \A j, k \in 1..n : j < k => h[j].e < h[k].s
      BY <1>2, <2>5, <2>6
    <3> QED BY <2>4, <3>1, <3>2 DEF GapList
  <2>8. ASSUME NEW a \in Nat, NEW b \in Nat, a < b
        PROVE  Avoids(h[n], a, b) <=> Avoids(g, a, b) /\ Avoids(l, a, b)
    BY <1>1, <2>2, <2>3, <2>8 DEF Avoids, e
  <2>9. ASSUME NEW a \in Nat, NEW b \in Nat, a < b
        PROVE  (\A j \in 1..n : Avoids(h[j], a, b)) <=> Avoids(g, a, b) /\ \A j \in 1..n : Avoids(gs[j], a, b)
    <3>1. \A j \in 1..n : j # n => (Avoids(h[j], a, b) <=> Avoids(gs[j], a, b))
      BY <2>3
    <3> QED BY <2>1, <2>8, <2>9, <3>1 DEF l
  <2>10. h[Len(h)].s <= g.s
    BY <2>2, <2>3, <2>4
  <2> QED BY <2>4, <2>7, <2>9, <2>10 DEF HasMerged, n, h
<1> QED BY <1>3, <1>4

\* One after the other is merged.
IsMerged(f, q) == f = [i \in 0..Len(q) |-> IF i = 0 THEN <<>> ELSE Merge(f[i - 1], q[i])]

LEMMA MergeIsList ==
  ASSUME NEW gs \in Seq(Spans), NEW g \in Spans PROVE Merge(gs, g) \in Seq(Spans)
<1> DEFINE n == Len(gs)
<1>1. n \in Nat /\ gs \in [1..n -> Spans] /\ (gs # <<>> => n \in 1..n)
  OBVIOUS
<1>2. CASE gs = <<>> \/ g.s > gs[n].e
  BY <1>2 DEF Merge
<1>3. CASE ~(gs = <<>> \/ g.s > gs[n].e) /\ g.e > gs[n].e
  <2> DEFINE l == gs[n]
             m == [l EXCEPT !.e = g.e]
             h == Merge(gs, g)
  <2>1. h = [gs EXCEPT ![n] = m]
    BY <1>3 DEF Merge
  <2>2. l \in Spans
    BY <1>1, <1>3
  <2>3. m \in Spans
    BY <2>2 DEF Spans
  <2> HIDE DEF n, m, h
  <2>4. h \in [1..n -> Spans]
    BY <1>1, <2>1, <2>3
  <2>5. h \in Seq(Spans)
    BY <1>1, <2>4
  <2> QED BY <2>5 DEF h
<1>4. CASE ~(gs = <<>> \/ g.s > gs[n].e) /\ ~(g.e > gs[n].e)
  BY <1>4 DEF Merge
<1> QED BY <1>2, <1>3, <1>4

LEMMA SomeMerged ==
  ASSUME NEW q, Len(q) \in Nat, \A i \in 1..Len(q) : q[i] \in Spans
  PROVE  \E f : IsMerged(f, q)
<1> DEFINE n == Len(q)
           X == Seq(Spans)
           F == [i \in 1..n |-> [x \in X |-> Merge(x, q[i])]]
<1>1. F \in [1..n -> [X -> X]] /\ \A i \in 1..n, x \in X : F[i][x] = Merge(x, q[i])
  <2>1. \A i \in 1..n, x \in X : Merge(x, q[i]) \in X
    BY MergeIsList
  <2> HIDE DEF X, n
  <2> QED BY <2>1
<1>2. <<>> \in X
  OBVIOUS
<1> HIDE DEF n, X, F
<1>3. n \in Nat
  BY DEF n
<1>4. PICK f : IsRecursion(f, n, X, <<>>, F)
  <2>1. F \in [1..n -> [X -> X]]
    BY <1>1
  <2> QED BY <1>2, <1>3, <2>1, SomeRecursion
<1>5. \A i \in 0..n : f[i] = IF i = 0 THEN <<>> ELSE Merge(f[i - 1], q[i])
  <2> TAKE i \in 0..n
  <2>1. i # 0 => i \in 1..n /\ i - 1 \in 0..n
    BY <1>3
  <2> QED BY <1>1, <1>4, <2>1 DEF IsRecursion
<1>6. f = [i \in 0..n |-> f[i]]
  BY <1>4 DEF IsRecursion
<1>7. f = [i \in 0..n |-> IF i = 0 THEN <<>> ELSE Merge(f[i - 1], q[i])]
  BY <1>5, <1>6
<1> QED BY <1>7 DEF IsMerged, n

\* The merged gaps leave what the gaps leave.
LEMMA MergedGapsAvoid ==
  ASSUME NEW G, IsFiniteSet(G), G \subseteq Spans, \A g \in G : g.s < g.e, NEW start \in Nat, NEW end \in Nat
  PROVE  LET gs == MergedGaps(G, start, end) IN
         /\ GapList(gs, start, end)
         /\ \A a, b \in Nat : a < b =>
              ((\A j \in 1..Len(gs) : Avoids(gs[j], a, b)) <=> \A g \in G : g.e > start /\ g.s < end => Avoids(g, a, b))
<1> DEFINE S == {g \in G : g.e > start /\ g.s < end}
           n == Cardinality(S)
           q == Sorted(S)
           gs == MergedGaps(G, start, end)
<1>1. IsFiniteSet(S) /\ S \subseteq Spans
  BY FS_Subset
<1>2. \A g \in S : g \in Spans /\ g.s \in Nat /\ g.e \in Nat /\ g.s < g.e /\ start < g.e /\ g.s < end
  BY DEF Spans
<1>3. /\ n \in Nat /\ q \in [1..n -> S] /\ Len(q) = n
      /\ \A x \in S : \E i \in 1..n : q[i] = x
      /\ \A i, j \in 1..n : i < j <=> ByStart(q[i], q[j])
  <2> HIDE DEF S
  <2> QED BY <1>1, SortedByStart
<1>4. PICK f : IsMerged(f, q) /\ gs = f[n]
  <2>1. \E f : IsMerged(f, q)
    <3>1. \A i \in 1..n : q[i] \in Spans
      BY <1>1, <1>3
    <3> HIDE DEF q, n
    <3> QED BY <1>3, <3>1, SomeMerged
  <2>2. gs = (CHOOSE f : IsMerged(f, q))[Len(q)]
    BY DEF MergedGaps, IsMerged, Merge
  <2> HIDE DEF q, n, gs
  <2> QED BY <1>3, <2>1, <2>2
<1> HIDE DEF S, n, q, gs
<1>5. \A i \in 0..n : f[i] = IF i = 0 THEN <<>> ELSE Merge(f[i - 1], q[i])
  BY <1>3, <1>4 DEF IsMerged
<1> DEFINE Holds(k) ==
             /\ GapList(f[k], start, end)
             /\ k # 0 => f[k] # <<>> /\ f[k][Len(f[k])].s <= q[k].s
             /\ \A a, b \in Nat : a < b =>
                  ((\A j \in 1..Len(f[k]) : Avoids(f[k][j], a, b)) <=> \A i \in 1..k : Avoids(q[i], a, b))
           T == {k \in 0..n : ~Holds(k)}
<1>6. T = {}
  <2> SUFFICES ASSUME T # {} PROVE FALSE
    OBVIOUS
  <2>1. PICK k \in T : \A m \in T : k <= m
    <3> HIDE DEF T
    <3>1. T \subseteq Nat
      BY <1>3 DEF T
    <3> QED BY <3>1, Smallest
  <2>2. k # 0
    <3>1. f[0] = <<>>
      BY <1>3, <1>5
    <3>2. Len(<<>>) = 0 /\ <<>> \in Seq(Spans)
      OBVIOUS
    <3>3. Holds(0)
      BY <3>1, <3>2 DEF GapList
    <3> HIDE DEF Holds
    <3> QED BY <3>3
  <2>3. k \in 1..n /\ k - 1 \in 0..n /\ ~(k <= k - 1)
    BY <1>3, <2>2
  <2>4. Holds(k - 1)
    <3> HIDE DEF Holds
    <3> QED BY <2>1, <2>3
  <2> DEFINE h == f[k - 1]
             g == q[k]
  <2>5. g \in S /\ f[k] = Merge(h, g)
    BY <1>3, <1>5, <2>3
  <2>6. h # <<>> => h[Len(h)].s <= g.s
    <3> SUFFICES ASSUME h # <<>> PROVE h[Len(h)].s <= g.s
      OBVIOUS
    <3>1. k - 1 # 0
      BY <1>3, <1>5, <2>3
    <3>2. k - 1 \in 1..n /\ k - 1 < k
      BY <2>3, <3>1
    <3>3. h[Len(h)].s <= q[k - 1].s
      BY <2>4, <3>1
    <3>4. q[k - 1] \in S /\ ByStart(q[k - 1], g)
      BY <1>3, <2>3, <3>2
    <3>5. q[k - 1].s <= g.s
      <4>1. q[k - 1].s \in Nat /\ g.s \in Nat
        BY <1>2, <2>5, <3>4
      <4>2. q[k - 1].s < g.s \/ q[k - 1].s = g.s
        BY <3>4 DEF ByStart
      <4> HIDE DEF g
      <4> QED BY <4>1, <4>2
    <3>6. h[Len(h)].s \in Nat
      <4>1. h \in Seq(Spans)
        BY <2>4 DEF GapList
      <4> HIDE DEF h
      <4>2. h[Len(h)] \in Spans
        BY <4>1
      <4> QED BY <4>2 DEF Spans
    <3> HIDE DEF h, g
    <3> QED BY <1>2, <2>5, <3>3, <3>4, <3>5, <3>6
  <2>7. GapList(h, start, end) /\ g \in Spans /\ g.s < g.e /\ start < g.e /\ g.s < end
    BY <1>2, <2>4, <2>5
  <2> HIDE DEF h, g
  <2>8. HasMerged(f[k], h, g, start, end)
    <3>1. HasMerged(Merge(h, g), h, g, start, end)
      BY <2>6, <2>7, GapIsMerged
    <3> QED BY <2>5, <3>1
  <2>9. \A a, b \in Nat : a < b => ((\A j \in 1..Len(h) : Avoids(h[j], a, b)) <=> \A i \in 1..(k - 1) : Avoids(q[i], a, b))
    BY <2>4 DEF h
  <2>10. \A a, b : (\A i \in 1..k : Avoids(q[i], a, b)) <=> Avoids(g, a, b) /\ \A i \in 1..(k - 1) : Avoids(q[i], a, b)
    <3>1. k \in 1..k /\ \A i \in 1..k : i = k \/ i \in 1..(k - 1)
      BY <2>3
    <3>2. \A i \in 1..(k - 1) : i \in 1..k
      BY <2>3
    <3> QED BY <3>1, <3>2 DEF g
  <2>11. Holds(k)
    BY <2>8, <2>9, <2>10 DEF HasMerged, g
  <2> HIDE DEF Holds
  <2> QED BY <2>11
<1>7. Holds(n)
  <2> HIDE DEF Holds
  <2>1. n \in 0..n
    BY <1>3
  <2> QED BY <1>6, <2>1
<1>8. \A a, b \in Nat : (\A i \in 1..n : Avoids(q[i], a, b)) <=> \A g \in S : Avoids(g, a, b)
  BY <1>3
<1>9. \A a, b \in Nat : (\A g \in S : Avoids(g, a, b)) <=> \A g \in G : g.e > start /\ g.s < end => Avoids(g, a, b)
  BY DEF S
<1>10. GapList(gs, start, end)
  BY <1>4, <1>7
<1>11. ASSUME NEW a \in Nat, NEW b \in Nat, a < b
       PROVE  (\A j \in 1..Len(gs) : Avoids(gs[j], a, b)) <=> \A g \in G : g.e > start /\ g.s < end => Avoids(g, a, b)
  <2>1. (\A j \in 1..Len(gs) : Avoids(gs[j], a, b)) <=> \A i \in 1..n : Avoids(q[i], a, b)
    BY <1>4, <1>7, <1>11
  <2> QED BY <1>8, <1>9, <2>1
<1> QED BY <1>10, <1>11 DEF gs

\* What is outside of the gaps.
LEMMA OutsideAvoids ==
  ASSUME NEW start \in Nat, NEW end \in Nat, NEW gs, GapList(gs, start, end), NEW a \in Nat, NEW b \in Nat, a < b
  PROVE  /\ \A t \in Outside(gs, start, end) : t \in Spans /\ start <= t.s
         /\ (\E t \in Outside(gs, start, end) : t.s <= a /\ b <= t.e)
              <=> start <= a /\ b <= end /\ \A j \in 1..Len(gs) : Avoids(gs[j], a, b)
<1> DEFINE n == Len(gs)
           from(i) == IF i = 1 THEN start ELSE gs[i - 1].e
           till(i) == IF i > n THEN end ELSE gs[i].s
           O == Outside(gs, start, end)
<1>1. n \in Nat /\ \A j \in 1..n : gs[j].s \in Nat /\ gs[j].e \in Nat
  <2>1. gs \in Seq(Spans)
    BY DEF GapList
  <2>2. n \in Nat /\ \A j \in 1..n : gs[j] \in Spans
    BY <2>1
  <2> QED BY <2>2 DEF Spans
<1>2. \A j \in 1..n : gs[j].s < gs[j].e /\ start < gs[j].e /\ gs[j].s < end /\ \A k \in 1..n : j < k => gs[j].e < gs[k].s
  BY DEF GapList
<1>3. O = {[s |-> from(i), e |-> till(i)] : i \in {j \in 1..(n + 1) : from(j) < till(j)}}
  BY DEF Outside
<1> HIDE DEF n, O
<1>4. ASSUME NEW i \in 1..(n + 1)
      PROVE  /\ i # 1 => i - 1 \in 1..n
             /\ ~(i > n) => i \in 1..n
             /\ from(i) \in Nat /\ till(i) \in Nat /\ start <= from(i) /\ till(i) <= end
  <2>1. (i # 1 => i - 1 \in 1..n) /\ (~(i > n) => i \in 1..n)
    BY <1>1
  <2>2. from(i) \in Nat /\ start <= from(i)
    BY <1>1, <1>2, <2>1
  <2>3. till(i) \in Nat /\ till(i) <= end
    BY <1>1, <1>2, <2>1
  <2> QED BY <2>1, <2>2, <2>3
<1>5. \A t \in O : t \in Spans /\ start <= t.s
  <2> HIDE DEF from, till
  <2> QED BY <1>3, <1>4 DEF Spans
<1>6. (\E t \in O : t.s <= a /\ b <= t.e) <=> \E i \in 1..(n + 1) : from(i) <= a /\ b <= till(i)
  <2>1. (\E t \in O : t.s <= a /\ b <= t.e) <=> \E i \in 1..(n + 1) : from(i) < till(i) /\ from(i) <= a /\ b <= till(i)
    <3> HIDE DEF from, till
    <3>1. ASSUME NEW t \in O, t.s <= a, b <= t.e
          PROVE  \E i \in 1..(n + 1) : from(i) < till(i) /\ from(i) <= a /\ b <= till(i)
      <4>1. PICK i \in 1..(n + 1) : from(i) < till(i) /\ t = [s |-> from(i), e |-> till(i)]
        BY <1>3
      <4>2. t.s = from(i) /\ t.e = till(i)
        BY <4>1
      <4> QED BY <3>1, <4>1, <4>2
    <3>2. ASSUME NEW i \in 1..(n + 1), from(i) < till(i), from(i) <= a, b <= till(i)
          PROVE  \E t \in O : t.s <= a /\ b <= t.e
      <4> DEFINE t == [s |-> from(i), e |-> till(i)]
      <4>1. t \in O /\ t.s = from(i) /\ t.e = till(i)
        BY <1>3, <3>2
      <4> HIDE DEF t
      <4> QED BY <3>2, <4>1
    <3> QED BY <3>1, <3>2
  <2>2. \A i \in 1..(n + 1) : from(i) <= a /\ b <= till(i) => from(i) < till(i)
    <3> HIDE DEF from, till
    <3> QED BY <1>4
  <2> QED BY <2>1, <2>2
<1>7. ASSUME NEW i \in 1..(n + 1), from(i) <= a, b <= till(i)
      PROVE  start <= a /\ b <= end /\ \A j \in 1..n : Avoids(gs[j], a, b)
  <2>1. start <= a /\ b <= end
    <3> HIDE DEF from, till
    <3> QED BY <1>4, <1>7
  <2>2. ASSUME NEW j \in 1..n PROVE Avoids(gs[j], a, b)
    <3>1. CASE j < i
      <4>1. i # 1 /\ i - 1 \in 1..n /\ gs[i - 1].e <= a
        BY <1>4, <1>7, <3>1
      <4>2. j = i - 1 \/ j < i - 1
        BY <1>1, <3>1
      <4>3. gs[j].e <= gs[i - 1].e
        BY <1>1, <1>2, <4>1, <4>2
      <4> QED BY <1>1, <4>1, <4>3 DEF Avoids
    <3>2. CASE i <= j
      <4>1. ~(i > n) /\ i \in 1..n /\ b <= gs[i].s
        BY <1>1, <1>4, <1>7, <3>2
      <4>2. gs[i].s <= gs[j].s
        <5>1. i = j \/ i < j
          BY <1>1, <3>2
        <5> QED BY <1>1, <1>2, <4>1, <5>1
      <4> QED BY <1>1, <4>1, <4>2 DEF Avoids
    <3> QED BY <1>1, <3>1, <3>2
  <2> QED BY <2>1, <2>2
<1>8. ASSUME start <= a, b <= end, \A j \in 1..n : Avoids(gs[j], a, b)
      PROVE  \E i \in 1..(n + 1) : from(i) <= a /\ b <= till(i)
  <2> DEFINE T == {i \in 1..(n + 1) : i = n + 1 \/ ~(gs[i].e <= a)}
  <2>1. PICK k \in T : \A i \in T : k <= i
    <3>1. T \subseteq Nat /\ T # {}
      BY <1>1
    <3> HIDE DEF T
    <3> QED BY <3>1, Smallest
  <2>2. from(k) <= a
    <3>1. CASE k = 1
      BY <1>8, <3>1
    <3>2. CASE k # 1
      <4>1. k - 1 \in 1..n /\ k - 1 \notin T /\ k - 1 # n + 1 /\ k - 1 \in 1..(n + 1)
        BY <1>1, <2>1, <3>2
      <4> QED BY <3>2, <4>1
    <3> QED BY <3>1, <3>2
  <2>3. b <= till(k)
    <3>1. CASE k = n + 1
      BY <1>1, <1>8, <3>1
    <3>2. CASE k # n + 1
      <4>1. k \in 1..n /\ ~(k > n) /\ ~(gs[k].e <= a)
        BY <1>1, <3>2
      <4> QED BY <1>8, <4>1 DEF Avoids
    <3> QED BY <3>1, <3>2
  <2> QED BY <2>2, <2>3
<1> HIDE DEF from, till
<1> QED BY <1>5, <1>6, <1>7, <1>8 DEF n, O

\* What is left of a range is what avoids the gaps.
LEMMA WithinAvoids ==
  ASSUME NEW G, IsFiniteSet(G), G \subseteq Spans, \A g \in G : g.s < g.e,
         NEW start \in Nat, NEW end \in Nat, NEW a \in Nat, NEW b \in Nat, a < b
  PROVE  /\ \A t \in WithinRange(G, start, end) : t \in Spans /\ start <= t.s
         /\ (\E t \in WithinRange(G, start, end) : t.s <= a /\ b <= t.e)
              <=> start <= a /\ b <= end /\ \A g \in G : Avoids(g, a, b)
<1>1. CASE G = {}
  <2> DEFINE t0 == [s |-> start, e |-> end]
  <2>1. WithinRange(G, start, end) = {t0}
    BY <1>1 DEF WithinRange
  <2>2. t0 \in Spans /\ t0.s = start /\ t0.e = end
    BY DEF Spans
  <2> HIDE DEF t0
  <2> QED BY <1>1, <2>1, <2>2
<1>2. CASE G # {}
  <2> DEFINE gs == MergedGaps(G, start, end)
  <2>1. WithinRange(G, start, end) = Outside(gs, start, end)
    BY <1>2 DEF WithinRange
  <2>2. /\ GapList(gs, start, end)
        /\ (\A j \in 1..Len(gs) : Avoids(gs[j], a, b)) <=> \A g \in G : g.e > start /\ g.s < end => Avoids(g, a, b)
    BY MergedGapsAvoid
  <2> HIDE DEF gs
  <2>3. /\ \A t \in Outside(gs, start, end) : t \in Spans /\ start <= t.s
        /\ (\E t \in Outside(gs, start, end) : t.s <= a /\ b <= t.e)
             <=> start <= a /\ b <= end /\ \A j \in 1..Len(gs) : Avoids(gs[j], a, b)
    BY <2>2, OutsideAvoids
  <2>4. ASSUME start <= a, b <= end, NEW g \in G, g.e > start /\ g.s < end => Avoids(g, a, b) PROVE Avoids(g, a, b)
    <3>1. g.s \in Nat /\ g.e \in Nat
      BY DEF Spans
    <3> QED BY <2>4, <3>1 DEF Avoids
  <2> QED BY <2>1, <2>2, <2>3, <2>4
<1> QED BY <1>1, <1>2

-----------------------------------------------------------------------------
(* A restore accepts the chunks of a row exactly if none of its breaks is in *)
(* the range.                                                                *)

IsRow(C) == IsFiniteSet(C) /\ C # {} /\ C \subseteq Spans /\ Row(C) /\ \A c \in C : 1 <= c.s /\ c.s < c.e

\* Where the next chunk starts after the end of the one before.
Breaks(C) == {g \in Spans : \E p, x \in C : Right(C, p, x) /\ p.e < x.s /\ g = [s |-> p.e, e |-> x.s]}

Joined(C, a, b) == (\E c \in C : c.s <= a) /\ (\E c \in C : b <= c.e) /\ \A g \in Breaks(C) : Avoids(g, a, b)

\* The order of a row is that of its starts.
LEMMA InARow ==
  ASSUME NEW C, IsRow(C)
  PROVE  /\ \A x \in C : x.s \in Nat /\ x.e \in Nat /\ 1 <= x.s /\ x.s < x.e
         /\ \A x, y \in C : /\ (ByStart(x, y) <=> x.s < y.s) /\ (ByStart(x, y) => x.e <= y.e)
                            /\ x = y \/ ByStart(x, y) \/ ByStart(y, x)
         /\ \A a, b : (\A g \in Breaks(C) : Avoids(g, a, b))
                         <=> \A p, x \in C : Right(C, p, x) /\ p.e < x.s => x.s <= a \/ b <= p.e
<1>1. \A x \in C : x.s \in Nat /\ x.e \in Nat /\ 1 <= x.s /\ x.s < x.e
  BY DEF IsRow, Spans
<1>2. \A x, y \in C : (x.s = y.s => x = y) /\ (x.s < y.s => x.e <= y.e)
  BY DEF IsRow, Row
<1>3. ASSUME NEW x \in C, NEW y \in C
      PROVE  (ByStart(x, y) <=> x.s < y.s) /\ (ByStart(x, y) => x.e <= y.e) /\ (x = y \/ ByStart(x, y) \/ ByStart(y, x))
  <2>1. x.s < y.s \/ y.s < x.s \/ x.s = y.s
    BY <1>1
  <2>2. x.s = y.s => ~(x.e < y.e)
    BY <1>1, <1>2
  <2> QED BY <1>2, <2>1, <2>2 DEF ByStart
<1>4. ASSUME NEW a, NEW b
      PROVE  (\A g \in Breaks(C) : Avoids(g, a, b))
                <=> \A p, x \in C : Right(C, p, x) /\ p.e < x.s => x.s <= a \/ b <= p.e
  <2> DEFINE g(p, x) == [s |-> p.e, e |-> x.s]
  <2>1. \A p, x \in C : g(p, x) \in Spans /\ g(p, x).s = p.e /\ g(p, x).e = x.s
    BY <1>1 DEF Spans
  <2> HIDE DEF g
  <2>2. ASSUME \A h \in Breaks(C) : Avoids(h, a, b), NEW p \in C, NEW x \in C, Right(C, p, x), p.e < x.s
        PROVE  x.s <= a \/ b <= p.e
    <3>1. g(p, x) \in Breaks(C)
      BY <2>1, <2>2 DEF Breaks, g
    <3> QED BY <2>1, <2>2, <3>1 DEF Avoids
  <2>3. ASSUME \A p, x \in C : Right(C, p, x) /\ p.e < x.s => x.s <= a \/ b <= p.e, NEW h \in Breaks(C)
        PROVE  Avoids(h, a, b)
    <3>1. PICK p \in C, x \in C : Right(C, p, x) /\ p.e < x.s /\ h = g(p, x)
      BY DEF Breaks, g
    <3> QED BY <2>1, <2>3, <3>1 DEF Avoids
  <2> QED BY <2>2, <2>3
<1> QED BY <1>1, <1>3, <1>4

\* The one who restores sees the breaks that are in the range, and no others.
LEMMA AcceptedIfJoined ==
  ASSUME NEW C, IsRow(C), NEW a \in Nat, NEW b \in Nat, a < b
  PROVE  Accepts(C, a, b) <=> Joined(C, a, b)
<1> DEFINE Q == {c \in C : c.e >= a /\ c.s <= b}
           NoBreak == \A p, x \in C : Right(C, p, x) /\ p.e < x.s => x.s <= a \/ b <= p.e
<1>1. /\ \A x \in C : x.s \in Nat /\ x.e \in Nat /\ x.s < x.e
      /\ \A x, y \in C : /\ (ByStart(x, y) <=> x.s < y.s) /\ (ByStart(x, y) => x.e <= y.e)
                         /\ x = y \/ ByStart(x, y) \/ ByStart(y, x)
      /\ (\A g \in Breaks(C) : Avoids(g, a, b)) <=> NoBreak
  BY InARow
<1>2. IsFiniteSet(C) /\ C \subseteq Spans /\ C # {}
  BY DEF IsRow
<1>3. Accepts(C, a, b) <=> Covers(Q, a, b)
  BY <1>2, AcceptedIfCovered
<1>4. Joined(C, a, b) <=> (\E c \in C : c.s <= a) /\ (\E c \in C : b <= c.e) /\ NoBreak
  BY <1>1 DEF Joined
<1>5. ASSUME Covers(Q, a, b) PROVE (\E c \in C : c.s <= a) /\ (\E c \in C : b <= c.e) /\ NoBreak
  <2>1. IsFiniteSet(Q) /\ Q \subseteq Spans /\ Q # {} /\ Q \subseteq C
    BY <1>2, <1>5, FS_Subset DEF Covers
  <2>2. \A c \in Q : c.e >= a /\ c.s <= b
    OBVIOUS
  <2>3. \A c \in C : c.e >= a /\ c.s <= b => c \in Q
    OBVIOUS
  <2> HIDE DEF Q
  <2>4. PICK k \in Q : \A y \in Q : ~ByStart(y, k)
    BY <2>1, Neighbours
  <2>5. PICK m \in Q : \A y \in Q : ~ByStart(m, y)
    BY <2>1, Neighbours
  <2>6. k.s <= a /\ b <= m.e
    BY <1>5, <2>4, <2>5 DEF Covers
  <2>7. ASSUME NEW p \in C, NEW x \in C, Right(C, p, x), p.e < x.s, ~(x.s <= a), ~(b <= p.e) PROVE FALSE
    <3>1. ByStart(p, x) /\ \A z \in C : z = p \/ z = x \/ ByStart(z, p) \/ ByStart(x, z)
      BY <1>1, <2>7 DEF Right
    <3>2. CASE p.e < a
      <4>1. k # p /\ ~ByStart(k, p)
        BY <1>1, <2>1, <2>2, <2>7, <3>2
      <4>2. k = x \/ ByStart(x, k)
        BY <2>1, <3>1, <4>1
      <4> QED BY <1>1, <2>1, <2>6, <2>7, <4>2
    <3>3. CASE b < x.s
      <4>1. m # x /\ ~ByStart(x, m)
        BY <1>1, <2>1, <2>2, <2>7, <3>3
      <4>2. m = p \/ ByStart(m, p)
        BY <2>1, <3>1, <4>1
      <4> QED BY <1>1, <2>1, <2>6, <2>7, <4>2
    <3>4. CASE ~(p.e < a) /\ ~(b < x.s)
      <4>1. p \in Q /\ x \in Q
        BY <1>1, <2>3, <2>7, <3>4
      <4>2. Right(Q, p, x)
        BY <2>1, <2>7, <4>1 DEF Right
      <4>3. x.s <= p.e
        BY <1>5, <4>1, <4>2 DEF Covers
      <4> QED BY <1>1, <2>7, <4>3
    <3> QED BY <3>2, <3>3, <3>4
  <2> QED BY <2>1, <2>6, <2>7
<1>6. ASSUME NEW c1 \in C, c1.s <= a, NEW c2 \in C, b <= c2.e, NoBreak PROVE Covers(Q, a, b)
  <2>1. PICK m \in C : m.s <= b /\ b <= m.e /\ \A c \in C : c.s <= b => ~ByStart(m, c)
    <3> DEFINE P == {c \in C : c.s <= b}
    <3>1. IsFiniteSet(P) /\ P \subseteq Spans /\ c1 \in P
      BY <1>1, <1>2, <1>6, FS_Subset
    <3>2. PICK m \in P : \A c \in P : ~ByStart(m, c)
      <4> HIDE DEF P
      <4> QED BY <3>1, Neighbours
    <3>3. b <= m.e
      <4>1. CASE \A y \in C : ~ByStart(m, y)
        <5>1. c2 = m \/ ByStart(c2, m)
          BY <1>1, <1>6, <4>1
        <5> QED BY <1>1, <1>6, <5>1
      <4>2. CASE \E y \in C : ByStart(m, y)
        <5>1. PICK x \in C : Right(C, m, x)
          BY <1>2, <4>2, Neighbours
        <5>2. b < x.s
          BY <1>1, <3>2, <5>1 DEF Right
        <5>3. m.e < x.s => x.s <= a \/ b <= m.e
          BY <1>6, <5>1
        <5> QED BY <1>1, <5>2, <5>3
      <4> QED BY <4>1, <4>2
    <3> QED BY <3>2, <3>3
  <2>2. PICK k \in C : a <= k.e /\ k.s <= a /\ \A c \in C : a <= c.e => ~ByStart(c, k)
    <3> DEFINE P == {c \in C : a <= c.e}
    <3>1. IsFiniteSet(P) /\ P \subseteq Spans /\ c2 \in P
      BY <1>1, <1>2, <1>6, FS_Subset
    <3>2. PICK k \in P : \A c \in P : ~ByStart(c, k)
      <4> HIDE DEF P
      <4> QED BY <3>1, Neighbours
    <3>3. k.s <= a
      <4>1. CASE \A y \in C : ~ByStart(y, k)
        <5>1. c1 = k \/ ByStart(k, c1)
          BY <1>1, <1>6, <4>1
        <5> QED BY <1>1, <1>6, <5>1
      <4>2. CASE \E y \in C : ByStart(y, k)
        <5>1. PICK p \in C : Right(C, p, k)
          BY <1>2, <4>2, Neighbours
        <5>2. p.e < a
          BY <1>1, <3>2, <5>1 DEF Right
        <5>3. p.e < k.s => k.s <= a \/ b <= p.e
          BY <1>6, <5>1
        <5> QED BY <1>1, <5>2, <5>3
      <4> QED BY <4>1, <4>2
    <3> QED BY <3>2, <3>3
  <2>3. m \in Q /\ k \in Q /\ \A c \in Q : c \in C /\ a <= c.e /\ c.s <= b
    BY <1>1, <2>1, <2>2
  <2>4. \A c \in C : a <= c.e /\ c.s <= b => c \in Q
    BY <1>1
  <2> HIDE DEF Q
  <2>5. ASSUME NEW x \in Q, \A y \in Q : ~ByStart(y, x) PROVE x.s <= a
    <3>1. x = k
      BY <1>1, <2>2, <2>3, <2>5
    <3> QED BY <2>2, <3>1
  <2>6. ASSUME NEW x \in Q, \A y \in Q : ~ByStart(x, y) PROVE b <= x.e
    <3>1. x = m
      BY <1>1, <2>1, <2>3, <2>6
    <3> QED BY <2>1, <3>1
  <2>7. ASSUME NEW p \in Q, NEW x \in Q, Right(Q, p, x) PROVE x.s <= p.e
    <3>1. p \in C /\ x \in C /\ a <= p.e /\ x.s <= b /\ ByStart(p, x)
      BY <2>3, <2>7 DEF Right
    <3>2. ASSUME NEW z \in C, ByStart(p, z), ByStart(z, x) PROVE FALSE
      <4>1. a <= z.e /\ z.s <= b
        BY <1>1, <3>1, <3>2
      <4>2. z \in Q
        BY <2>4, <4>1
      <4> QED BY <2>7, <3>2, <4>2 DEF Right
    <3>3. Right(C, p, x)
      BY <3>1, <3>2 DEF Right
    <3>4. p.e < x.s => x.s <= a \/ b <= p.e
      BY <1>6, <3>1, <3>3
    <3> QED BY <1>1, <3>1, <3>4
  <2> QED BY <2>3, <2>5, <2>6, <2>7 DEF Covers
<1> HIDE DEF Q, NoBreak
<1> QED BY <1>3, <1>4, <1>5, <1>6

-----------------------------------------------------------------------------
(* The timelines of a row.                                                   *)

\* A set of places that is not empty has a last one.
LEMMA SomeLastPlace ==
  ASSUME NEW n \in Nat, NEW B, B \subseteq 1..n, B # {} PROVE \E i \in B : \A k \in B : k <= i
<1>1. B \subseteq Nat /\ \A k \in B : k <= n
  OBVIOUS
<1>2. IsFiniteSet(B)
  BY <1>1, FS_BoundedSetOfNaturals
<1> QED BY <1>1, <1>2, MaxIsLargest

\* Places where something begins, and where it ends: before the next such place, or at the end.
LEMMA LastPlaces ==
  ASSUME NEW n \in Nat, n # 0, NEW first, first \subseteq 1..n, 1 \in first
  PROVE  LET last(i) == Min({j \in 1..n : j >= i /\ (j = n \/ j + 1 \in first)}) IN
         /\ \A i \in first : last(i) \in 1..n /\ i <= last(i) /\ (last(i) = n \/ last(i) + 1 \in first)
         /\ \A i, k \in first : i < k => last(i) < k
         /\ \A j \in 1..n : j = n \/ j + 1 \in first => \E i \in first : i <= j /\ last(i) = j
<1> DEFINE P(i) == {j \in 1..n : j >= i /\ (j = n \/ j + 1 \in first)}
           last(i) == Min(P(i))
<1>1. n \in 1..n
  OBVIOUS
<1>2. ASSUME NEW i \in 1..n PROVE last(i) \in P(i) /\ \A j \in P(i) : last(i) <= j
  <2>1. P(i) \subseteq Nat /\ n \in P(i)
    BY <1>1
  <2> HIDE DEF P
  <2>2. \E m \in P(i) : \A j \in P(i) : m <= j
    BY <2>1, Smallest
  <2> QED BY <2>2 DEF Min
<1> HIDE DEF last
<1>3. \A i \in first : last(i) \in 1..n /\ i <= last(i) /\ (last(i) = n \/ last(i) + 1 \in first)
  BY <1>2
<1>4. ASSUME NEW i \in first, NEW k \in first, i < k PROVE last(i) < k
  <2>1. k - 1 \in P(i)
    <3>1. i \in 1..n /\ k \in 1..n
      OBVIOUS
    <3>2. k - 1 \in 1..n /\ k - 1 >= i /\ (k - 1) + 1 = k
      BY <1>4, <3>1
    <3> QED BY <3>2
  <2>2. last(i) <= k - 1 /\ last(i) \in 1..n
    <3>1. i \in 1..n
      OBVIOUS
    <3> HIDE DEF P
    <3> QED BY <1>2, <1>3, <2>1, <3>1
  <2> QED BY <2>2
<1>5. ASSUME NEW j \in 1..n, j = n \/ j + 1 \in first PROVE \E i \in first : i <= j /\ last(i) = j
  <2> DEFINE B == {i \in first : i <= j}
  <2>1. PICK i \in B : \A k \in B : k <= i
    <3>1. 1 <= j
      OBVIOUS
    <3>2. B \subseteq 1..n /\ 1 \in B
      BY <3>1
    <3> HIDE DEF B
    <3> QED BY <3>2, SomeLastPlace
  <2>2. i \in first /\ i \in 1..n /\ i <= j /\ j \in P(i)
    BY <1>5
  <2>3. last(i) <= j
    BY <1>2, <2>2
  <2>4. last(i) = n \/ ~(last(i) + 1 <= j)
    <3>1. last(i) \in 1..n /\ i <= last(i) /\ (last(i) = n \/ last(i) + 1 \in first)
      BY <1>3, <2>2
    <3>2. last(i) + 1 \in B => last(i) + 1 <= i
      BY <2>1
    <3> QED BY <2>2, <3>1, <3>2
  <2>5. last(i) = j
    BY <1>3, <2>2, <2>3, <2>4
  <2> QED BY <2>2, <2>5
<1> QED BY <1>3, <1>4, <1>5 DEF last

\* A row in order.
Ascending(q, n) ==
  /\ n \in Nat /\ n # 0 /\ q \in [1..n -> Spans]
  /\ \A i \in 1..n : 1 <= q[i].s /\ q[i].s < q[i].e
  /\ \A i, j \in 1..n : i <= j => q[i].s <= q[j].s /\ q[i].e <= q[j].e
  /\ \A i, j \in 1..n : i < j => q[i].s < q[j].s

\* Timelines from the first places to the last ones.
LEMMA TimelinesInOrder ==
  ASSUME NEW n, NEW q, Ascending(q, n)
  PROVE  LET first == {i \in 1..n : i = 1 \/ q[i - 1].e < q[i].s}
             last(i) == Min({j \in 1..n : j >= i /\ (j = n \/ j + 1 \in first)})
             T == {[s |-> q[i].s, e |-> q[last(i)].e] : i \in first}
         IN /\ T \subseteq Spans /\ \A t \in T : 1 <= t.s
            /\ Min(Starts(T)) = q[1].s /\ Max(Ends(T)) = q[n].e
            /\ Gaps(T) = {[s |-> q[j - 1].e, e |-> q[j].s] : j \in {i \in 1..n : i # 1 /\ q[i - 1].e < q[i].s}}
            /\ \A a, b \in Nat :
                 (\E t \in T : t.s <= a /\ b <= t.e)
                   <=> q[1].s <= a /\ b <= q[n].e
                       /\ \A j \in 1..n : j # 1 /\ q[j - 1].e < q[j].s => q[j].s <= a \/ b <= q[j - 1].e
<1> DEFINE first == {i \in 1..n : i = 1 \/ q[i - 1].e < q[i].s}
           last(i) == Min({j \in 1..n : j >= i /\ (j = n \/ j + 1 \in first)})
           tl(i) == [s |-> q[i].s, e |-> q[last(i)].e]
           T == {tl(i) : i \in first}
           later == {i \in 1..n : i # 1 /\ q[i - 1].e < q[i].s}
<1>1. /\ n \in Nat /\ n # 0 /\ 1 \in 1..n /\ n \in 1..n
      /\ \A i \in 1..n : q[i] \in Spans /\ q[i].s \in Nat /\ q[i].e \in Nat /\ 1 <= q[i].s /\ q[i].s < q[i].e
      /\ \A i, j \in 1..n : i <= j => q[i].s <= q[j].s /\ q[i].e <= q[j].e
      /\ \A i, j \in 1..n : i < j => q[i].s < q[j].s
  <2>1. n \in Nat /\ n # 0 /\ \A i \in 1..n : q[i] \in Spans
    BY DEF Ascending
  <2> QED BY <2>1 DEF Ascending, Spans
<1>2. first \subseteq 1..n /\ 1 \in first /\ later \subseteq first /\ \A j \in first : j \in later <=> j # 1
  BY <1>1
<1>3. /\ \A i \in first : last(i) \in 1..n /\ i <= last(i) /\ (last(i) = n \/ last(i) + 1 \in first)
      /\ \A i, k \in first : i < k => last(i) < k
      /\ \A j \in 1..n : j = n \/ j + 1 \in first => \E i \in first : i <= j /\ last(i) = j
  <2> HIDE DEF first
  <2> QED BY <1>1, <1>2, LastPlaces
<1>4. \A j \in 1..n : j \in later <=> j # 1 /\ q[j - 1].e < q[j].s
  OBVIOUS
<1> HIDE DEF first, last, later
<1>5. \A i \in first : /\ i \in 1..n /\ last(i) \in 1..n /\ tl(i) \in Spans /\ tl(i).s = q[i].s /\ tl(i).e = q[last(i)].e
                       /\ 1 <= tl(i).s
  BY <1>1, <1>2, <1>3 DEF Spans
<1> HIDE DEF tl
<1>6. T \subseteq Spans /\ \A t \in T : 1 <= t.s
  BY <1>5
<1>7. Starts(T) = {q[i].s : i \in first} /\ Ends(T) = {q[last(i)].e : i \in first}
  BY <1>5 DEF Starts, Ends
<1>8. PICK z \in first : last(z) = n
  BY <1>1, <1>3
<1>9. Min(Starts(T)) = q[1].s
  <2>1. q[1].s \in Starts(T) /\ \A x \in Starts(T) : q[1].s <= x /\ x \in Nat
    BY <1>1, <1>2, <1>7
  <2> HIDE DEF T
  <2>2. \A x \in Starts(T) : (\A y \in Starts(T) : x <= y) => x = q[1].s
    BY <1>1, <2>1
  <2> QED BY <2>1, <2>2 DEF Min
<1>10. Max(Ends(T)) = q[n].e
  <2>1. q[n].e \in Ends(T) /\ \A x \in Ends(T) : x <= q[n].e /\ x \in Nat
    BY <1>1, <1>5, <1>7, <1>8
  <2> HIDE DEF T
  <2>2. \A x \in Ends(T) : (\A y \in Ends(T) : x >= y) => x = q[n].e
    BY <1>1, <2>1
  <2>3. \A x \in Ends(T) : q[n].e >= x
    BY <1>1, <2>1
  <2> QED BY <2>1, <2>2, <2>3 DEF Max
<1> DEFINE gap(j) == [s |-> q[j - 1].e, e |-> q[j].s]
<1>11. ASSUME NEW i \in first, last(i) # n
       PROVE  /\ last(i) + 1 \in later /\ q[i].s < q[last(i) + 1].s
              /\ Min({x \in Starts(T) : x > q[i].s}) = q[last(i) + 1].s
  <2>1. last(i) + 1 \in first /\ last(i) + 1 \in 1..n /\ last(i) + 1 # 1 /\ i < last(i) + 1 /\ i \in 1..n
    BY <1>1, <1>2, <1>3, <1>11
  <2>2. last(i) + 1 \in later /\ q[i].s < q[last(i) + 1].s
    BY <1>1, <1>2, <2>1
  <2> DEFINE X == {x \in Starts(T) : x > q[i].s}
             m == q[last(i) + 1].s
  <2>3. m \in X
    BY <1>1, <1>7, <2>1, <2>2
  <2>4. ASSUME NEW x \in X PROVE m <= x /\ x \in Nat
    <3>1. PICK k \in first : x = q[k].s
      BY <1>7
    <3>2. k \in 1..n /\ x > q[i].s
      BY <1>2
    <3>3. i < k
      <4>1. k <= i => q[k].s <= q[i].s
        BY <1>1, <2>1, <3>2
      <4> QED BY <1>1, <2>1, <3>1, <3>2, <4>1
    <3>4. last(i) + 1 <= k
      BY <1>3, <2>1, <3>2, <3>3
    <3> QED BY <1>1, <2>1, <3>1, <3>2, <3>4
  <2>5. m \in Nat
    BY <1>1, <2>1
  <2> HIDE DEF X, m
  <2>6. Min(X) = m
    <3>1. \A x \in X : (\A y \in X : x <= y) => x = m
      BY <2>3, <2>4, <2>5
    <3> QED BY <2>3, <2>4, <3>1 DEF Min
  <2> QED BY <2>2, <2>6 DEF X, m
<1>12. \A i \in first : q[i].s < Max(Starts(T)) <=> last(i) # n
  <2>1. Starts(T) \subseteq Nat /\ Starts(T) # {} /\ IsFiniteSet(Starts(T)) 
    <3>1. Starts(T) \subseteq Nat /\ q[1].s \in Starts(T) /\ \A x \in Starts(T) : x <= q[n].s
      BY <1>1, <1>2, <1>7
    <3> HIDE DEF T
    <3> QED BY <1>1, <3>1, FS_BoundedSetOfNaturals
  <2>2. Max(Starts(T)) \in Starts(T) /\ \A x \in Starts(T) : x <= Max(Starts(T))
    <3> HIDE DEF T
    <3> QED BY <2>1, MaxIsLargest
  <2> TAKE i \in first
  <2>3. ASSUME last(i) # n PROVE q[i].s < Max(Starts(T))
    <3>1. q[i].s < q[last(i) + 1].s /\ last(i) + 1 \in first
      BY <1>2, <1>11, <2>3
    <3>2. q[last(i) + 1].s <= Max(Starts(T))
      BY <1>7, <2>2, <3>1
    <3>3. Max(Starts(T)) \in Nat /\ q[i].s \in Nat /\ q[last(i) + 1].s \in Nat
      BY <1>1, <1>2, <2>1, <2>2, <3>1
    <3> QED BY <3>1, <3>2, <3>3
  <2>4. ASSUME last(i) = n PROVE ~(q[i].s < Max(Starts(T)))
    <3>1. PICK k \in first : Max(Starts(T)) = q[k].s
      BY <1>7, <2>2
    <3>2. ~(i < k)
      BY <1>2, <1>3, <2>4
    <3> QED BY <1>1, <1>2, <3>1, <3>2
  <2> QED BY <2>3, <2>4
<1>13. Gaps(T) = {gap(j) : j \in later}
  <2> DEFINE between(t) == [s |-> t.e, e |-> Min({x \in Starts(T) : x > t.s})]
             U == {u \in T : u.s < Max(Starts(T))}
  <2>1. Gaps(T) = {between(t) : t \in U}
    BY DEF Gaps
  <2>2. \A i \in first : last(i) # n => between(tl(i)) = gap(last(i) + 1)
    <3> TAKE i \in first
    <3> HAVE last(i) # n
    <3>1. (last(i) + 1) - 1 = last(i)
      BY <1>3
    <3>2. tl(i).s = q[i].s /\ tl(i).e = q[last(i)].e /\ Min({x \in Starts(T) : x > q[i].s}) = q[last(i) + 1].s
      BY <1>5, <1>11
    <3> HIDE DEF T
    <3> QED BY <3>1, <3>2
  <2>3. \A i \in first : tl(i) \in U <=> last(i) # n
    BY <1>5, <1>12
  <2> HIDE DEF between, gap
  <2>4. ASSUME NEW t \in U PROVE \E j \in later : between(t) = gap(j)
    <3>1. PICK i \in first : t = tl(i)
      OBVIOUS
    <3>2. last(i) # n
      BY <2>3, <3>1
    <3> QED BY <1>11, <2>2, <3>1, <3>2
  <2>5. ASSUME NEW j \in later PROVE \E t \in U : between(t) = gap(j)
    <3>1. j \in first /\ j # 1 /\ j \in 1..n
      BY <1>2
    <3>2. j - 1 \in 1..n /\ (j - 1) + 1 = j /\ j - 1 # n
      BY <1>1, <3>1
    <3>3. PICK i \in first : last(i) = j - 1
      BY <1>3, <3>1, <3>2
    <3>4. tl(i) \in U /\ between(tl(i)) = gap(j)
      BY <2>2, <2>3, <3>2, <3>3
    <3> QED BY <3>4
  <2> HIDE DEF U
  <2> QED BY <2>1, <2>4, <2>5
<1>14. ASSUME NEW a \in Nat, NEW b \in Nat
       PROVE  (\E t \in T : t.s <= a /\ b <= t.e)
                <=> q[1].s <= a /\ b <= q[n].e /\ \A j \in later : q[j].s <= a \/ b <= q[j - 1].e
  <2>1. (\E t \in T : t.s <= a /\ b <= t.e) <=> \E i \in first : q[i].s <= a /\ b <= q[last(i)].e
    BY <1>5
  <2>2. ASSUME NEW i \in first, q[i].s <= a, b <= q[last(i)].e
        PROVE  q[1].s <= a /\ b <= q[n].e /\ \A j \in later : q[j].s <= a \/ b <= q[j - 1].e
    <3>1. i \in 1..n /\ last(i) \in 1..n /\ 1 <= i /\ last(i) <= n
      BY <1>1, <1>5
    <3>2. q[1].s <= q[i].s /\ q[last(i)].e <= q[n].e
      BY <1>1, <3>1
    <3>3. q[1].s <= a /\ b <= q[n].e
      BY <1>1, <2>2, <3>1, <3>2
    <3>4. ASSUME NEW j \in later PROVE q[j].s <= a \/ b <= q[j - 1].e
      <4>1. j \in first /\ j \in 1..n /\ j - 1 \in 1..n
        BY <1>1, <1>2
      <4>2. CASE j <= i
        <5>1. q[j].s <= q[i].s
          BY <1>1, <3>1, <4>1, <4>2
        <5> QED BY <1>1, <2>2, <3>1, <4>1, <5>1
      <4>3. CASE i < j
        <5>1. last(i) <= j - 1
          BY <1>3, <3>1, <4>1, <4>3
        <5>2. q[last(i)].e <= q[j - 1].e
          BY <1>1, <3>1, <4>1, <5>1
        <5> QED BY <1>1, <2>2, <3>1, <4>1, <5>2
      <4> QED BY <3>1, <4>1, <4>2, <4>3
    <3> QED BY <3>3, <3>4
  <2>3. ASSUME q[1].s <= a, b <= q[n].e, \A j \in later : q[j].s <= a \/ b <= q[j - 1].e
        PROVE  \E i \in first : q[i].s <= a /\ b <= q[last(i)].e
    <3> DEFINE B == {i \in first : q[i].s <= a}
    <3>1. PICK i \in B : \A k \in B : k <= i
      <4>1. B \subseteq 1..n /\ 1 \in B
        BY <1>2, <2>3
      <4> HIDE DEF B
      <4> QED BY <1>1, <4>1, SomeLastPlace
    <3>2. CASE last(i) = n
      BY <2>3, <3>2
    <3>3. CASE last(i) # n
      <4>1. last(i) + 1 \in later /\ last(i) + 1 \in first /\ last(i) \in 1..n /\ i <= last(i) /\ i \in 1..n
        BY <1>2, <1>3, <1>11, <3>3
      <4>2. ~(last(i) + 1 <= i) /\ (last(i) + 1) - 1 = last(i)
        BY <4>1
      <4>3. last(i) + 1 \notin B
        BY <3>1, <4>2
      <4>4. b <= q[last(i)].e
        BY <2>3, <4>1, <4>2, <4>3
      <4> QED BY <4>4
    <3> QED BY <3>2, <3>3
  <2> QED BY <2>1, <2>2, <2>3
<1>15. ASSUME NEW a, NEW b
       PROVE  (\A j \in later : q[j].s <= a \/ b <= q[j - 1].e)
                <=> \A j \in 1..n : j # 1 /\ q[j - 1].e < q[j].s => q[j].s <= a \/ b <= q[j - 1].e
  BY <1>2, <1>4
<1> HIDE DEF T, gap
<1>16. \A a, b \in Nat :
         (\E t \in T : t.s <= a /\ b <= t.e)
           <=> q[1].s <= a /\ b <= q[n].e
               /\ \A j \in 1..n : j # 1 /\ q[j - 1].e < q[j].s => q[j].s <= a \/ b <= q[j - 1].e
  BY <1>14, <1>15
<1> QED BY <1>6, <1>9, <1>10, <1>13, <1>16 DEF T, gap, later, tl, last, first

\* A row, sorted, ascends.
LEMMA SortedRow ==
  ASSUME NEW C, IsRow(C)
  PROVE  LET q == Sorted(C)
             n == Cardinality(C)
         IN /\ Ascending(q, n) /\ DOMAIN q = 1..n /\ Len(q) = n
            /\ \A a \in Nat : (\E c \in C : c.s <= a) <=> q[1].s <= a
            /\ \A b \in Nat : (\E c \in C : b <= c.e) <=> b <= q[n].e
            /\ Breaks(C) = {[s |-> q[j - 1].e, e |-> q[j].s] : j \in {i \in 1..n : i # 1 /\ q[i - 1].e < q[i].s}}
<1> DEFINE q == Sorted(C)
           n == Cardinality(C)
<1>1. IsFiniteSet(C) /\ C # {} /\ C \subseteq Spans
  BY DEF IsRow
<1>2. /\ n \in Nat /\ q \in [1..n -> C] /\ Len(q) = n
      /\ \A x \in C : \E i \in 1..n : q[i] = x
      /\ \A i, j \in 1..n : i < j <=> ByStart(q[i], q[j])
  BY <1>1, SortedByStart
<1>3. \A i \in 1..n : i # 1 => Right(C, q[i - 1], q[i])
  BY <1>1, NextInOrder
<1>4. \A p, x : Right(C, p, x) => \E i \in 1..n : i # 1 /\ x = q[i] /\ p = q[i - 1]
  BY <1>1, PlacesOfNeighbours
<1>5. n # 0
  BY <1>1, FS_EmptySet
<1> HIDE DEF q, n
<1>6. /\ \A x \in C : x.s \in Nat /\ x.e \in Nat /\ 1 <= x.s /\ x.s < x.e
      /\ \A x, y \in C : (ByStart(x, y) <=> x.s < y.s) /\ (ByStart(x, y) => x.e <= y.e)
  BY InARow
<1>7. 1 \in 1..n /\ n \in 1..n /\ \A i \in 1..n : q[i] \in C /\ q[i].s \in Nat /\ q[i].e \in Nat /\ 1 <= q[i].s /\ q[i].s < q[i].e
  BY <1>2, <1>5, <1>6
<1>8. \A i, j \in 1..n : i < j => q[i].s < q[j].s /\ q[i].e <= q[j].e
  BY <1>2, <1>6, <1>7
<1>9. \A i, j \in 1..n : i <= j => q[i].s <= q[j].s /\ q[i].e <= q[j].e
  <2> TAKE i, j \in 1..n
  <2> HAVE i <= j
  <2>1. CASE i = j
    BY <1>7, <2>1
  <2>2. CASE i # j
    BY <1>7, <1>8, <2>2
  <2> QED BY <2>1, <2>2
<1>10. Ascending(q, n)
  <2>1. q \in [1..n -> Spans]
    BY <1>1, <1>2
  <2> QED BY <1>2, <1>5, <1>7, <1>8, <1>9, <2>1 DEF Ascending
<1>11. ASSUME NEW x \in C PROVE q[1].s <= x.s /\ x.e <= q[n].e
  <2>1. PICK i \in 1..n : q[i] = x
    BY <1>2
  <2>2. 1 <= i /\ i <= n
    BY <1>2
  <2> QED BY <1>7, <1>9, <2>1, <2>2
<1>12. \A a \in Nat : (\E c \in C : c.s <= a) <=> q[1].s <= a
  BY <1>6, <1>7, <1>11
<1>13. \A b \in Nat : (\E c \in C : b <= c.e) <=> b <= q[n].e
  BY <1>6, <1>7, <1>11
<1> DEFINE gap(j) == [s |-> q[j - 1].e, e |-> q[j].s]
           later == {i \in 1..n : i # 1 /\ q[i - 1].e < q[i].s}
<1>14. Breaks(C) = {gap(j) : j \in later}
  <2>1. ASSUME NEW g \in Breaks(C) PROVE \E j \in later : g = gap(j)
    <3>1. PICK p \in C, x \in C : Right(C, p, x) /\ p.e < x.s /\ g = [s |-> p.e, e |-> x.s]
      BY DEF Breaks
    <3>2. PICK j \in 1..n : j # 1 /\ x = q[j] /\ p = q[j - 1]
      BY <1>4, <3>1
    <3> QED BY <3>1, <3>2
  <2>2. ASSUME NEW j \in later PROVE gap(j) \in Breaks(C)
    <3>1. j \in 1..n /\ j # 1 /\ q[j - 1].e < q[j].s /\ Right(C, q[j - 1], q[j])
      BY <1>3
    <3>2. q[j - 1] \in C /\ q[j] \in C
      BY <3>1 DEF Right
    <3>3. gap(j) \in Spans
      BY <1>6, <3>2 DEF Spans
    <3> QED BY <3>1, <3>2, <3>3 DEF Breaks
  <2> HIDE DEF gap, later
  <2> QED BY <2>1, <2>2
<1>15. DOMAIN q = 1..n
  BY <1>2
<1> QED BY <1>2, <1>10, <1>12, <1>13, <1>14, <1>15 DEF q, n

LEMMA BreaksAreFinite ==
  ASSUME NEW C, IsRow(C) PROVE IsFiniteSet(Breaks(C)) /\ Breaks(C) \subseteq Spans /\ \A g \in Breaks(C) : g.s < g.e
<1> DEFINE q == Sorted(C)
           n == Cardinality(C)
           later == {i \in 1..n : i # 1 /\ q[i - 1].e < q[i].s}
           gap == [j \in later |-> [s |-> q[j - 1].e, e |-> q[j].s]]
<1>1. n \in Nat /\ Breaks(C) = {[s |-> q[j - 1].e, e |-> q[j].s] : j \in later}
  <2>1. Ascending(q, n)
    BY SortedRow
  <2> QED BY <2>1, SortedRow DEF Ascending
<1>2. IsFiniteSet(later)
  <2>1. IsFiniteSet(1..n)
    BY <1>1, FS_Interval
  <2> HIDE DEF q, n
  <2> QED BY <2>1, FS_Subset
<1>3. gap \in Surjection(later, Breaks(C))
  <2> HIDE DEF q, later
  <2> QED BY <1>1 DEF Surjection
<1>4. IsFiniteSet(Breaks(C))
  <2> HIDE DEF gap, later
  <2> QED BY <1>2, <1>3, FS_Surjection
<1>5. Breaks(C) \subseteq Spans /\ \A g \in Breaks(C) : g.s < g.e
  BY DEF Breaks
<1> QED BY <1>4, <1>5

\* What lies between the timelines of a row are its breaks.
LEMMA TimelinesOfRow ==
  ASSUME NEW C, IsRow(C)
  PROVE  LET T == Gettimelines(C) IN
         /\ T \subseteq Spans /\ \A t \in T : 1 <= t.s
         /\ Min(Starts(T)) \in Nat /\ 1 <= Min(Starts(T)) /\ Max(Ends(T)) \in Nat /\ 1 <= Max(Ends(T))
         /\ \A a \in Nat : (\E c \in C : c.s <= a) <=> Min(Starts(T)) <= a
         /\ \A b \in Nat : (\E c \in C : b <= c.e) <=> b <= Max(Ends(T))
         /\ Gaps(T) = Breaks(C)
         /\ \A a, b \in Nat : (\E t \in T : t.s <= a /\ b <= t.e) <=> Joined(C, a, b)
<1> DEFINE q == Sorted(C)
           n == Cardinality(C)
           first == {i \in 1..n : i = 1 \/ q[i - 1].e < q[i].s}
           last(i) == Min({j \in 1..n : j >= i /\ (j = n \/ j + 1 \in first)})
           T == {[s |-> q[i].s, e |-> q[last(i)].e] : i \in first}
           later == {i \in 1..n : i # 1 /\ q[i - 1].e < q[i].s}
<1>1. /\ Ascending(q, n) /\ DOMAIN q = 1..n /\ Len(q) = n
      /\ \A a \in Nat : (\E c \in C : c.s <= a) <=> q[1].s <= a
      /\ \A b \in Nat : (\E c \in C : b <= c.e) <=> b <= q[n].e
      /\ Breaks(C) = {[s |-> q[j - 1].e, e |-> q[j].s] : j \in later}
  BY SortedRow
<1>2. Gettimelines(C) = T
  <2>1. C # {}
    BY DEF IsRow
  <2> DEFINE first2 == {i \in DOMAIN q : i = 1 \/ q[i - 1].e < q[i].s}
             last2(i) == Min({j \in DOMAIN q : j >= i /\ (j = Len(q) \/ j + 1 \in first2)})
  <2>2. Gettimelines(C) = {[s |-> q[i].s, e |-> q[last2(i)].e] : i \in first2}
    BY <2>1 DEF Gettimelines
  <2> HIDE DEF q, n
  <2>3. first2 = first
    BY <1>1
  <2>4. \A i : last2(i) = last(i)
    <3> TAKE i
    <3> HIDE DEF first, first2
    <3> QED BY <1>1, <2>3
  <2> HIDE DEF first, last, first2, last2
  <2> QED BY <2>2, <2>3, <2>4
<1> HIDE DEF q, n
<1>3. /\ T \subseteq Spans /\ \A t \in T : 1 <= t.s
      /\ Min(Starts(T)) = q[1].s /\ Max(Ends(T)) = q[n].e
      /\ Gaps(T) = {[s |-> q[j - 1].e, e |-> q[j].s] : j \in later}
      /\ \A a, b \in Nat :
           (\E t \in T : t.s <= a /\ b <= t.e)
             <=> q[1].s <= a /\ b <= q[n].e
                 /\ \A j \in 1..n : j # 1 /\ q[j - 1].e < q[j].s => q[j].s <= a \/ b <= q[j - 1].e
  <2>1. Ascending(q, n)
    BY <1>1
  <2> QED BY <2>1, TimelinesInOrder
<1>4. q[1].s \in Nat /\ 1 <= q[1].s /\ q[n].e \in Nat /\ 1 <= q[n].e
  <2>1. 1 \in 1..n /\ n \in 1..n /\ q \in [1..n -> Spans] /\ \A i \in 1..n : 1 <= q[i].s /\ q[i].s < q[i].e
    BY <1>1 DEF Ascending
  <2>2. 1 <= q[n].s /\ q[n].s < q[n].e /\ q[n] \in Spans /\ q[1] \in Spans /\ 1 <= q[1].s
    BY <2>1
  <2> QED BY <2>2 DEF Spans
<1> DEFINE gap(j) == [s |-> q[j - 1].e, e |-> q[j].s]
<1>5. ASSUME NEW a \in Nat, NEW b \in Nat
      PROVE  Joined(C, a, b) <=> q[1].s <= a /\ b <= q[n].e
                                 /\ \A j \in 1..n : j # 1 /\ q[j - 1].e < q[j].s => q[j].s <= a \/ b <= q[j - 1].e
  <2>1. (\A g \in Breaks(C) : Avoids(g, a, b)) <=> \A j \in later : Avoids(gap(j), a, b)
    <3> HIDE DEF later
    <3> QED BY <1>1
  <2>2. \A j : Avoids(gap(j), a, b) <=> q[j].s <= a \/ b <= q[j - 1].e
    BY DEF Avoids
  <2>3. (\A g \in Breaks(C) : Avoids(g, a, b))
           <=> \A j \in 1..n : j # 1 /\ q[j - 1].e < q[j].s => q[j].s <= a \/ b <= q[j - 1].e
    <3> HIDE DEF gap
    <3> QED BY <2>1, <2>2
  <2> QED BY <1>1, <2>3 DEF Joined
<1> HIDE DEF T
<1> QED BY <1>1, <1>2, <1>3, <1>4, <1>5

-----------------------------------------------------------------------------
(* Timelines of several rows, merged.                                        *)

\* The merged timelines hold what all the rows hold.
LEMMA MergedIfJoined ==
  ASSUME NEW n \in Nat, n # 0, NEW tlns, Len(tlns) = n, DOMAIN tlns = 1..n,
         NEW C, \A i \in 1..n : IsRow(C[i]) /\ tlns[i] = Gettimelines(C[i]),
         NEW a \in Nat, NEW b \in Nat, a < b
  PROVE  /\ \A t \in MergeTimelines(tlns) : t \in Spans /\ 1 <= t.s
         /\ (\E t \in MergeTimelines(tlns) : t.s <= a /\ b <= t.e) <=> \A i \in 1..n : Joined(C[i], a, b)
<1> DEFINE from(i) == Min(Starts(tlns[i]))
           till(i) == Max(Ends(tlns[i]))
<1>1. ASSUME NEW i \in 1..n
      PROVE  /\ tlns[i] \subseteq Spans /\ \A t \in tlns[i] : 1 <= t.s
             /\ from(i) \in Nat /\ 1 <= from(i) /\ till(i) \in Nat /\ 1 <= till(i)
             /\ (\E c \in C[i] : c.s <= a) <=> from(i) <= a
             /\ (\E c \in C[i] : b <= c.e) <=> b <= till(i)
             /\ Gaps(tlns[i]) = Breaks(C[i])
             /\ (\E t \in tlns[i] : t.s <= a /\ b <= t.e) <=> Joined(C[i], a, b)
  <2>1. IsRow(C[i]) /\ tlns[i] = Gettimelines(C[i])
    BY <1>1
  <2> QED BY <2>1, TimelinesOfRow
<1>2. CASE n = 1
  <2>1. MergeTimelines(tlns) = tlns[1]
    BY <1>2 DEF MergeTimelines
  <2>2. 1 \in 1..n /\ \A i \in 1..n : i = 1
    BY <1>2
  <2> HIDE DEF from, till
  <2>3. \A t \in tlns[1] : t \in Spans /\ 1 <= t.s
    BY <1>1, <2>2
  <2>4. (\E t \in tlns[1] : t.s <= a /\ b <= t.e) <=> Joined(C[1], a, b)
    BY <1>1, <2>2
  <2>5. (\A i \in 1..n : Joined(C[i], a, b)) <=> Joined(C[1], a, b)
    BY <2>2
  <2> QED BY <2>1, <2>3, <2>4, <2>5
<1>3. CASE n # 1
  <2> DEFINE S == {from(i) : i \in 1..n}
             G == UNION {Gaps(tlns[i]) : i \in 1..n}
             start == Max(S)
             end == EarliestEnd(tlns)
  <2>1. MergeTimelines(tlns) = WithinRange(G, start, end)
    <3>1. Len(tlns) # 0 /\ Len(tlns) # 1
      BY <1>3
    <3> QED BY <3>1 DEF MergeTimelines
  <2>2. 1 \in 1..n
    BY <1>3
  <2>3. start \in S /\ start \in Nat /\ 1 <= start /\ \A i \in 1..n : from(i) <= start
    <3> HIDE DEF from
    <3> DEFINE f == [i \in 1..n |-> from(i)]
    <3>1. f \in Surjection(1..n, S)
      BY DEF Surjection
    <3>2. IsFiniteSet(1..n)
      BY FS_Interval
    <3> HIDE DEF f
    <3>3. IsFiniteSet(S)
      <4> HIDE DEF S
      <4> QED BY <3>1, <3>2, FS_Surjection
    <3>4. S \subseteq Nat /\ from(1) \in S /\ \A x \in S : 1 <= x
      BY <1>1, <2>2
    <3>5. start \in S /\ \A x \in S : x <= start
      <4> HIDE DEF S
      <4> QED BY <3>3, <3>4, MaxIsLargest
    <3> QED BY <3>4, <3>5
  <2>4. (\E i \in 1..n : end = till(i)) /\ \A i \in 1..n : end <= till(i)
    <3>1. \A i \in 1..n : till(i) \in Nat \ {0}
      <4> HIDE DEF till
      <4> QED BY <1>1
    <3> QED BY <3>1, EarliestIsSmallest
  <2>5. PICK z \in 1..n : end = till(z)
    BY <2>4
  <2>6. end \in Nat
    <3> HIDE DEF till, end
    <3> QED BY <1>1, <2>5
  <2> HIDE DEF from, till, end, start
  <2>7. IsFiniteSet(G) /\ G \subseteq Spans /\ \A g \in G : g.s < g.e
    <3> DEFINE f == [i \in 1..n |-> Gaps(tlns[i])]
               X == {Gaps(tlns[i]) : i \in 1..n}
    <3>1. f \in Surjection(1..n, X)
      BY DEF Surjection
    <3>2. IsFiniteSet(1..n)
      BY FS_Interval
    <3> HIDE DEF f
    <3>3. IsFiniteSet(X)
      <4> HIDE DEF X
      <4> QED BY <3>1, <3>2, FS_Surjection
    <3>4. \A D \in X : IsFiniteSet(D) /\ D \subseteq Spans /\ \A g \in D : g.s < g.e
      BY <1>1, BreaksAreFinite
    <3> HIDE DEF X
    <3>5. IsFiniteSet(UNION X)
      BY <3>3, <3>4, FS_UNION
    <3>6. UNION X \subseteq Spans /\ \A g \in UNION X : g.s < g.e
      BY <3>4
    <3> QED BY <3>5, <3>6 DEF X
  <2>8. (\A g \in G : Avoids(g, a, b)) <=> \A i \in 1..n : \A g \in Breaks(C[i]) : Avoids(g, a, b)
    BY <1>1
  <2> HIDE DEF G
  <2>9. /\ \A t \in WithinRange(G, start, end) : t \in Spans /\ start <= t.s
        /\ (\E t \in WithinRange(G, start, end) : t.s <= a /\ b <= t.e)
             <=> start <= a /\ b <= end /\ \A g \in G : Avoids(g, a, b)
    BY <2>3, <2>6, <2>7, WithinAvoids
  <2>10. start <= a <=> \A i \in 1..n : from(i) <= a
    <3>1. PICK y \in 1..n : start = from(y)
      BY <2>3
    <3> QED BY <1>1, <2>3, <3>1
  <2>11. b <= end <=> \A i \in 1..n : b <= till(i)
    BY <1>1, <2>4, <2>5, <2>6
  <2>12. (\E t \in WithinRange(G, start, end) : t.s <= a /\ b <= t.e) <=> \A i \in 1..n : Joined(C[i], a, b)
    <3>1. \A i \in 1..n : Joined(C[i], a, b) <=> from(i) <= a /\ b <= till(i) /\ \A g \in Breaks(C[i]) : Avoids(g, a, b)
      BY <1>1 DEF Joined
    <3> QED BY <2>8, <2>9, <2>10, <2>11, <3>1
  <2>13. \A t \in WithinRange(G, start, end) : t \in Spans /\ 1 <= t.s
    <3>1. \A t \in Spans : start <= t.s => 1 <= t.s
      BY <2>3 DEF Spans
    <3> QED BY <2>9, <3>1
  <2> QED BY <2>1, <2>12, <2>13
<1> QED BY <1>2, <1>3

-----------------------------------------------------------------------------
(* What is shown and what a restore accepts.                                 *)

LEMMA ChunksAreARow ==
  ASSUME ArchiveInv, InRow, NEW r \in RS, chunks[r] # {}
  PROVE  IsRow(chunks[r]) /\ \A c \in chunks[r] : c.e >= 0 /\ c.s <= MaxTime /\ c.s <= now
<1>1. chunks[r] \subseteq Spans /\ IsFiniteSet(chunks[r])
  BY ChunksAreFinite
<1>2. now \in Nat /\ MaxTime \in Nat /\ now <= MaxTime
  BY Assumptions DEF ArchiveInv, TypeOK, Time, MaxTime
<1>3. \A c \in chunks[r] : c.s \in Nat /\ c.e \in Nat /\ 1 <= c.s /\ c.s < c.e /\ c.e <= now
  BY DEF ArchiveInv, TypeOK, Time, MaxTime
<1>4. \A c \in chunks[r] : c.e >= 0 /\ c.s <= MaxTime /\ c.s <= now
  BY <1>2, <1>3
<1>5. Row(chunks[r])
  BY DEF InRow
<1> QED BY <1>1, <1>3, <1>4, <1>5 DEF IsRow

LEMMA TimelinesAreAccepted == ArchiveInv /\ InRow => TimelinesAgree
<1> SUFFICES ASSUME ArchiveInv, InRow, \A r \in RS : chunks[r] # {}
             PROVE  \A a, b \in Time \ {0} :
                      a < b => ((\E t \in AllTimelines(chunks, 0, MaxTime) : t.s <= a /\ b <= t.e)
                                  <=> \A r \in RS : Accepts(chunks[r], a, b))
  BY DEF TimelinesAgree
<1>1. \A r \in RS : IsRow(chunks[r]) /\ {c \in chunks[r] : c.e >= 0 /\ c.s <= MaxTime} = chunks[r]
  BY ChunksAreARow
<1> DEFINE n == plan.replsets
           tlns == [r \in RS |-> Gettimelines(chunks[r])]
<1>2. AllTimelines(chunks, 0, MaxTime) = MergeTimelines(tlns)
  <2>1. [r \in RS |-> Gettimelines({c \in chunks[r] : c.e >= 0 /\ c.s <= MaxTime})] = tlns
    BY <1>1
  <2> QED BY <2>1 DEF AllTimelines
<1>3. n \in Nat /\ n # 0 /\ RS = 1..n
  BY Assumptions DEF ArchiveInv, RS
<1>4. DOMAIN tlns = 1..n /\ Len(tlns) = n /\ \A i \in 1..n : tlns[i] = Gettimelines(chunks[i])
  <2>1. DOMAIN tlns = 1..n /\ \A i \in 1..n : tlns[i] = Gettimelines(chunks[i])
    BY <1>3
  <2>2. tlns = [i \in 1..n |-> tlns[i]]
    BY <1>3
  <2> HIDE DEF tlns, n
  <2>3. tlns \in Seq({tlns[i] : i \in 1..n})
    BY <1>3, <2>2
  <2> QED BY <1>3, <2>1, <2>3
<1> HIDE DEF tlns, n
<1> SUFFICES ASSUME NEW a \in Time \ {0}, NEW b \in Time \ {0}, a < b
             PROVE  (\E t \in MergeTimelines(tlns) : t.s <= a /\ b <= t.e) <=> \A r \in RS : Accepts(chunks[r], a, b)
  BY <1>2
<1>5. a \in Nat /\ b \in Nat
  BY Assumptions DEF ArchiveInv, Time, MaxTime
<1>6. \A i \in 1..n : IsRow(chunks[i]) /\ tlns[i] = Gettimelines(chunks[i])
  BY <1>1, <1>3, <1>4
<1>7. (\E t \in MergeTimelines(tlns) : t.s <= a /\ b <= t.e) <=> \A i \in 1..n : Joined(chunks[i], a, b)
  BY <1>3, <1>4, <1>5, <1>6, MergedIfJoined
<1>8. \A i \in 1..n : Joined(chunks[i], a, b) <=> Accepts(chunks[i], a, b)
  BY <1>5, <1>6, AcceptedIfJoined
<1> QED BY <1>3, <1>7, <1>8

\* A restore accepts what is shown.
LEMMA ValidTimelinesAreAccepted ==
  ASSUME ArchiveInv, InRow, \A r \in RS : chunks[r] # {}, NEW tl \in ValidTimelines
  PROVE  /\ tl \in Spans /\ 1 <= tl.s
         /\ \A a, b \in Nat : a < b /\ tl.s <= a /\ b <= tl.e => \A r \in RS : Accepts(chunks[r], a, b)
<1> DEFINE n == Cardinality(RS)
           rs == SetToSeq(RS)
           tlns == [i \in 1..n |-> Gettimelines(chunks[rs[i]])]
<1>1. IsFiniteSet(RS) /\ RS # {}
  <2>1. plan.replsets \in Nat \ {0}
    BY Assumptions DEF ArchiveInv
  <2>2. 1 \in RS
    BY <2>1 DEF RS
  <2>3. IsFiniteSet(1..plan.replsets)
    BY <2>1, FS_Interval
  <2> QED BY <2>2, <2>3 DEF RS
<1>2. n \in Nat /\ n # 0
  BY <1>1, FS_CardinalityType, FS_EmptySet
<1>3. \A r \in RS : IsRow(chunks[r]) /\ {c \in chunks[r] : c.s <= now} = chunks[r]
  BY ChunksAreARow
<1>4. rs \in [1..n -> RS] /\ \A r \in RS : \E i \in 1..n : rs[i] = r
  <2>1. \E f \in [1..n -> RS] : IsInjective(f)
    <3>1. ExistsBijection(1..n, RS)
      BY <1>1, FS_CardinalityType
    <3>2. PICK f \in Bijection(1..n, RS) : TRUE
      BY <3>1 DEF ExistsBijection
    <3>3. f \in [1..n -> RS] /\ \A i, j \in 1..n : f[i] = f[j] => i = j
      BY <3>2 DEF Bijection, Injection, IsInjective
    <3> HIDE DEF n
    <3>4. IsInjective(f)
      BY <3>3 DEF IsInjective
    <3> QED BY <3>3, <3>4
  <2>2. rs \in [1..n -> RS] /\ IsInjective(rs)
    BY <2>1 DEF SetToSeq
  <2> HIDE DEF rs
  <2>3. rs \in Injection(1..n, RS)
    BY <2>2 DEF Injection, IsInjective
  <2>4. IsFiniteSet(1..n) /\ Cardinality(1..n) = n
    <3>1. IsFiniteSet(1..n) /\ Cardinality(1..n) = IF 1 > n THEN 0 ELSE n - 1 + 1
      BY <1>2, FS_Interval
    <3> HIDE DEF n
    <3> QED BY <1>2, <3>1
  <2>5. rs \in Surjection(1..n, RS)
    BY <1>1, <2>3, <2>4, FS_Injection
  <2> QED BY <2>5 DEF Surjection
<1>5. ValidTimelines = MergeTimelines(tlns)
  <2>1. {r \in RS : chunks[r] # {}} = RS
    OBVIOUS
  <2>2. ValidTimelines = MergeTimelines([i \in 1..n |-> Gettimelines({c \in chunks[rs[i]] : c.s <= now})])
    BY <2>1 DEF ValidTimelines
  <2> HIDE DEF n, rs
  <2>3. \A i \in 1..n : {c \in chunks[rs[i]] : c.s <= now} = chunks[rs[i]]
    BY <1>3, <1>4
  <2>4. [i \in 1..n |-> Gettimelines({c \in chunks[rs[i]] : c.s <= now})] = tlns
    BY <2>3
  <2> QED BY <2>2, <2>4
<1> HIDE DEF n, rs
<1>6. DOMAIN tlns = 1..n /\ Len(tlns) = n /\ \A i \in 1..n : tlns[i] = Gettimelines(chunks[rs[i]])
  <2>1. tlns = [i \in 1..n |-> tlns[i]] /\ \A i \in 1..n : tlns[i] = Gettimelines(chunks[rs[i]])
    OBVIOUS
  <2> HIDE DEF tlns
  <2>2. tlns \in Seq({tlns[i] : i \in 1..n})
    BY <1>2, <2>1
  <2> QED BY <1>2, <2>1, <2>2
<1> HIDE DEF tlns
<1> DEFINE C == [i \in 1..n |-> chunks[rs[i]]]
<1>7. \A i \in 1..n : IsRow(C[i]) /\ tlns[i] = Gettimelines(C[i]) /\ C[i] = chunks[rs[i]]
  <2>1. \A i \in 1..n : C[i] = chunks[rs[i]]
    OBVIOUS
  <2> HIDE DEF C
  <2> QED BY <1>3, <1>4, <1>6, <2>1
<1> HIDE DEF C
<1>8. ASSUME NEW a \in Nat, NEW b \in Nat, a < b
      PROVE  /\ tl \in Spans /\ 1 <= tl.s
             /\ tl.s <= a /\ b <= tl.e => \A i \in 1..n : Joined(C[i], a, b)
  <2>1. /\ \A t \in MergeTimelines(tlns) : t \in Spans /\ 1 <= t.s
        /\ (\E t \in MergeTimelines(tlns) : t.s <= a /\ b <= t.e) <=> \A i \in 1..n : Joined(C[i], a, b)
    BY <1>2, <1>6, <1>7, <1>8, MergedIfJoined
  <2> QED BY <1>5, <2>1
<1>9. tl \in Spans /\ 1 <= tl.s
  <2>1. 0 \in Nat /\ 1 \in Nat /\ 0 < 1
    OBVIOUS
  <2> QED BY <1>8, <2>1
<1>10. ASSUME NEW a \in Nat, NEW b \in Nat, a < b, tl.s <= a, b <= tl.e, NEW r \in RS PROVE Accepts(chunks[r], a, b)
  <2>1. PICK i \in 1..n : rs[i] = r
    BY <1>4
  <2>2. Joined(C[i], a, b)
    BY <1>8, <1>10
  <2>3. Accepts(C[i], a, b)
    BY <1>7, <1>10, <2>2, AcceptedIfJoined
  <2> QED BY <1>7, <2>1, <2>3
<1> QED BY <1>9, <1>10

\* A last write that is shown is one of a backup.
LEMMA ShownFromBase ==
  ASSUME ArchiveInv, NEW tl, NEW lw \in {BaseOfList(tl), BaseOfStatus(tl)}, lw # 0
  PROVE  \E b \in Bases(bcps) : b.lw = lw
<1>1. \A b \in Bases(bcps) : b.start \in Nat /\ b.lw \in Nat
  BY Numbers DEF ArchiveInv, TypeOK, Bases
<1>2. CASE lw = BaseOfList(tl)
  <2> DEFINE B == {b \in Bases(bcps) : b.lw >= tl.s}
             T == {b.start : b \in B}
  <2>1. B # {} /\ lw = (CHOOSE b \in B : \A x \in B : b.start <= x.start).lw
    BY <1>2 DEF BaseOfList
  <2>2. T \subseteq Nat /\ T # {}
    BY <1>1, <2>1
  <2>3. \E m \in T : \A k \in T : m <= k
    <3> HIDE DEF T
    <3> QED BY <2>2, Smallest
  <2>4. \E b \in B : \A x \in B : b.start <= x.start
    BY <2>3
  <2>5. (CHOOSE b \in B : \A x \in B : b.start <= x.start) \in B
    <3> HIDE DEF B
    <3> QED BY <2>4
  <2> QED BY <2>1, <2>5
<1>3. CASE lw = BaseOfStatus(tl)
  <2> DEFINE B == {b \in Bases(bcps) : b.lw >= tl.s /\ b.start <= tl.e}
             T == {b.lw : b \in B}
  <2>1. B # {} /\ lw = Min(T)
    BY <1>3 DEF BaseOfStatus
  <2>2. T \subseteq Nat /\ T # {}
    BY <1>1, <2>1
  <2> HIDE DEF T
  <2>3. lw \in T
    BY <2>1, <2>2, Smallest DEF Min
  <2> QED BY <2>3 DEF T
<1> QED BY <1>2, <1>3

LEMMA ShownAreReachable == ArchiveInv /\ InRow => ShownIsRestorable
<1> SUFFICES ASSUME ArchiveInv, InRow, \A r \in RS : chunks[r] # {},
                    NEW x \in ListedRanges \cup {y \in StatusRanges : y.base}, NEW t \in x.s..x.e
             PROVE  Reachable(bcps, chunks, t)
  BY DEF ShownIsRestorable
<1>1. PICK tl \in ValidTimelines :
         \E lw \in {BaseOfList(tl), BaseOfStatus(tl)} : x \in SplitByBaseSnapshot(lw, tl) /\ x.base
  BY DEF ListedRanges, StatusRanges
<1>2. PICK lw \in {BaseOfList(tl), BaseOfStatus(tl)} : x \in SplitByBaseSnapshot(lw, tl) /\ x.base
  BY <1>1
<1>3. /\ tl \in Spans /\ 1 <= tl.s
      /\ \A a, b \in Nat : a < b /\ tl.s <= a /\ b <= tl.e => \A r \in RS : Accepts(chunks[r], a, b)
  BY ValidTimelinesAreAccepted
<1>4. tl.s \in Nat /\ tl.e \in Nat
  BY <1>3 DEF Spans
<1>5. x = [s |-> lw + 1, e |-> tl.e, base |-> TRUE] /\ ~(lw < tl.s \/ lw > tl.e)
  <2>1. x.base /\ x \in IF lw < tl.s \/ lw > tl.e THEN {[s |-> tl.s, e |-> tl.e, base |-> FALSE]}
                         ELSE {y \in {[s |-> tl.s, e |-> lw, base |-> FALSE]} : lw > tl.s}
                                \cup {y \in {[s |-> lw + 1, e |-> tl.e, base |-> TRUE]} : lw < tl.e}
    BY <1>2 DEF SplitByBaseSnapshot
  <2>2. x # [s |-> tl.s, e |-> tl.e, base |-> FALSE] /\ x # [s |-> tl.s, e |-> lw, base |-> FALSE]
    BY <2>1
  <2> QED BY <2>1, <2>2
<1>6. lw # 0
  BY <1>3, <1>4, <1>5
<1>7. PICK b \in Bases(bcps) : b.lw = lw
  BY <1>2, <1>6, ShownFromBase
<1>8. lw \in Nat
  BY <1>7, Numbers DEF ArchiveInv, TypeOK, Bases
<1>9. Complete(bcps, b)
  BY WholeIsComplete DEF ArchiveInv, TypeOK
<1>10. t \in Nat /\ lw < t /\ tl.s <= lw /\ t <= tl.e
  BY <1>4, <1>5, <1>8
<1>11. \A r \in RS : Accepts(chunks[r], b.lw, t)
  BY <1>3, <1>7, <1>8, <1>10
<1> QED BY <1>7, <1>9, <1>10, <1>11 DEF Reachable

-----------------------------------------------------------------------------
(* The theorems.                                                             *)

LEMMA ArchiveInit == Init => ArchiveInv
<1> SUFFICES ASSUME Init PROVE ArchiveInv
  OBVIOUS
<1>1. /\ plan \in Plans /\ now = 1 /\ bcps = {} /\ chunks = [r \in RS |-> {}] /\ pitr = "off"
      /\ lastTS = [r \in RS |-> 0] /\ uploaded = [r \in RS |-> FALSE] /\ oldest = 1 /\ restored = 0 /\ fell = FALSE
  BY DEF Init
<1>2. MaxTime \in Nat \ {0}
  BY <1>1, Assumptions DEF MaxTime
<1>3. TypeOK
  <2>1. now \in Time /\ oldest \in 1..now /\ restored \in 0..now /\ fell \in BOOLEAN
    <3>1. fell \in BOOLEAN
      BY <1>1
    <3>2. now \in Time /\ oldest \in 1..now /\ restored \in 0..now
      <4>1. now = 1 /\ oldest = 1 /\ restored = 0
        BY <1>1
      <4> QED BY <4>1, <1>2 DEF Time
    <3> QED BY <3>1, <3>2
  <2>2. chunks \in [RS -> SUBSET [s : Time \ {0}, e : Time \ {0}]] /\ \A r \in RS : \A c \in chunks[r] : c.s < c.e /\ c.e <= now
    <3>1. \A r \in RS : chunks[r] = {}
      BY <1>1
    <3> QED BY <1>1, <3>1
  <2>3. lastTS \in [RS -> 0..now] /\ uploaded \in [RS -> BOOLEAN]
    BY <1>1
  <2> QED BY <1>1, <2>1, <2>2, <2>3 DEF TypeOK
<1>4. BackupsInTime /\ Whole(bcps) /\ NoneBetween
  BY <1>1, FS_EmptySet DEF BackupsInTime, Whole, NoneBetween, Increments
<1>5. SlicedAfterRestore
  BY <1>1 DEF SlicedAfterRestore
<1> QED BY <1>1, <1>3, <1>4, <1>5 DEF ArchiveInv

LEMMA ArchiveStep == ArchiveInv /\ [LifecycleNext /\ UNCHANGED plan]_vars => ArchiveInv'
<1> SUFFICES ASSUME ArchiveInv, [LifecycleNext /\ UNCHANGED plan]_vars PROVE ArchiveInv'
  OBVIOUS
<1>1. CASE UNCHANGED vars
  <2>1. SlicersStep /\ bcps' = bcps
    BY <1>1, TypesOfSlicing DEF vars, SlicersStep
  <2> QED BY <2>1, SlicersStepKeeps
<1>2. SUFFICES ASSUME LifecycleNext, plan' = plan PROVE ArchiveInv'
  BY <1>1
<1>3. ASSUME NEW r \in RS, Catchup(r) PROVE ArchiveInv'
  BY <1>2, <1>3, CatchupKeeps
<1>4. ASSUME NEW r \in RS, OplogOnlyCatchup(r) PROVE ArchiveInv'
  BY <1>2, <1>4, OplogOnlyCatchupKeeps
<1>5. ASSUME NEW r \in RS, Stream(r) PROVE ArchiveInv'
  BY <1>2, <1>5, StreamKeeps
<1>6. ASSUME NEW r \in RS, SliceError(r) PROVE ArchiveInv'
  BY <1>2, <1>6, SliceErrorKeeps
<1>7. ASSUME NEW mode \in plan.modes, SetPitr(mode) PROVE ArchiveInv'
  BY <1>2, <1>7, SetPitrKeeps
<1>8. CASE Tick \/ Truncate
  BY <1>2, <1>8, TimeKeeps
<1>9. CASE Restore
  BY <1>2, <1>9, RestoreKeeps
<1>10. ASSUME NEW type \in Types, NEW done \in BOOLEAN, LogicalBackup(type, done) PROVE ArchiveInv'
  BY <1>2, <1>10, LogicalBackupKeeps
<1>11. ASSUME NEW type \in Types, NEW done \in BOOLEAN, NEW base \in BOOLEAN, PhysicalBackup(type, done, base)
       PROVE  ArchiveInv'
  BY <1>2, <1>11, PhysicalBackupKeeps
<1>12. ASSUME NEW b \in bcps, DeleteBackup(b) PROVE ArchiveInv'
  BY <1>2, <1>12, DeleteKeeps
<1>13. ASSUME NEW ts \in plan.deleteAt, Cleanup(ts) \/ DeletePITR(ts) PROVE ArchiveInv'
  BY <1>2, <1>13, CleanupKeepsInv
<1>14. ASSUME NEW ts \in plan.deleteAt, NEW type \in Types, DeleteBackupBefore(ts, {type}) PROVE ArchiveInv'
  BY <1>2, <1>14, CleanupKeepsInv
<1>15. ASSUME NEW purgeFailed \in BOOLEAN, Purge(purgeFailed) PROVE ArchiveInv'
  BY <1>2, <1>15, PurgeKeepsInv
<1> QED
  BY <1>2, <1>3, <1>4, <1>5, <1>6, <1>7, <1>8, <1>9, <1>10, <1>11, <1>12, <1>13, <1>14, <1>15 DEF LifecycleNext, Next

LEMMA ArchiveInvariant == LifecycleSpec => []ArchiveInv
<1>1. ArchiveInv /\ [LifecycleNext /\ UNCHANGED plan]_vars => ArchiveInv'
  BY ArchiveStep
<1> QED BY ArchiveInit, <1>1, PTL DEF LifecycleSpec

LEMMA RowInvariant == LifecycleSpec => []InRow
<1>1. Init => InRow
  BY DEF Init, InRow, Row
<1>2. ArchiveInv /\ InRow /\ [LifecycleNext /\ UNCHANGED plan]_vars => InRow'
  BY RowStep
<1> QED BY ArchiveInvariant, <1>1, <1>2, PTL DEF LifecycleSpec

\* What is stored has its types: no backup and no chunk ends in the future, whichever
\* way the clock, the slicers, the backups and the deletions take turns
\* (pbm/slicer, pbm/backup/delete.go, pbm/lifecycle).
THEOREM TypeCorrect == LifecycleSpec => []TypeOK
<1>1. ArchiveInv => TypeOK
  BY DEF ArchiveInv
<1> QED BY ArchiveInvariant, <1>1, PTL

\* No increment that is stored has lost the backup it comes from, whatever deletions of
\* single backups and of chains, cleanups up to any time and lifecycle purges have run
\* (CanDeleteIncrementalChain and extractLastIncrementalChain of pbm/backup/delete.go,
\* cleanupLifecycle of pbm/lifecycle/manager.go), for all deployments and policies.
THEOREM ChainsStayComplete == LifecycleSpec => []ChainsComplete
<1>1. ArchiveInv => ChainsComplete
  <2> SUFFICES ASSUME ArchiveInv, NEW b \in bcps, b.done, b.src # 0 PROVE \E x \in bcps : x.done /\ x.start = b.src
    BY DEF ChainsComplete
  <2>1. b \in Increments(bcps)
    BY DEF ArchiveInv, BackupsInTime, Increments
  <2>2. PICK x \in Increments(bcps) : x.start = b.src
    BY <2>1 DEF ArchiveInv, Whole
  <2> QED BY <2>2 DEF Increments
<1> QED BY ArchiveInvariant, <1>1, PTL

\* No chunk of any replica set spans a restore, as long as OplogOnlyCatchup has not gone
\* on from an older chunk: Catchup's test of the last restore, the backups it starts from
\* and the stop of the slicers by the restore are enough (pbm/slicer/slicer.go,
\* cmd/pbm-agent/restore.go).
THEOREM NoChunkSpansRestore == LifecycleSpec => []NoChunkAcrossRestore
<1>1. ArchiveInv => NoChunkAcrossRestore
  <2> SUFFICES ASSUME ArchiveInv, ~fell, restored > 0, NEW q \in RS, NEW c \in chunks[q]
               PROVE  ~(c.s < restored /\ restored < c.e)
    BY DEF NoChunkAcrossRestore
  <2>1. c.e <= restored \/ restored <= c.s
    BY DEF ArchiveInv, SlicedAfterRestore
  <2>2. c.s \in Nat /\ c.e \in Nat /\ restored \in Nat
    BY TypesOfSlicing
  <2> QED BY <2>1, <2>2
<1> QED BY ArchiveInvariant, <1>1, PTL

\* A cleanup up to a time takes no later point away that could be restored from a backup of
\* before: the base that it keeps and the chunks from its end on are enough, for every
\* replica set (MakeCleanupInfo, HasSingleTimelineToCover).
THEOREM CleanupsKeepRestorable == LifecycleSpec => CleanupKeeps
<1>1. ArchiveInv /\ [LifecycleNext /\ UNCHANGED plan]_vars =>
        [\A ts \in plan.deleteAt :
           <<bcps, chunks>>' # <<bcps, chunks>> /\ now' = now /\ Cleanup(ts) =>
             \A t \in ts..now :
               (\E b \in Bases(bcps) :
                  b.lw <= ts /\ Reachable({x \in bcps : x = b \/ x \in Ancestors(bcps, b)}, chunks, t))
                 => Reachable(bcps', chunks', t)]_vars
  BY CleanupLeavesReachable
<1> QED BY ArchiveInvariant, <1>1, PTL DEF LifecycleSpec, CleanupKeeps

\* A lifecycle purge deletes no backup that the policy keeps, whatever comes from it or it
\* comes from, and leaves as many complete backups to restore from as the policy demands
\* (BuildReport, applyIncrementalChainRules, applyMinKeepGuard, cleanupLifecycle).
THEOREM PurgesKeepPolicy == LifecycleSpec => PurgeKeeps
<1>1. ArchiveInv /\ [LifecycleNext /\ UNCHANGED plan]_vars =>
        [\A purgeFailed \in BOOLEAN :
           bcps' # bcps /\ now' = now /\ Purge(purgeFailed) =>
             /\ KeptByPolicy(purgeFailed) \subseteq bcps'
             /\ Cardinality({b \in Bases(bcps') : Complete(bcps', b)}) >= plan.minKeep]_vars
  <2> SUFFICES ASSUME ArchiveInv, LifecycleNext /\ UNCHANGED plan, NEW purgeFailed \in BOOLEAN, Purge(purgeFailed)
               PROVE  /\ KeptByPolicy(purgeFailed) \subseteq bcps'
                      /\ Cardinality({b \in Bases(bcps') : Complete(bcps', b)}) >= plan.minKeep
    OBVIOUS
  <2> QED BY PurgeLeavesKept
<1> QED BY ArchiveInvariant, <1>1, PTL DEF LifecycleSpec, PurgeKeeps

\* A range lies within one of the timelines merged from all replica sets exactly if a restore
\* accepts the chunks of every replica set for it, whatever slicers, restores, cleanups and
\* deletions have made of them: that the chunks of a replica set start and end in the same
\* order is enough (gettimelines and MergeTimelines of pbm/oplog/chunk.go, chunks of
\* pbm/restore/restore.go).
THEOREM TimelinesAreWhatRestoresAccept == LifecycleSpec => []TimelinesAgree
BY ArchiveInvariant, RowInvariant, TimelinesAreAccepted, PTL

\* Every point of a range that pbm list or pbm status shows with a base can be restored from
\* that base (splitByBaseSnapshot, getBaseSnapshotLastWrite, getPITRranges).
THEOREM ShownRangesAreRestorable == LifecycleSpec => []ShownIsRestorable
BY ArchiveInvariant, RowInvariant, ShownAreReachable, PTL

\* A deletion of one backup removes a backup that is stored, or the chain of its
\* increments, and leaves the other increments whole; this holds for each deletion of a
\* lifecycle purge by itself, too, so that one which stops half-way has broken no chain
\* (deleteBackup, DeleteBackup of pbm/backup/delete.go).
THEOREM EachDeletionKeepsChains ==
  ASSUME NEW B, Whole(B), NEW C, NEW b PROVE AfterDelete(B, C, b) \subseteq B /\ Whole(AfterDelete(B, C, b))
BY DeletionKeepsWhole
=============================================================================

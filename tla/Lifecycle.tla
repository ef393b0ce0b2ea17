------------------------------ MODULE Lifecycle ------------------------------
(***************************************************************************)
(* The lifecycle policy (pbm/lifecycle/manager.go): which backups are kept *)
(* and which of them cleanup deletes, one after another, as DeleteBackup   *)
(* would.  Of the two strategies this is the rolling one; weeks and months *)
(* are two bucket widths.                                                  *)
(***************************************************************************)
EXTENDS Archive

-----------------------------------------------------------------------------
(* evaluateRetentionPolicy.                                                  *)

Recent(b) == plan.daily > 0 /\ b.start >= now - plan.daily

\* findBestCandidate of each bucket and type.
BestOfBuckets ==
  LET in(w, i, type) == {b \in bcps : /\ b.done /\ b.type = type /\ b.start < now
                                      /\ (now - b.start) \div w = i}
      buckets == UNION {{in(k[1], i, type) : i \in 0..(k[2] - 1), type \in Types \ {"selective"}} :
                       k \in plan.buckets}
  IN {Highest(C) : C \in buckets \ {{}}}

KeptByPolicy(purgeFailed) ==
  {b \in bcps :
     \/ b.type = "selective" \/ b.start >= now
     \/ ~b.done /\ (~purgeFailed \/ Recent(b))
     \/ b.done /\ Recent(b)} \cup BestOfBuckets

-----------------------------------------------------------------------------
(* What is kept for the sake of others. K is what is kept already.           *)

\* Faulty variant: what is kept is not made whole.
WithoutChains(K) == {b \in bcps : b \in K}

\* applyIncrementalChainRules: a chain is kept whole, and what has lost its
\* source is kept.
WithChains(K) ==
  LET incs == {b \in bcps : b.type = "incremental"}
      root(b) == {x \in Ancestors(incs, b) : x.src = 0}
      kept == {root(x) : x \in K \cap incs}
  IN K \cup {b \in incs : root(b) \in kept \cup {{}}}

Targets(K) == {b \in bcps \ K : b.type # "incremental" \/ b.src = 0}

\* applyPITRDeleteChecks: what DeleteBackup would refuse.
WithRefused(K) ==
  LET refused == {b \in Targets(K) : ~CanDelete(bcps, chunks, b)}
      anchor(b) == IF b.type # "incremental" THEN b
                   ELSE Newest({b} \cup {x \in Chain(bcps, b) : x.done})
  IN IF refused = {} THEN K ELSE WithChains(K \cup {anchor(b) : b \in refused})

\* applyPITRProtection: all deleted together, they may leave the chunks without a
\* base. The latest ones stay then.
WithPITRBase(K) ==
  LET purged == Bases(bcps \ K)
      lw == Highest(purged).lw
      latest == {b \in purged : b.lw = lw}
      before == Max({0} \cup {b.lw : b \in {x \in Bases(K) : x.lw < lw}})
      tl == AllTimelines(chunks, before, lw)
  IN IF purged = {} \/ (\E b \in Bases(K) : b.lw > lw) THEN K
     ELSE IF Cardinality(tl) = 1 /\ \A t \in tl : before < t.s THEN WithChains(K \cup latest) ELSE K

\* BuildReport: a later rule is asked only if an earlier one has left something to delete.
Protected(K) == IF Targets(K) = {} THEN K ELSE WithPITRBase(K)
Unrefused(K) == IF pitr # "on" \/ Targets(K) = {} THEN K ELSE Protected(WithRefused(K))

Kept(purgeFailed) == Unrefused(WithChains(KeptByPolicy(purgeFailed)))

\* countKeptSuccessfulRestorePoints.
RestorePoints(K) ==
  {b \in K : /\ IsValidBase(b)
             /\ b.type = "incremental" => \E x \in Ancestors(Increments(bcps), b) : x.src = 0}

\* sortDeleteTargets: the oldest first, by the last write of the whole chain.
Ordered(T) ==
  LET at(b) == Max({0} \cup {x.lw : x \in {y \in Chain(bcps, b) : y.done}})
      Before(x, y) == at(x) < at(y) \/ (at(x) = at(y) /\ x.start < y.start)
  IN [i \in 1..Cardinality(T) |-> CHOOSE x \in T : Cardinality({y \in T : Before(y, x)}) = i - 1]

\* BuildReport and cleanupLifecycle.
Purge(purgeFailed) ==
  \E K \in {Kept(purgeFailed)} :
    LET targets == Ordered(Targets(K))
        left[i \in 0..Cardinality(Targets(K))] ==
          IF i = 0 THEN bcps ELSE AfterDelete(left[i - 1], chunks, targets[i])
    IN /\ plan.daily > 0 \/ plan.buckets # {}
       /\ plan.minKeep > 0 => Cardinality(RestorePoints(K)) >= plan.minKeep
       /\ bcps' = left[Cardinality(Targets(K))]
       /\ UNCHANGED <<now, chunks, pitr, lastTS, uploaded, oldest, restored, fell>>

-----------------------------------------------------------------------------
LifecycleNext == Next \/ \E purgeFailed \in BOOLEAN : Purge(purgeFailed)

LifecycleSpec == Init /\ [][LifecycleNext /\ UNCHANGED plan]_vars

-----------------------------------------------------------------------------
\* Lifecycle deletes nothing that its policy says to keep, and leaves at least
\* minKeep backups that can be restored, if it deletes anything at all
\* (applyIncrementalChainRules, applyMinKeepGuard, sortDeleteTargets).
PurgeKeeps ==
  [][\A purgeFailed \in BOOLEAN :
       bcps' # bcps /\ now' = now /\ Purge(purgeFailed) =>
         /\ KeptByPolicy(purgeFailed) \subseteq bcps'
         /\ Cardinality({b \in Bases(bcps') : Complete(bcps', b)}) >= plan.minKeep]_vars
=============================================================================

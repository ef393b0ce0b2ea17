----------------------------- MODULE SourceData -----------------------------
(***************************************************************************)
(* The data of one replica set, as a backup finds it and a restore makes   *)
(* it: collections with documents and indexes, and the operations that     *)
(* mongod writes to its oplog.  What mongod does is external: it is        *)
(* modelled from how pbm/archive and pbm/oplog use it.                     *)
(*                                                                         *)
(* A database is a function from UUIDs to collections.                     *)
(***************************************************************************)
EXTENDS Naturals, Sequences, FiniteSets, TLC

LOCAL INSTANCE Functions

EmptyFunction == [x \in {} |-> 0]

Without(f, S) == Restrict(f, DOMAIN f \ S)

\* building: indexes that are listed but not there yet.
Coll(n) == [name |-> n, docs |-> EmptyFunction, idx |-> {}, building |-> {}]

Named(d, n) == {u \in DOMAIN d : d[u].name = n}

\* An entry of the oplog. arg: of "i" and "u" the document's id and value, of "d" its
\* id, of "renameCollection" the new name, of the index operations the index. "diff" is
\* an update with the fields that change only.
Op(op, d, u, arg) == [op |-> op, name |-> d[u].name, ui |-> u, arg |-> arg]

IndexOps == {"createIndexes", "dropIndexes", "startIndexBuild", "commitIndexBuild", "abortIndexBuild"}

\* What the operation does to a collection that is there.
Exec(d, o) ==
  CASE o.op \in {"i", "u"} -> [d EXCEPT ![o.ui].docs = (o.arg[1] :> o.arg[2]) @@ @]
    [] o.op = "diff" -> [d EXCEPT ![o.ui].docs[o.arg[1]] = o.arg[2] @@ @]
    [] o.op = "d" -> [d EXCEPT ![o.ui].docs = Without(@, {o.arg})]
    [] o.op = "create" -> (o.ui :> Coll(o.name)) @@ d
    [] o.op = "drop" -> Without(d, {o.ui})
    [] o.op = "renameCollection" -> [Without(d, Named(d, o.arg) \ {o.ui}) EXCEPT ![o.ui].name = o.arg]
    [] o.op = "startIndexBuild" -> [d EXCEPT ![o.ui].building = @ \cup {o.arg}]
    [] o.op = "abortIndexBuild" -> [d EXCEPT ![o.ui].building = @ \ {o.arg}]
    [] o.op = "dropIndexes" -> [d EXCEPT ![o.ui].idx = @ \ {o.arg}]
    [] OTHER -> [d EXCEPT ![o.ui].idx = @ \cup {o.arg}, ![o.ui].building = @ \ {o.arg}]

\* In place of a database.
Failed == "failed" :> "failed"

\* What the applyOps command may make of it. Without its collection an operation
\* fails or is ignored, and so is an update without its document, which may also
\* insert what it has of it. A collection that has the name of a new one gives it up, or is the one.
ApplyOps(d, o) ==
  IF o.op = "create"
    THEN LET held == Named(d, o.name)
             named(u) == IF u \in held THEN [d[u] EXCEPT !.name = "away"] ELSE d[u]
         IN IF o.ui \in held THEN {d, Failed}
            ELSE {Exec([u \in DOMAIN d |-> named(u)], o)} \cup {Failed : u \in held}
  ELSE IF o.ui \notin DOMAIN d THEN IF o.op = "drop" THEN {d} ELSE {d, Failed}
  ELSE IF o.op \in {"u", "diff"} /\ o.arg[1] \notin DOMAIN d[o.ui].docs
    THEN {d, Exec(d, [o EXCEPT !.op = "u"]), Failed}
  ELSE {Exec(d, o)}
=============================================================================

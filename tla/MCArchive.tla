------------------------------ MODULE MCArchive ------------------------------
(***************************************************************************)
(* Physical backups of two replica sets, whose timelines are merged; and   *)
(* incremental, logical and selective backups of one, with a lifecycle     *)
(* policy of one bucket width.                                             *)
(***************************************************************************)
EXTENDS Lifecycle

Merged == [replsets |-> 2, types |-> {"physical"}, modes |-> {"off", "on"}, deleteAt |-> {3},
           until |-> 4, backups |-> 2, daily |-> 0, buckets |-> {}, minKeep |-> 0]

Policy == [replsets |-> 1, types |-> {"incremental", "logical", "selective"}, modes |-> {"on", "oplogOnly"},
           deleteAt |-> {3}, until |-> 4, backups |-> 3, daily |-> 1, buckets |-> {<<2, 1>>}, minKeep |-> 1]

const_Plans == {Merged, Policy}

=============================================================================

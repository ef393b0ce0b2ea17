---------------------------- MODULE MCBackupData -----------------------------
(* Small plans of LogicalData and PhysicalData, each with its own kind of change. *)
EXTENDS BackupData

TwoDocs == [Coll("a") EXCEPT !.docs = 1 :> 1 @@ 2 :> 1]
Data == "u" :> TwoDocs

Plan == [init |-> Data, kinds |-> {"i", "u", "d"}, writes |-> 3, ids |-> {1, 2, 3}, lag |-> FALSE, users |-> FALSE,
         csrs |-> FALSE, shards |-> {"s"}, parallel |-> 2, nss |-> {}, sliceFails |-> FALSE, sel |-> {},
         clone |-> "", pitr |-> FALSE, sMap |-> EmptyFunction]

\* Documents; collections made and dropped; indexes; renamed collections.
Ddl == [Plan EXCEPT !.kinds = {"i", "create", "drop"}, !.ids = {1, 3}, !.lag = TRUE, !.pitr = TRUE]
Index == [Plan EXCEPT !.kinds = {"index", "drop"}, !.writes = 4]
Rename == [Plan EXCEPT !.kinds = {"rename", "u", "drop"}, !.writes = 4]
Selective == [Plan EXCEPT !.init = "b" :> OwnColl("b") @@ Data, !.kinds = {"i", "drop", "create"}, !.writes = 2,
                          !.sel = {"a"}]
Clone == [Plan EXCEPT !.kinds = {"i", "drop", "create", "index"}, !.clone = "a", !.ids = {1, 3}]
UsersPlan == [Plan EXCEPT !.lag = TRUE, !.users = TRUE, !.ids = {1, 2}, !.parallel = 1,
                 !.init = Users :> [Coll(Users) EXCEPT !.docs = 1 :> 1]
                          @@ TmpUUID :> [Coll(Tmp) EXCEPT !.docs = 1 :> 2]]
SelectiveUsers == [UsersPlan EXCEPT !.sel = {"a"}, !.writes = 2]

Routes == "databases" :> [Coll("databases") EXCEPT !.docs = 2 :> "s"]
          @@ "collections" :> [Coll("collections") EXCEPT !.docs = Sessions :> "S"]
          @@ "chunks" :> [Coll("chunks") EXCEPT !.docs = Sessions :> Chunk("S", "s")]
Config == [Plan EXCEPT !.init = Routes, !.csrs = TRUE, !.shards = {"s", "r"}, !.sMap = "s" :> "t"]

\* Two shards change names.
ConfigSwap == [Config EXCEPT !.sMap = "s" :> "r" @@ "r" :> "s", !.writes = 2]

ConfigSel == [Config EXCEPT !.sel = {2},
                            !.init = [Routes EXCEPT !["databases"].docs = 2 :> "s" @@ 3 :> "s",
                                                    !["collections"].docs = 2 :> "A" @@ 3 :> "B",
                                                    !["chunks"].docs = 2 :> Chunk("A", "s") @@ 3 :> Chunk("B", "r")],
                            !.writes = 2]
\* The backup is selective, too.
ConfigNss == [ConfigSel EXCEPT !.nss = {2}]
Pitr == [Plan EXCEPT !.kinds = {"rename", "u"}, !.pitr = TRUE, !.lag = TRUE, !.writes = 2, !.sliceFails = TRUE]

(* Two files of two blocks. *)

PhysPlan == [kinds |-> {"block", "grow"}, writes |-> 2, backups |-> 2, full |-> FALSE, csrs |-> TRUE,
             shards |-> "s" :> "s" @@ "t" :> "t", targets |-> "s" :> "s" @@ "t" :> "t", rsMap |-> EmptyFunction]
Full == [PhysPlan EXCEPT !.kinds = {"block", "drop"}, !.full = TRUE, !.backups = 1, !.csrs = FALSE]
Shrink == [PhysPlan EXCEPT !.kinds = {"cut", "drop"}]
CutAndGrown == [PhysPlan EXCEPT !.kinds = {"cut", "grow"}]
Increments == [PhysPlan EXCEPT !.kinds = {"block"}, !.backups = 3]

\* Shards whose names are not their replica sets' then, now, or change places.
Renames == {[PhysPlan EXCEPT !.kinds = {}, !.csrs = c, !.shards = x[1], !.targets = x[2], !.rsMap = x[3]] :
              c \in BOOLEAN,
              x \in {<<"s" :> "rs1" @@ "t" :> "rs2", "s" :> "rs1" @@ "t" :> "rs2", EmptyFunction>>,
                     <<"s" :> "rs1" @@ "t" :> "rs2", "t" :> "rs1" @@ "s" :> "rs2", EmptyFunction>>,
                     <<"s" :> "s" @@ "t" :> "t", "s" :> "s" @@ "t" :> "t", "s" :> "t" @@ "t" :> "s">>,
                     <<"s" :> "rs1" @@ "t" :> "t", "u" :> "u" @@ "v" :> "rs9", "rs1" :> "rs9" @@ "t" :> "u">>}}

const_PhysPlans == {PhysPlan, Full, Shrink, CutAndGrown, Increments} \cup Renames
const_FileNames == <<"f", "g">>

const_Plans == {Plan, Ddl, Index, Rename, Selective, Clone, UsersPlan, SelectiveUsers, Config, ConfigSwap, ConfigSel, ConfigNss, Pitr}
=============================================================================

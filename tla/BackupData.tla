----------------------------- MODULE BackupData -----------------------------
(***************************************************************************)
(* A backup of one replica set and its restore, logical or physical: what  *)
(* they have to do with each other is that either must bring the data of a *)
(* point in time back.                                                     *)
(***************************************************************************)
EXTENDS LogicalData, PhysicalData

NoPlan == [state |-> "none"]

\* phys = NoPlan: a logical backup.
LogicalDataInit ==
  /\ Init
  /\ phys = NoPlan /\ disk = EmptyFunction /\ written = 0 /\ known = EmptyFunction
  /\ cursor = None /\ backups = <<>> /\ restore = None /\ volume = None

PhysicalDataInit ==
  /\ PhysInit
  /\ plan = NoPlan /\ log = <<>> /\ db = EmptyFunction /\ node = EmptyFunction /\ applied = 0
  /\ step = "start" /\ first = 0 /\ files = EmptyFunction /\ saved = 0 /\ dumped = 0 /\ copied = 0
  /\ selector = {}
  /\ rstep = "begin" /\ until = 0 /\ pos = 0 /\ sessUUID = "" /\ target = EmptyFunction
  /\ catalog = EmptyFunction

DataNext ==
  \/ phys = NoPlan /\ Next /\ UNCHANGED physVars
  \/ phys # NoPlan /\ PhysNext /\ UNCHANGED vars

DataSpec == (LogicalDataInit \/ PhysicalDataInit) /\ [][DataNext]_<<vars, physVars>>
=============================================================================

----------------------------- MODULE SplitMerge -----------------------------
(***************************************************************************)
(* The middleware that splits a file into parts no larger than the storage *)
(* takes, and puts them together again                                     *)
(* (src/pbm/storage/split_merge_mw.go).  The parts are found by asking for *)
(* one after another, and by their sizes against the limit of the present  *)
(* configuration.                                                          *)
(***************************************************************************)
EXTENDS Integers, Sequences

CONSTANTS MaxSizes,  \* limits that are configured (maxObjSizeGB)
          FileSizes  \* sizes of files

ASSUME SizesAssumption ==
  /\ MaxSizes \subseteq Nat \ {0} /\ FileSizes \subseteq Nat
  /\ \E n \in FileSizes : \A m \in FileSizes : m <= n

VARIABLES maxObj, \* the limit
          parts,  \* the parts on the storage: their sizes
          sm,     \* what is done with the file: the part, and what is left to do
          saved,  \* the file: its size, and the limit it was saved under
          broken  \* the operation that was broken off

fileVars == <<maxObj, parts, sm, saved, broken>>

Absent == -1
Top == CHOOSE n \in FileSizes : \A m \in FileSizes : m <= n
PartIds == 0..Top + 1

\* A part that is not full is the last; so is one that is followed by none, or by an empty one.
LastPart(p) == parts[p] < maxObj \/ parts[p + 1] <= 0

\* fileWithParts: nothing, if there is no base part or if it is empty.
FileWithParts ==
  IF parts[0] <= 0 THEN <<>>
  ELSE LET last == CHOOSE p \in 0..Top : LastPart(p) /\ \A q \in 0..p - 1 : ~LastPart(q)
       IN [n \in 1..last + 1 |-> parts[n - 1]]

Begin(op, n) == sm' = [op |-> op, part |-> 0, left |-> n]

Save(size) ==
  /\ sm.op = "none"
  /\ Begin("save", size)
  /\ saved' = [size |-> size, max |-> maxObj]
  /\ UNCHANGED <<maxObj, parts, broken>>

\* There is more to come as long as a part gets full.
Continues(n) == n >= maxObj

\* One part.  An empty one is deleted again, but for the base.
SavePart ==
  LET n == IF sm.left < maxObj THEN sm.left ELSE maxObj IN
  /\ sm.op = "save"
  /\ parts' = [parts EXCEPT ![sm.part] = IF n = 0 /\ sm.part # 0 THEN Absent ELSE n]
  /\ sm' = IF Continues(n) THEN [sm EXCEPT !.part = @ + 1, !.left = @ - n]
           ELSE [sm EXCEPT !.op = "saved", !.left = 0]
  /\ UNCHANGED <<maxObj, saved, broken>>

\* A part is not saved, or an empty one not deleted.
SaveFails ==
  /\ sm.op = "save" /\ broken = "none"
  /\ broken' = "save"
  /\ sm' = [sm EXCEPT !.op = "failed"]
  /\ parts' = IF sm.left = 0 /\ sm.part # 0 THEN [parts EXCEPT ![sm.part] = 0] ELSE parts
  /\ UNCHANGED <<maxObj, saved>>

\* The parts Delete has to delete: without a list, what has the file's name.
ToDelete == IF FileWithParts = <<>> THEN 1 ELSE Len(FileWithParts)

Delete ==
  /\ sm.op \in {"saved", "failed"}
  /\ Begin("delete", ToDelete)
  /\ UNCHANGED <<maxObj, parts, saved, broken>>

\* Without a base the storage says that there is no such file, and the caller is content.
DeletePart ==
  /\ sm.op = "delete"
  /\ parts' = [parts EXCEPT ![sm.part] = Absent]
  /\ sm' = IF sm.left = 1 THEN [sm EXCEPT !.op = "deleted", !.left = 0]
           ELSE [sm EXCEPT !.part = @ + 1, !.left = @ - 1]
  /\ UNCHANGED <<maxObj, saved, broken>>

DeleteFails ==
  /\ sm.op = "delete" /\ broken = "none"
  /\ broken' = "delete"
  /\ sm' = [sm EXCEPT !.op = "failed"]
  /\ UNCHANGED <<maxObj, parts, saved>>

\* Another limit, between two operations.
SetConfig(m) ==
  /\ sm.op \in {"saved", "failed"}
  /\ maxObj' = m /\ m # maxObj
  /\ UNCHANGED <<parts, sm, saved, broken>>

FileInit ==
  /\ maxObj \in MaxSizes
  /\ parts = [p \in PartIds |-> Absent]
  /\ sm = [op |-> "none", part |-> 0, left |-> 0]
  /\ saved = [size |-> 0, max |-> maxObj]
  /\ broken = "none"

Saving == SavePart \/ SaveFails \/ \E size \in FileSizes : Save(size)

Deleting == Delete \/ DeletePart \/ DeleteFails

----------------------------------------------------------------------------
(* Properties. *)

\* A limit larger than the one the file was saved under takes the first part for the whole.
Raised == maxObj > saved.max

=============================================================================

------------------------------- MODULE Control -------------------------------
(***************************************************************************)
(* The control plane: the stream of commands with the start of a backup,   *)
(* or what the commands make of the lists in the database.  The two share  *)
(* no state here: a behaviour is one of the former or one of the latter.   *)
(***************************************************************************)
EXTENDS BackupStart, Catalog

NoScript == [asks |-> <<>>, conf |-> None, profiles |-> <<>>, held |-> <<>>, list |-> <<>>, faults |-> 0]

AnyPlan == CHOOSE x \in Plans : TRUE

ControlInit ==
  /\ Init
  /\ CatalogStart(NoScript) \/ (plan = AnyPlan /\ CatalogInit)

Starts(A) == script = NoScript /\ A /\ UNCHANGED catalogVars
Lists(A) == script # NoScript /\ A /\ UNCHANGED vars

ControlNext == Starts(Next) \/ Lists(CatalogNext)

ControlSpec ==
  /\ ControlInit /\ [][ControlNext]_<<vars, catalogVars>>
  /\ WF_<<vars, catalogVars>>(Starts(Progress))
  /\ WF_<<vars, catalogVars>>(Lists(CatalogProgress))
===============================================================================

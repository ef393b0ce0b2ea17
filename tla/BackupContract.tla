--------------------------- MODULE BackupContract ---------------------------
(***************************************************************************)
(* What one backup promises to whoever looks at it from outside: to resync *)
(* and restore, which find it by its metadata file on the storage, and to  *)
(* the user, who reads its status.  BackupRun implements it.               *)
(*                                                                         *)
(* The backup is published once every replica set has copied its data, it  *)
(* is announced as done only while it is published, and a verdict stands.  *)
(* Only an outsider that acts on what it has read before (the command that *)
(* takes over a stale lock, backup-finish) may still replace a verdict.    *)
(***************************************************************************)
CONSTANT Shard

VARIABLES
    copied,     \* the replica sets whose dump or copy has finished
    published,  \* the metadata file is on the storage
    verdict,    \* "open" until the status is final
    meddled     \* an outsider may be about to write the status

vars == <<copied, published, verdict, meddled>>

Init ==
    /\ copied = {} /\ published = FALSE
    /\ verdict = "open" /\ meddled = FALSE

Copy(s) ==
    /\ s \notin copied
    /\ copied' = copied \cup {s}
    /\ UNCHANGED <<published, verdict, meddled>>

Publish ==
    /\ copied = Shard
    /\ published' = TRUE
    /\ UNCHANGED <<copied, verdict, meddled>>

\* The files of a backup that is not going to be done are deleted.
Retract ==
    /\ verdict # "done"
    /\ published' = FALSE
    /\ UNCHANGED <<copied, verdict, meddled>>

Undecided == verdict = "open" \/ meddled

Announce ==
    /\ published /\ Undecided
    /\ verdict' = "done"
    /\ UNCHANGED <<copied, published, meddled>>

GiveUp ==
    /\ Undecided
    /\ verdict' \in {"error", "canceled"}
    /\ UNCHANGED <<copied, published, meddled>>

\* An outsider comes, writes, goes; an agent writes a step over what the outsider wrote.
Meddle ==
    /\ meddled' \in BOOLEAN
    /\ verdict' \in IF meddled THEN {verdict, "open", "error"} ELSE {verdict}
    /\ UNCHANGED <<copied, published>>

Next ==
    \/ \E s \in Shard : Copy(s)
    \/ Publish \/ Retract \/ Announce \/ GiveUp \/ Meddle

Spec == Init /\ [][Next]_vars
=============================================================================

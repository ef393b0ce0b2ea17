---------------------------- MODULE StoredFile -----------------------------
(***************************************************************************)
(* A file of a backup on a cloud storage: saved in parts, and read back by *)
(* a restore, one part after another through the same arenas               *)
(* (SplitMergeMiddleware.SourceReader over S3.SourceReader).               *)
(***************************************************************************)
EXTENDS Download, SplitMerge


VARIABLE todo \* the parts to read: <<>> before a read

vars == <<readVars, fileVars, todo>>

Untouched == reader = "none" /\ todo = <<>>

\* The file is there: its parts are listed, and read; without a list, the object
\* of the file's name.
OpenFile ==
  /\ sm.op = "saved" /\ Untouched
  /\ todo' = IF FileWithParts = <<>> THEN <<parts[0]>> ELSE FileWithParts
  /\ UNCHANGED <<readVars, fileVars>>

\* The next part, when the one before is read to its end and closed.
OpenPart ==
  /\ object.nth < Len(todo)
  /\ SourceReader(todo[object.nth + 1])
  /\ UNCHANGED <<fileVars, todo>>

Init == ReadInit /\ FileInit /\ todo = <<>>

Next ==
  \/ OpenFile
  \/ OpenPart
  \/ Reading /\ UNCHANGED <<fileVars, todo>>
  \/ (Saving \/ Deleting \/ \E m \in MaxSizes : SetConfig(m)) /\ Untouched /\ UNCHANGED <<readVars, todo>>

MaxWorkers == CHOOSE n \in {s.cc : s \in Settings} : \A s \in Settings : s.cc <= n

Spec == Init /\ [][Next]_vars /\ WF_vars(OpenPart) /\ ReadFairness(MaxWorkers)

----------------------------------------------------------------------------
(* Properties. *)

\* The last chunk of its part, and the one that comes after a chunk.
IsLast(c) == (c[2] + 1) * opts.span >= todo[c[1]]
After(c) == IF IsLast(c) THEN <<c[1] + 1, 0>> ELSE <<c[1], c[2] + 1>>

\* The parts are the file that was saved: all are full but the last.
PartsAreFile ==
  /\ \A p \in 1..Len(todo) - 1 : todo[p] = saved.max
  /\ (Len(todo) - 1) * saved.max + todo[Len(todo)] = saved.size

\* What has come out so far: chunk by chunk, part by part.
InOrder ==
  \A k \in 1..Len(out) :
    /\ out[k] = IF k = 1 THEN <<1, 0>> ELSE After(out[k - 1])
    /\ out[k][1] <= Len(todo)

\* What comes out is the file, part by part and chunk by chunk in order; and when the
\* end is reached without an error all that was saved has come out.  (But for a file
\* whose limit was raised since: only its first part is read.)
ReadBack ==
  /\ InOrder
  /\ todo # <<>> /\ object.nth = Len(todo) /\ reader = "eof" =>
       /\ out # <<>> /\ out[Len(out)][1] = Len(todo) /\ IsLast(out[Len(out)])
       /\ Raised \/ PartsAreFile

\* A read that has begun ends, however few the spans: with the end of the file, with an
\* error, or because the reader has had enough.  (But for a chunk whose request
\* failed with an error that wraps EOF: it is lost, and the ones after it wait.)
ReadEnds ==
  todo # <<>> ~>
    \/ reader \in {"failed", "closed"}
    \/ object.nth = Len(todo) /\ reader = "eof"
    \/ "eof" \in faults
=============================================================================

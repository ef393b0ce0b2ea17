------------------------- MODULE MCPhysicalRestore -------------------------
EXTENDS RestoreView, TLC
CONSTANTS c, s, c1, s1, s2, s3

MCRSOf == (c1 :> c) @@ (s1 :> s) @@ (s2 :> s) @@ (s3 :> s)

Option(k, f, p) == [kind |-> k, fallback |-> f, allowPartly |-> p, listed |-> k = "exit", sized |-> TRUE]

MCOptions == {Option("backup", TRUE, FALSE), Option("backup", FALSE, TRUE),
              Option("pitr", TRUE, TRUE), Option("external", TRUE, FALSE), Option("exit", TRUE, FALSE)}
             \cup {[Option("backup", TRUE, p) EXCEPT !.sized = FALSE] : p \in BOOLEAN}
=============================================================================

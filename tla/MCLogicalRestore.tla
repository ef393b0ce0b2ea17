-------------------------- MODULE MCLogicalRestore --------------------------
EXTENDS LogicalRestore, TLC
CONSTANTS c, s1, s2, t1, t2, t3

Entries(s) == [i \in DOMAIN s |-> [txn |-> s[i][1], kind |-> s[i][2]]]

\* Two transactions of both replica sets, the second of which follows the
\* first too closely for a queue of one; the third is aborted.
MCHistory ==
  (c :> Entries(<< <<t3, "prep">>, <<t3, "abort">>, <<t1, "prep">>, <<t1, "commit">>,
                   <<t2, "prep">>, <<t2, "commit">> >>)) @@
  (s1 :> Entries(<< <<t1, "part">>, <<t1, "prep">>, <<t1, "commit">>,
                    <<t2, "part">>, <<t2, "prep">>, <<t2, "commit">> >>)) @@
  (s2 :> Entries(<< <<t3, "prep">>, <<t2, "prep">>, <<t2, "commit">> >>))
=============================================================================

---------------------------- MODULE MCStoredFile ----------------------------
EXTENDS StoredFile

\* No limit of the memory; room for three spans of two workers; for less
\* than three workers; for less than a span.
MCSettings == {[cc |-> 3, buf |-> 3, span |-> 1], [cc |-> 2, buf |-> 0, span |-> 1], [cc |-> 2, buf |-> 3, span |-> 1],
               [cc |-> 3, buf |-> 5, span |-> 2], [cc |-> 2, buf |-> 1, span |-> 2]}
=============================================================================

--------------------------- MODULE MCPrefillQueue ---------------------------
(* Small instances of PrefillQueue for TLC. *)
EXTENDS PrefillQueue

CONSTANTS n1, n2, n3, d1, d2

MCReqs == {n1, n2, n3, d1, d2}
MCDeterministic == {d1, d2}
MCAbortable == {n1, d1}

\* n1 and n2 together need more slots than the pool has, and each of them fits
\* alone.  n3 ends with its prefill.  d2's prompt is too long: it is answered
\* with an error.
MCInputLen == [r \in MCReqs |-> CASE r = n1 -> 5 [] r = n2 -> 2 [] r = n3 -> 1
                                  [] r = d1 -> 2 [] r = d2 -> 13]
MCRequestedNew == [r \in MCReqs |-> CASE r = n1 -> 6 [] r = n2 -> 3 [] r = n3 -> 1
                                      [] r = d1 -> 3 [] r = d2 -> 3]

\* Two requests, one of which has a prompt of the longest length allowed.
LongReqs == {n1, n2}
LongInputLen == [r \in LongReqs |-> IF r = n1 THEN MaxReqInputLen - 1 ELSE 2]
LongRequestedNew == [r \in LongReqs |-> IF r = n1 THEN 6 ELSE 2]
=============================================================================

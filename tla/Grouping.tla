----------------------------- MODULE Grouping ------------------------------
(***************************************************************************)
(* Which requests a round of verification takes, stated without the loops  *)
(* of check_and_verify_deterministic_requests.  VerifyBatch shows that the *)
(* loops compute this; DVR uses it as is.                                  *)
(***************************************************************************)
EXTENDS Integers, FiniteSets

Min2(a, b) == IF a <= b THEN a ELSE b

\* Groups of size n take every ready request; the places left in the last group
\* go to requests that are not ready, as far as there are any.  Which of these
\* is a matter of their order in the batch.
FixedGroupSets(all, ready, n) ==
  LET room == (n - (Cardinality(ready) % n)) % n
      fill == Min2(room, Cardinality(all \ ready))
  IN  {ready \cup f : f \in {g \in SUBSET (all \ ready) : Cardinality(g) = fill}}
=============================================================================

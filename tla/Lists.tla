------------------------------- MODULE Lists -------------------------------
(***************************************************************************)
(* The list operations of the scheduler and the verifier: the list         *)
(* comprehension with a condition, the flat list that several requests     *)
(* share, and the running offset of the loops that read it request by      *)
(* request.  All are recursive functions, which the proofs can unfold.     *)
(***************************************************************************)
EXTENDS Integers, Sequences, Functions

\* [x for x in s if x in S]: the elements of s that are in S, in their order.
Filtered(s, S) ==
  LET kept[i \in 0..Len(s)] ==
        IF i = 0 THEN <<>>
        ELSE IF s[i] \in S THEN Append(kept[i - 1], s[i]) ELSE kept[i - 1]
  IN  kept[Len(s)]

\* flat.extend(part), for each part.
Concatenated(parts) ==
  LET flat[i \in 0..Len(parts)] == IF i = 0 THEN <<>> ELSE flat[i - 1] \o parts[i]
  IN  flat[Len(parts)]

\* offset += lens[i], k times.
OffsetAfter(lens, k) ==
  LET sum[i \in 0..Len(lens)] == IF i = 0 THEN 0 ELSE sum[i - 1] + lens[i]
  IN  sum[k]
=============================================================================

------------------------------ MODULE MCKVSlots ------------------------------
(* Small instances of KVSlots: r1 and r2 are deterministic, r3 is not.       *)
EXTENDS KVSlots

CONSTANTS r1, r2, r3

MCPrompt == [r \in Reqs |-> IF r = r2 THEN 2 ELSE 1]
MCMaxNewTokens == [r \in Reqs |-> IF r = r1 THEN 4 ELSE IF r = r2 THEN 3 ELSE 2]
=============================================================================

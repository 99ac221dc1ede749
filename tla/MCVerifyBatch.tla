--------------------------- MODULE MCVerifyBatch ---------------------------
(* Instances of VerifyBatch for TLC.                                         *)
EXTENDS VerifyBatch

CONSTANT MaxBatch  \* requests in a batch

\* A request with u unverified tokens.  Prompt and verified lengths differ
\* between the requests of a batch.
Request(i, det, retracted, fin, u) ==
  LET verified == 1 + (i % 2)
      out == [k \in 1..(verified + u) |-> <<"d", i, k>>]
  IN  [is_deterministic |-> det, is_retracted |-> retracted, finished |-> fin,
       prompt |-> 1 + (i \div 2), verified |-> verified,
       output_ids |-> out, logprobs |-> out]

\* Every kind of request a decode iteration leaves behind.  WindowSize + 1
\* unverified tokens take a retraction.  A batch of the overlapped event loop
\* may still list requests that finished (and were verified) or were retracted
\* while it ran.
Kinds(i) ==
  {Request(i, TRUE, FALSE, fin, u) : fin \in BOOLEAN, u \in 1..(WindowSize + 1)}
    \cup {Request(i, TRUE, FALSE, TRUE, 0), Request(i, TRUE, TRUE, FALSE, WindowSize),
          Request(i, FALSE, FALSE, TRUE, WindowSize)}

MCBatches ==
  UNION {{b \in [1..n -> UNION {Kinds(i) : i \in 1..n}] : \A i \in 1..n : b[i] \in Kinds(i)}
         : n \in 1..MaxBatch}
=============================================================================

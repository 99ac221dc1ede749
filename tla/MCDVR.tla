------------------------------- MODULE MCDVR -------------------------------
(* Small instances of DVR, and of its refinement of DetStream, for TLC. *)
EXTENDS DVRStream, TLC

CONSTANTS r1, r2, a, b, eos, stp

MCReqs == {r1, r2}
MCStreaming == {r1}
MCToken == {a, b, eos, stp}
MCEos == {eos}
MCStopStr == {stp}

\* The continuations, of which an instance uses the first MaxNewTokens tokens:
\* r1 runs to its length limit, r2 ends with a stop token before it.
\* AltRef differs from Ref where it changes how they end.  A
\* decoder may err on the side of a, of b, or of stopping, so that rollbacks
\* happen with and without a finish condition to withdraw.
Cut(s) == [i \in 1..MaxNewTokens |-> s[i]]
Continuation == (r1 :> <<a, b, a, a, b>>) @@ (r2 :> <<a, a, eos, a, a>>)
OtherContinuation == (r1 :> <<a, a, stp, a, a>>) @@ (r2 :> <<a, b, a, a, a>>)
MCRef == [r \in Reqs |-> Cut(Continuation[r])]
MCAltRef == [r \in Reqs |-> Cut(OtherContinuation[r])]
=============================================================================

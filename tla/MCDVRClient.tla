---------------------------- MODULE MCDVRClient ----------------------------
(* Small instances of DVR with its detokenizer for TLC. *)
EXTENDS DVRClient, TLC

CONSTANTS r1, r2, a, b, c, eos, stp

MCReqs == {r1, r2}
MCToken == {a, b, c, eos, stp}
MCEos == {eos}
MCStopStr == {stp}

\* b ends inside a character, c with a blank.  Chunks of the answers may end
\* inside a character, with and without a blank before it.
MCPartial == {b}
MCBlank == {c}

\* r1 runs to its length limit and streams; r2 ends with the stop string and
\* does not.  AltRef differs where it changes how they end.
MCStreaming == {r1}
MCRef == (r1 :> <<a, c, b, a>>) @@ (r2 :> <<a, b, stp, a>>)
MCAltRef == (r1 :> <<a, c, stp, a>>) @@ (r2 :> <<a, b, a, a>>)

\* Without the blank: r1 runs to its length limit, r2 ends with a stop token.
LiveToken == {a, b, eos, stp}
LiveRef == (r1 :> <<a, a, b, a>>) @@ (r2 :> <<a, b, eos, a>>)
LiveAltRef == (r1 :> <<a, a, stp, a>>) @@ (r2 :> <<a, b, a, a>>)
=============================================================================

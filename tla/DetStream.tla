----------------------------- MODULE DetStream -----------------------------
(***************************************************************************)
(* What the client of one deterministic request is promised.  It receives  *)
(* a growing prefix of the reference continuation of its prompt; tokens    *)
(* that were delivered are never taken back.  The request stays open until *)
(* it is complete, which can happen in one way only, or cut short (by an   *)
(* abort, or by a stop string, whose text the detokenizer trims), and then *)
(* nothing more is delivered.                                              *)
(***************************************************************************)
EXTENDS Integers, Sequences

CONSTANTS
  Eos, Stops,     \* stop tokens; those and the tokens that end a stop string
  MaxNewTokens,
  Reference       \* 1..MaxNewTokens -> token

VARIABLES received, outcome

clientVars == <<received, outcome>>

Prefix(n) == [i \in 1..n |-> Reference[i]]
StopFree(n) == \A i \in 1..n : Reference[i] \notin Stops

\* A continuation that ends here is an answer.
Answer(n) ==
  /\ n > 0 /\ StopFree(n - 1)
  /\ n = MaxNewTokens \/ Reference[n] \in Eos

Init ==
  /\ received = <<>>
  /\ outcome = "open"

Further == Len(received)..MaxNewTokens

Deliver ==
  /\ outcome = "open"
  /\ \E n \in Further : StopFree(n) /\ received' = Prefix(n)
  /\ UNCHANGED outcome

Complete ==
  /\ outcome = "open"
  /\ \E n \in Further : Answer(n) /\ received' = Prefix(n)
  /\ outcome' = "complete"

CutShort ==
  /\ outcome = "open"
  /\ \E n \in Further : StopFree(n - 1) /\ received' = Prefix(n)
  /\ outcome' = "cut"

Next == Deliver \/ Complete \/ CutShort

Spec == Init /\ [][Next]_clientVars
=============================================================================

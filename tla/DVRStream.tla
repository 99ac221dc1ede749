----------------------------- MODULE DVRStream -----------------------------
(***************************************************************************)
(* The decode-verify-rollback scheduler implements one deterministic       *)
(* stream per request.  In modes 1 and 2 this needs no condition; in mode  *)
(* 3 it needs the fixed verification pool and no retraction.               *)
(***************************************************************************)
EXTENDS DVR

\* A request whose last chunk was sent is complete when it reached its length
\* or a stop token; an abort and a stop string cut it short.  A request that
\* was aborted in the waiting queue is told so without tokens.
Outcome(q) ==
  CASE q.finished_output /\ q.finished_reason \in {"length", "token"} -> "complete"
    [] q.finished_output /\ q.finished_reason \notin {"length", "token"} -> "cut"
    [] ~q.finished_output /\ q.status = "aborted" -> "cut"
    [] OTHER -> "open"

Client(r) ==
  INSTANCE DetStream WITH Stops <- Eos \cup StopStr, Reference <- Ref[r],
                          received <- req[r].sent, outcome <- Outcome(req[r])

\* Whatever is batched, retracted or aborted, every client sees a deterministic
\* stream: stream_output_generation never sends a token it would take back, and
\* finishes a request once, at the end of its answer.  (This is the conjunction
\* of Client(r)!Spec over r, in the form TLC accepts.)
EveryClientServed ==
  /\ \A r \in Reqs : Client(r)!Init
  /\ [][\A r \in Reqs : [Client(r)!Next]_(Client(r)!clientVars)]_vars
=============================================================================

-------------------------------- MODULE DVR --------------------------------
(***************************************************************************)
(* Decode-verify-rollback (DVR) as the scheduler of LLM-42 runs it for     *)
(* deterministic requests, in the configuration of the launch scripts: the *)
(* normal (non-overlapped) event loop, no radix cache, no chunked prefill, *)
(* page size 1.  One iteration of event_loop_normal is one step, because   *)
(* the scheduler is a single thread: it either prefills one deterministic  *)
(* request in isolation (Prefill) or decodes one token for every running   *)
(* request and then verifies, rolls back, releases and streams             *)
(* (DecodeStep).  Control messages (AbortRequest, PauseRetract) are        *)
(* handled between two iterations.                                         *)
(*                                                                         *)
(* A request is a record whose fields keep the names of class Req.  The    *)
(* decoder is not reproducible, so the token it samples is any token.  The *)
(* verifier and the first, isolated, prefill are reproducible: on a        *)
(* context they can trust they follow Ref[r], the continuation of r's      *)
(* prompt.  What makes a context trustworthy is modelled by recording, for *)
(* every output position, the token and the forward pass its KV entry was  *)
(* computed from.                                                          *)
(***************************************************************************)
EXTENDS Integers, Sequences, FiniteSets, Grouping

CONSTANTS
  Reqs,             \* the deterministic requests
  Streaming,        \* those submitted with stream=True
  Token,            \* the vocabulary
  Eos,              \* tokens that end a request (eos / stop_token_ids)
  StopStr,          \* tokens whose text completes a stop string
  Ref,              \* Ref[r]: what the verifier generates for r's prompt
  AltRef,           \* AltRef[r]: the same, on a context of another numerics
  WindowSize,       \* llm42_window_size
  VerifyBatchSize,  \* llm42_verify_batch_size
  FixedPool,        \* whether FixedSizeVerificationPool was allocated
  Mode,             \* enable_llm42: 1, 2 or 3
  MaxNewTokens,     \* sampling_params.max_new_tokens
  StreamInterval,   \* stream_interval
  MaxRetractions    \* bound on retraction_count of each request

ASSUME DVRAssumption ==
  /\ Eos \subseteq Token /\ StopStr \subseteq Token
  /\ MaxNewTokens \in Nat \ {0}
  /\ Ref \in [Reqs -> [1..MaxNewTokens -> Token]]
  /\ AltRef \in [Reqs -> [1..MaxNewTokens -> Token]]
  /\ WindowSize \in Nat \ {0} /\ VerifyBatchSize \in Nat \ {0}
  /\ FixedPool \in BOOLEAN /\ Mode \in 1..3
  /\ StreamInterval \in Nat \ {0} /\ MaxRetractions \in Nat

VARIABLES
  req,      \* request -> its Req object, see RequestType
  crashed   \* an exception left the event loop: the server is gone

vars == <<req, crashed>>

Status == {"waiting", "running", "released", "aborted"}
Reasons == {"none", "abort", "length", "token", "str"}
Passes == {"prefill", "reprefill", "decode", "verify"}
KVEntry == [tok : Token, by : Passes]

(***************************************************************************)
(* finished_len is 0 for None.  next_input is this request's entry of      *)
(* batch.output_ids, the token the next decode feeds to the model.  kv has *)
(* one entry per committed KV position after the prompt (its length is     *)
(* kv_committed_len minus the prompt length); prompt_kv says which pass    *)
(* computed the prompt's entries.  sent is what the client received so     *)
(* far; it is the only field that is not the program's.                    *)
(***************************************************************************)
RequestType ==
  [status : Status, output_ids : Seq(Token), verified : Nat,
   finished_reason : Reasons, finished_len : Nat, to_finish : BOOLEAN,
   finished_output : BOOLEAN, send_token_offset : Nat, sent : Seq(Token),
   next_input : Token, kv : Seq(KVEntry), prompt_kv : Passes,
   retraction_count : Nat]

Running == {r \in Reqs : req[r].status = "running"}

Stops == Eos \cup StopStr

Finished(q) == q.finished_reason # "none"

Unverified(q) == Len(q.output_ids) - q.verified

-----------------------------------------------------------------------------
(* Finishing a request                                                      *)

LastToken(q) == q.output_ids[Len(q.output_ids)]

\* The order of check_finished's tests.
FinishReason(q) ==
  CASE q.to_finish -> "abort"
    [] ~q.to_finish /\ Len(q.output_ids) >= MaxNewTokens -> "length"
    [] ~q.to_finish /\ Len(q.output_ids) < MaxNewTokens
       /\ LastToken(q) \in Eos -> "token"
    [] ~q.to_finish /\ Len(q.output_ids) < MaxNewTokens
       /\ LastToken(q) \in StopStr \ Eos -> "str"
    [] OTHER -> "none"

\* check_finished.  Only the length and stop-token tests record finished_len.
CheckFinished(q) ==
  IF Finished(q) THEN q
  ELSE [q EXCEPT
          !.finished_reason = FinishReason(q),
          !.to_finish = FALSE,
          !.finished_len = CASE FinishReason(q) = "length" -> MaxNewTokens
                             [] FinishReason(q) = "token" -> Len(q.output_ids)
                             [] OTHER -> @]

\* release_kv_cache and completion_time of a request that stays finished.
Release(q) ==
  IF Finished(q) THEN [q EXCEPT !.status = "released", !.kv = <<>>] ELSE q

-----------------------------------------------------------------------------
(* Streaming                                                                *)

\* output_ids_through_stop
OutputThroughStop(q) ==
  IF q.finished_len = 0 THEN q.output_ids
  ELSE SubSeq(q.output_ids, 1, Min2(q.finished_len, Len(q.output_ids)))

\* Mutant of SendUpTo: send_token_offset is not advanced.
SendUpToForgetsOffset(q, n) ==
  [q EXCEPT
     !.sent = @ \o SubSeq(OutputThroughStop(q), q.send_token_offset + 1, n)]

\* The tokens from send_token_offset up to n go to the client.
SendUpTo(q, n) ==
  [q EXCEPT
     !.sent = @ \o SubSeq(OutputThroughStop(q), q.send_token_offset + 1, n),
     !.send_token_offset = n]

\* The stream_interval test of an unfinished request.
DueForStreaming(r, q) ==
  /\ r \in Streaming
  /\ q.verified > q.send_token_offset
  /\ q.verified % StreamInterval = IF StreamInterval > 1 THEN 1 ELSE 0

\* stream_output_generation for one request: a finished request is sent in
\* full, once, when every token is verified; an unfinished one is sent up to
\* the verified tokens.
StreamOutput(r, q) ==
  CASE Finished(q) /\ ~q.finished_output /\ q.verified >= Len(q.output_ids) ->
         LET f == [q EXCEPT !.finished_output = TRUE,
                            !.finished_len = IF @ = 0 THEN Len(q.output_ids)
                                                      ELSE @]
         IN  SendUpTo(f, Len(OutputThroughStop(f)))
    [] ~Finished(q) /\ DueForStreaming(r, q) ->
         SendUpTo(q, Min2(Len(OutputThroughStop(q)), q.verified))
    [] OTHER -> q

-----------------------------------------------------------------------------
(* Prefill                                                                  *)

\* The extend pass over the prompt and, after a retraction, over all outputs
\* generated so far, followed by process_batch_result_prefill.  Only the very
\* first output token counts as verified.
AfterPrefill(r, q, t) ==
  LET first == q.output_ids = <<>>
      p == [q EXCEPT
              !.status = "running",
              !.output_ids = Append(@, t),
              !.verified = IF first THEN 1 ELSE @,
              !.next_input = t,
              !.prompt_kv = IF first THEN "prefill" ELSE "reprefill",
              !.kv = [i \in 1..Len(q.output_ids) |->
                        [tok |-> q.output_ids[i], by |-> "reprefill"]]]
  IN  StreamOutput(r, Release(CheckFinished(p)))

\* A waiting request is prefilled, alone in its batch.  The first token of a
\* fresh request is reproducible; that of a resumed one is not.
Prefill(r) ==
  /\ ~crashed
  /\ req[r].status = "waiting"
  /\ \E t \in IF req[r].output_ids = <<>> THEN {Ref[r][1]} ELSE Token :
       req' = [req EXCEPT ![r] = AfterPrefill(r, @, t)]
  /\ UNCHANGED crashed

-----------------------------------------------------------------------------
(* Decode                                                                   *)

\* prepare_for_decode and the first loop of process_batch_result_decode.  The
\* pass computes the KV entry of the token it is fed and samples t.
AfterDecode(q, t) ==
  CheckFinished(
    [q EXCEPT !.kv = Append(@, [tok |-> q.next_input, by |-> "decode"]),
              !.output_ids = Append(@, t),
              !.next_input = t])

-----------------------------------------------------------------------------
(* Verification                                                             *)

\* Mutants of Ready: the window must overflow, and finishing does not count.
ReadyLate(q) == Finished(q) \/ Unverified(q) > WindowSize
ReadyIgnoresFinish(q) == Unverified(q) >= WindowSize

\* A request triggers verification once it finished or filled its window.
Ready(q) == Finished(q) \/ Unverified(q) >= WindowSize

\* The sets of requests that check_and_verify_deterministic_requests may send
\* to the verifier.
VerifySets(batch) ==
  LET all == {r \in DOMAIN batch : Unverified(batch[r]) > 0}
      ready == {r \in all : Ready(batch[r])}
  IN  IF FixedPool THEN FixedGroupSets(all, ready, VerifyBatchSize) ELSE {ready}

\* from_requests truncates a window of the fixed pool to WindowSize tokens, but
\* prepare_verify_batch feeds every unverified token: its consistency check
\* raises, and the exception leaves the event loop.
WindowOverrun(q) == FixedPool /\ Unverified(q) > WindowSize

\* The forward passes that give bit-identical KV entries whatever the load.
\* In mode 3 an extend pass is reproducible for a fixed shape only, and the
\* shape of a resumed prefill depends on when the request was retracted.
TrustedPasses ==
  {"prefill", "verify"} \cup (IF Mode = 3 THEN {} ELSE {"reprefill"})

\* The entries the verifier attends to: the prompt and the verified tokens but
\* the last, whose entry the verification pass computes itself.
ContextTrusted(q) ==
  /\ q.prompt_kv \in TrustedPasses
  /\ \A i \in 1..(q.verified - 1) :
       q.kv[i].tok = q.output_ids[i] /\ q.kv[i].by \in TrustedPasses

\* Without the fixed pool the shape of a verification batch follows the load,
\* which the kernels of modes 1 and 2 tolerate and those of mode 3 do not.
VerifierReproducible(q) == (FixedPool \/ Mode # 3) /\ ContextTrusted(q)

\* first_mismatch_position over the n unverified tokens of q
FirstMismatchPosition(q, ref) ==
  LET n == Unverified(q)
      Differ(i) == q.output_ids[q.verified + i] # ref[q.verified + i]
  IN  IF \E i \in 1..n : Differ(i)
      THEN (CHOOSE i \in 1..n : Differ(i) /\ \A j \in 1..(i-1) : ~Differ(j)) - 1
      ELSE n

\* Mutants of AcceptedOutput: the rejected token is kept instead of the
\* verifier's, and the slice of the rollback starts one token too early.
AcceptedOutputKeepsMismatch(q, ref) ==
  SubSeq(q.output_ids, 1,
         Min2(q.verified + FirstMismatchPosition(q, ref) + 1, Len(q.output_ids)))
AcceptedOutputDropsVerified(q, ref) ==
  LET pos == FirstMismatchPosition(q, ref)
  IN  IF pos < Unverified(q)
      THEN Append(SubSeq(q.output_ids, 1, q.verified + pos - 1),
                  ref[q.verified + pos + 1])
      ELSE q.output_ids

\* verify_and_compare: the window up to the first mismatch, followed by the
\* verifier's own token at the mismatch.
AcceptedOutput(q, ref) ==
  LET pos == FirstMismatchPosition(q, ref)
  IN  IF pos < Unverified(q)
      THEN Append(SubSeq(q.output_ids, 1, q.verified + pos),
                  ref[q.verified + pos + 1])
      ELSE q.output_ids

\* Mutant of ReasonAfterVerify: a rollback leaves the finish reason.
ReasonAfterVerifyKept(q, ref) == q.finished_reason

\* A mismatch withdraws the finish reason: the token it came from is gone.
ReasonAfterVerify(q, ref) ==
  IF FirstMismatchPosition(q, ref) < Unverified(q) THEN "none"
  ELSE q.finished_reason

\* Mutant of RewrittenKV: the last verified token's entry is left out.
RewrittenKVSkipsContext(q) ==
  [i \in 1..Len(q.kv) |->
     IF i \in (q.verified + 1)..(q.verified + Unverified(q) - 1)
     THEN [tok |-> q.output_ids[i], by |-> "verify"]
     ELSE q.kv[i]]

\* The verification pass overwrites, in place, the KV entries of the last
\* verified token and of every unverified token but the last.
RewrittenKV(q) ==
  [i \in 1..Len(q.kv) |->
     IF i \in q.verified..(q.verified + Unverified(q) - 1)
     THEN [tok |-> q.output_ids[i], by |-> "verify"]
     ELSE q.kv[i]]

\* Mutant of KVAfterVerify: the rolled-back positions stay committed.
KVAfterVerifyKept(q, rolled) == RewrittenKV(q)

\* process_batch_result_decode frees the KV positions of the rolled-back tokens.
KVAfterVerify(q, rolled) == SubSeq(RewrittenKV(q), 1, Len(q.kv) - rolled)

\* One request whose window the verifier answers with ref: verify_and_compare,
\* the bookkeeping of _run_verification and _update_batch_state, and the release
\* of the rolled-back KV positions.  A mismatch in the last token replaces it
\* and counts as no rollback.
AfterVerify(q, ref) ==
  LET out == AcceptedOutput(q, ref)
      rolled == Len(q.output_ids) - Len(out)
  IN  [q EXCEPT
         !.output_ids = out,
         !.finished_reason = ReasonAfterVerify(q, ref),
         !.verified = IF rolled > 0 THEN Len(out) ELSE @ + Unverified(q),
         !.next_input = IF rolled > 0 THEN out[Len(out)] ELSE @,
         !.kv = KVAfterVerify(q, rolled)]

-----------------------------------------------------------------------------
(* Retraction and abort                                                     *)

\* Mutant of ResetForRetract: the outputs are dropped with the cache.
ResetForRetractDropsOutput(q) ==
  [q EXCEPT !.status = "waiting", !.kv = <<>>, !.output_ids = <<>>,
            !.retraction_count = @ + 1]

\* release_req: the KV cache is dropped, the outputs and the verified count
\* are kept, and the request goes back to the waiting queue.
ResetForRetract(q) ==
  [q EXCEPT !.status = "waiting", !.kv = <<>>,
            !.retraction_count = @ + 1]

\* retract_decode gives up the requests with the fewest outputs, and keeps at
\* least one.  How many it gives up depends on the memory of the whole server.
MayRetract(victims) ==
  /\ victims # Running
  /\ \A v \in victims : req[v].retraction_count < MaxRetractions
  /\ \A v \in victims, k \in Running \ victims :
       Len(req[v].output_ids) <= Len(req[k].output_ids)

\* The requests of the batch after check_and_verify_deterministic_requests.
AfterVerification(batch, chosen, shifted) ==
  [r \in DOMAIN batch |->
     IF r \in chosen
     THEN AfterVerify(batch[r], IF r \in shifted THEN AltRef[r] ELSE Ref[r])
     ELSE batch[r]]

\* The rest of process_batch_result_decode, once the groups are formed: a group
\* that fails takes the server down; otherwise every request of the batch is
\* checked again, released if it is finished, and streamed.
VerifyAndStream(victims, batch, chosen) ==
  \/ /\ \E r \in chosen : WindowOverrun(batch[r])
     /\ crashed' = TRUE
     /\ UNCHANGED req
  \/ /\ \A r \in chosen : ~WindowOverrun(batch[r])
     /\ \E shifted \in SUBSET {r \in chosen : ~VerifierReproducible(batch[r])} :
        \E checked \in {AfterVerification(batch, chosen, shifted)} :
          req' = [r \in Reqs |->
                    IF r \in victims THEN ResetForRetract(req[r])
                    ELSE IF r \in Running
                    THEN StreamOutput(r, Release(CheckFinished(checked[r])))
                    ELSE req[r]]
     /\ UNCHANGED crashed

\* One decode iteration: update_running_batch (with the retractions it needs),
\* the forward pass, and process_batch_result_decode.
DecodeStep ==
  /\ ~crashed
  /\ \E victims \in SUBSET Running :
       /\ MayRetract(victims)
       /\ \E tok \in [Running \ victims -> Token] :
          \E batch \in {[r \in Running \ victims |-> AfterDecode(req[r], tok[r])]} :
          \E chosen \in VerifySets(batch) :
            VerifyAndStream(victims, batch, chosen)

\* abort_request, and the waiting and running timeouts.
AbortRequest(r) ==
  /\ ~crashed
  /\ \/ /\ req[r].status = "waiting"
        /\ req' = [req EXCEPT ![r].status = "aborted"]
     \/ /\ req[r].status = "running" /\ ~req[r].to_finish
        /\ req' = [req EXCEPT ![r].to_finish = TRUE]
  /\ UNCHANGED crashed

\* pause_generation in mode "retract": retract_all on the running batch.
PauseRetract ==
  /\ ~crashed
  /\ Running # {}
  /\ \A r \in Running : req[r].retraction_count < MaxRetractions
  /\ req' = [r \in Reqs |-> IF r \in Running THEN ResetForRetract(req[r])
                                             ELSE req[r]]
  /\ UNCHANGED crashed

\* A request as _add_request_to_queue leaves it.
NewRequest(r) ==
  [status |-> "waiting", output_ids |-> <<>>, verified |-> 0,
   finished_reason |-> "none", finished_len |-> 0, to_finish |-> FALSE,
   finished_output |-> FALSE, send_token_offset |-> 0, sent |-> <<>>,
   next_input |-> Ref[r][1], kv |-> <<>>, prompt_kv |-> "prefill",
   retraction_count |-> 0]

Init ==
  /\ req = [r \in Reqs |-> NewRequest(r)]
  /\ crashed = FALSE

Next ==
  \/ \E r \in Reqs : Prefill(r) \/ AbortRequest(r)
  \/ DecodeStep
  \/ PauseRetract

Spec == Init /\ [][Next]_vars

\* The event loop never stops: it prefills what waits and decodes what runs.
Fairness == WF_vars(DecodeStep) /\ \A r \in Reqs : WF_vars(Prefill(r))

-----------------------------------------------------------------------------
(* Properties                                                               *)

\* Every field of a Req object keeps its type, and a request that runs has a
\* verified first token (the isolated prefill) that no rollback can reach.
TypeOK ==
  /\ req \in [Reqs -> RequestType]
  /\ crashed \in BOOLEAN
  /\ \A r \in Reqs : /\ req[r].verified <= Len(req[r].output_ids)
                     /\ req[r].output_ids # <<>> => req[r].verified >= 1

\* Whether q's context was never rebuilt by a pass its kernels do not
\* reproduce, and its verification has the shape that makes it reproducible.
Reproducible(q) ==
  /\ Mode # 3 \/ q.retraction_count = 0
  /\ FixedPool \/ Mode # 3

\* What the client received of r is, token for token, a prefix of the
\* reference continuation.
SentIsReference(r) ==
  /\ Len(req[r].sent) = req[r].send_token_offset
  /\ Len(req[r].sent) <= req[r].verified
  /\ \A i \in 1..Len(req[r].sent) :
       i <= MaxNewTokens /\ req[r].sent[i] = Ref[r][i]

\* The README's promise, "enables deterministic LLM inference": whatever the
\* decoder sampled, however requests were batched, retracted or aborted,
\* stream_output_generation only sends tokens of the reference continuation,
\* each once and in order.
StreamIsReference ==
  \A r \in Reqs : Reproducible(req[r]) => SentIsReference(r)

\* The same for every request, also those whose context or verification shape
\* depends on the load.
EveryStreamIsReference ==
  \A r \in Reqs : SentIsReference(r)

\* A whole answer: the reference continuation up to its first stop token, or
\* all of it when it has none.
IsCompleteAnswer(r, s) ==
  /\ Len(s) \in 1..MaxNewTokens
  /\ \A i \in 1..Len(s) : s[i] = Ref[r][i]
  /\ \A i \in 1..(Len(s) - 1) : s[i] \notin Stops
  /\ Len(s) = MaxNewTokens \/ s[Len(s)] \in Eos

\* Determinism end to end: a request answered with finish reason "length" or
\* "token" got the one answer its prompt determines, neither cut short by a
\* finish condition that a rollback withdrew nor continued past a stop token.
CompleteAnswer ==
  \A r \in Reqs :
    Reproducible(req[r]) /\ req[r].finished_output
    /\ req[r].finished_reason \in {"length", "token"}
    => IsCompleteAnswer(r, req[r].sent)

\* kv_committed_len stays in step with output_ids through decode, in-place
\* verification, rollback and resumption: the KV cache of a running request
\* holds every output token but the last (the comment in prepare_verify_batch:
\* "The last output token (output_ids[N-1]) hasn't had its KV written yet!").
KVMatchesOutput ==
  \A r \in Running : Len(req[r].kv) = Len(req[r].output_ids) - 1

\* The verifier never attends to KV entries the decoder computed: the context
\* of the verified tokens was written by the isolated prefill or by an earlier
\* verification pass, from the tokens output_ids holds now.
ContextIsVerified ==
  \A r \in Running : Reproducible(req[r]) => ContextTrusted(req[r])

\* Verification keeps up with decoding: fewer than WindowSize tokens stay
\* unverified after an iteration, plus one for each resumed prefill, whose
\* token process_batch_result_prefill does not verify.
BacklogBound ==
  \A r \in Running :
    Unverified(req[r]) < WindowSize + req[r].retraction_count

\* A request that was never retracted leaves the scheduler (release_kv_cache)
\* in the same iteration that sends its last tokens: none is released while
\* stream_output_generation still waits for its verification.
ReleasedIsAnswered ==
  \A r \in Reqs :
    req[r].status = "released" /\ req[r].retraction_count = 0
    => req[r].finished_output

\* Rollback never reaches a verified token: steps only add to the verified
\* prefix of output_ids.
VerifiedIsStable ==
  [][\A r \in Reqs :
       /\ req'[r].verified >= req[r].verified
       /\ \A i \in 1..req[r].verified :
            req'[r].output_ids[i] = req[r].output_ids[i]]_vars

\* Every request is answered in full or aborted: verification accepts at least
\* one token per pass, so rollbacks cannot keep a request decoding for ever.
EveryRequestAnswered ==
  \A r \in Reqs : <>(req[r].finished_output \/ req[r].status = "aborted")

-----------------------------------------------------------------------------
(* The inductive invariant behind the properties above                      *)

\* What holds of a request's record at every point of an iteration.
RecordOK(r, q) ==
  /\ q \in RequestType
  /\ q.verified <= Len(q.output_ids)
  /\ Len(q.output_ids) <= MaxNewTokens
  /\ q.output_ids # <<>> => q.verified >= 1
  /\ \A i \in 1..(Len(q.output_ids) - 1) : q.output_ids[i] \notin Stops
  /\ q.send_token_offset <= q.verified
  /\ q.finished_len # 0 => q.send_token_offset <= q.finished_len
  /\ Len(q.sent) = q.send_token_offset
  /\ \A i \in 1..q.send_token_offset : q.sent[i] = q.output_ids[i]
  /\ Reproducible(q) => \A i \in 1..q.verified : q.output_ids[i] = Ref[r][i]

\* The finish reason is the one the output deserves.
ReasonOK(q) ==
  CASE q.finished_reason = "none" ->
         /\ Len(q.output_ids) < MaxNewTokens
         /\ \A i \in 1..Len(q.output_ids) : q.output_ids[i] \notin Stops
    [] q.finished_reason = "length" ->
         Len(q.output_ids) = MaxNewTokens /\ q.finished_len = MaxNewTokens
    [] q.finished_reason = "token" ->
         /\ q.output_ids # <<>> /\ LastToken(q) \in Eos
         /\ q.finished_len = Len(q.output_ids)
    [] OTHER -> TRUE

\* A request that holds KV cache.
CacheOK(q) ==
  /\ q.output_ids # <<>>
  /\ Len(q.kv) = Len(q.output_ids) - 1
  /\ Reproducible(q) => ContextTrusted(q)

\* What holds of a request between two iterations.
RequestOK(r, q) ==
  /\ RecordOK(r, q)
  /\ ReasonOK(q)
  /\ Finished(q) <=> q.status = "released"
  /\ Finished(q) /\ ~q.finished_output => q.verified < Len(q.output_ids)
  /\ q.finished_output =>
       /\ Finished(q)
       /\ q.finished_reason \in {"length", "token"} => q.sent = q.output_ids
  /\ q.status = "running" =>
       CacheOK(q) /\ Unverified(q) < WindowSize + q.retraction_count
  /\ q.status = "waiting" =>
       \/ q.output_ids = <<>>
       \/ /\ q.retraction_count > 0
          /\ Unverified(q) + 1 < WindowSize + q.retraction_count
  /\ q.status = "released" /\ q.retraction_count = 0 => q.finished_output

IndInv ==
  /\ crashed \in BOOLEAN
  /\ req \in [Reqs -> RequestType]
  /\ \A r \in Reqs : RequestOK(r, req[r])

-----------------------------------------------------------------------------
(* What the repository says of the program and the model refutes            *)

\* from_requests: "truncate to window_size to preserve the fixed-shape
\* invariant.  Remaining tokens will be verified in the next round."
VerificationNeverFails == ~crashed

\* stream_output_generation: "wait until all tokens are verified before
\* outputting finished request": a released request has been output.
FinishedIsOutput ==
  \A r \in Reqs : req[r].status = "released" => req[r].finished_output

\* abort_request: "The request will still run one decode forward pass. Then we
\* reuse all existing code to clean up the KV cache allocation."
AbortIsFinal ==
  [][\A r \in Reqs :
       req[r].to_finish => req'[r].to_finish \/ Finished(req'[r])]_vars

=============================================================================

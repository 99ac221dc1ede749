---------------------------- MODULE VerifyBatch -----------------------------
(***************************************************************************)
(* One call of LLM42Worker.check_and_verify_deterministic_requests: the    *)
(* choice of the requests, the loop that forms groups, and for each group  *)
(* the construction of the verification batch (LLM42Info), the forward     *)
(* pass, the comparison and the rollback.  DVR takes the outcome of this   *)
(* call as one step; here its index arithmetic is explicit.                *)
(*                                                                         *)
(* Tokens are labels: <<"p", i, x>> is the x-th prompt token of request i, *)
(* <<"d", i, k>> its k-th output as decoded, <<"v", i, k>> as the verifier *)
(* predicts it.  A KV slot is a label too, and kv maps it to the token its *)
(* entry was computed from.  The forward pass is modelled by what each of  *)
(* its rows attends to, read through req_to_token after the pass wrote its *)
(* own entries to out_cache_loc.                                           *)
(***************************************************************************)
EXTENDS Integers, Sequences, FiniteSets, FiniteSetsExt, Functions, Grouping, Lists

CONSTANTS
  Batches,     \* the batches (sequences of requests) a call may find
  WindowSize,  \* llm42_window_size
  FixedSize    \* llm42_verify_batch_size

Token == {"p", "d", "v"} \X Nat \X Nat

RequestType ==
  [is_deterministic : BOOLEAN, is_retracted : BOOLEAN, finished : BOOLEAN,
   prompt : Nat \ {0}, verified : Nat, output_ids : Seq(Token), logprobs : Seq(Token)]

\* What decode leaves behind: each output has its log-probability, and no more
\* tokens are verified than there are.
ASSUME VerifyBatchAssumption ==
  /\ WindowSize \in Nat \ {0} /\ FixedSize \in Nat \ {0}
  /\ \A b \in Batches :
       /\ b \in Seq(RequestType)
       /\ \A i \in 1..Len(b) : /\ b[i].verified <= Len(b[i].output_ids)
                               /\ b[i].logprobs = b[i].output_ids

VARIABLES
  fixed_pool,     \* whether FixedSizeVerificationPool was allocated
  reqs,           \* batch.reqs
  kv,             \* KV slot -> the token its entry was computed from
  ready_reqs,     \* indices into reqs
  not_ready_reqs,
  ready_idx,
  not_ready_idx,
  pass,           \* the last verification pass, see Verify
  taken,          \* the requests of all passes so far, in order
  pc              \* "collect", "loop", "returned" or "raised"

vars == <<fixed_pool, reqs, kv, ready_reqs, not_ready_reqs, ready_idx, not_ready_idx,
          pass, taken, pc>>

Dummy == <<"dummy">>    \* DUMMY_TOKEN_ID
Junk == <<"junk">>      \* what an entry holds that nobody wrote, and the
                        \* prediction for a row nobody compares
NoSlot == <<"none">>    \* req_to_token beyond the committed length

\* [x] * n, which is empty when n is negative.
Repeat(x, n) == IF n > 0 THEN [i \in 1..n |-> x] ELSE <<>>

-----------------------------------------------------------------------------
(* Requests                                                                 *)

Unverified(q) == Len(q.output_ids) - q.verified

UnverifiedIds(q) == SubSeq(q.output_ids, q.verified + 1, Len(q.output_ids))

\* The positions whose KV entry is written: all but the last output's.
CurrentSeqLen(q) == q.prompt + Len(q.output_ids) - 1

\* The token at position x of request i, counting from 0.
TokenAt(i, q, x) ==
  IF x < q.prompt THEN <<"p", i, x>> ELSE q.output_ids[x - q.prompt + 1]

KVSlot(i, x) == <<"kv", i, x>>

\* req_to_token: row i is that of reqs[i], row -d that of the d-th dummy.
ReqToToken(row, x) ==
  IF row < 0 THEN <<"dummy", (-row - 1) * WindowSize + x>>
  ELSE IF x < CurrentSeqLen(reqs[row]) THEN KVSlot(row, x) ELSE NoSlot

-----------------------------------------------------------------------------
(* check_and_verify_deterministic_requests                                  *)

\* Mutant of IsCandidate: requests that did not ask for determinism, too.
IsCandidateAny(q) == ~q.is_retracted /\ Unverified(q) > 0

IsCandidate(q) == q.is_deterministic /\ ~q.is_retracted /\ Unverified(q) > 0

IsReady(q) == q.finished \/ Unverified(q) >= WindowSize

Indices(I) == Filtered([i \in 1..Len(reqs) |-> i], I)

\* The first loops of the call: without a ready request it returns at once.
Collect ==
  /\ pc = "collect"
  /\ ready_reqs' = Indices({i \in DOMAIN reqs : IsCandidate(reqs[i]) /\ IsReady(reqs[i])})
  /\ not_ready_reqs' = Indices({i \in DOMAIN reqs : IsCandidate(reqs[i]) /\ ~IsReady(reqs[i])})
  /\ pc' = IF ready_reqs' = <<>> THEN "returned" ELSE "loop"
  /\ UNCHANGED <<fixed_pool, reqs, kv, ready_idx, not_ready_idx, pass, taken>>

-----------------------------------------------------------------------------
(* LLM42Info                                                                *)

\* Mutant of WindowOf: nothing is padded.
WindowOfUnpadded(q) ==
  LET actual == IF fixed_pool THEN Min2(Unverified(q), WindowSize) ELSE Unverified(q)
  IN  [actual_len |-> actual, padded_len |-> actual]

\* from_requests for one request: output_lens and padded_lens.
WindowOf(q) ==
  LET actual == IF fixed_pool THEN Min2(Unverified(q), WindowSize) ELSE Unverified(q)
      should_pad == actual < WindowSize /\ (q.finished \/ fixed_pool)
  IN  [actual_len |-> actual,
       padded_len |-> IF should_pad THEN WindowSize ELSE actual]

\* original_outputs of one request
OriginalOutputs(q, w) ==
  SubSeq(UnverifiedIds(q), 1, w.actual_len)
    \o Repeat(Dummy, w.padded_len - w.actual_len)

\* The input of one request: the last verified token, the unverified tokens but
\* the last, and dummies.  The unverified tokens are not cut to the window.
InputIds(i, q, w) ==
  LET context == TokenAt(i, q, q.prompt + q.verified - 1)
      after == SubSeq(UnverifiedIds(q), 1, Unverified(q) - 1)
  IN  <<context>> \o after \o Repeat(Dummy, w.padded_len - 1 - Len(after))

\* Mutant of OwnCacheLocs: it starts at the first unverified token.
OwnCacheLocsLate(i, q, w) ==
  LET start == q.prompt + q.verified
      end == Min2(start + w.padded_len, CurrentSeqLen(q))
  IN  [k \in 1..(end - start) |-> ReqToToken(i, start + k - 1)]

\* The request's own slots that the pass writes: the context token's and those
\* of the window that decode wrote before.
OwnCacheLocs(i, q, w) ==
  LET start == q.prompt + q.verified
      end == Min2(start + w.padded_len - 1, CurrentSeqLen(q))
  IN  <<ReqToToken(i, start - 1)>>
        \o [k \in 1..(end - start) |-> ReqToToken(i, start + k - 1)]

\* Mutant of CacheLocs: the padding slots are forgotten.
CacheLocsNoPadding(group, win) ==
  Concatenated([k \in 1..Len(group) |->
                OwnCacheLocs(group[k], reqs[group[k]], win[k])])

\* out_cache_locs: each request takes the padding slots it still needs from
\* where the one before it stopped.
CacheLocs(group, win) ==
  LET Own(k) == OwnCacheLocs(group[k], reqs[group[k]], win[k])
      needed == [k \in 1..Len(group) |-> Max({0, win[k].padded_len - Len(Own(k))})]
      Padding(k) == [j \in 1..needed[k] |-> <<"pad", OffsetAfter(needed, k - 1) + j>>]
  IN  Concatenated([k \in 1..Len(group) |-> Own(k) \o Padding(k)])

\* append_dummy_entries and prepare_verify_batch.
PrepareVerifyBatch(group, win, dummies) ==
  LET G == 1..Len(group)
  IN  [input_ids |->
         Concatenated([k \in G |-> InputIds(group[k], reqs[group[k]], win[k])])
           \o Repeat(Dummy, dummies * WindowSize),
       out_cache_loc |->
         CacheLocs(group, win)
           \o [j \in 1..(dummies * WindowSize) |-> <<"dummy", j - 1>>],
       req_pool_indices |-> group \o [d \in 1..dummies |-> -d],
       prefix_lens |->
         [k \in G |-> reqs[group[k]].prompt + reqs[group[k]].verified - 1]
           \o Repeat(0, dummies),
       extend_lens |-> [k \in G |-> win[k].padded_len]
                         \o Repeat(WindowSize, dummies),
       sampling |-> Concatenated([k \in G |-> Repeat(group[k], win[k].padded_len)])
                      \o Repeat(0, dummies * WindowSize)]

-----------------------------------------------------------------------------
(* The forward pass                                                         *)

\* The entries the pass leaves behind: every row writes its input token's.
Written(b) ==
  [s \in DOMAIN kv |->
     IF s \in Range(b.out_cache_loc)
     THEN b.input_ids[CHOOSE n \in DOMAIN b.input_ids : b.out_cache_loc[n] = s]
     ELSE kv[s]]

\* What row n of segment k attends to, and whose parameters sample it.
Attends(b, k, n) ==
  LET row == b.req_pool_indices[k]
      first == OffsetAfter(b.extend_lens, k - 1) + 1
      position == b.prefix_lens[k] + (n - first)
  IN  [tokens |-> [x \in 0..position |->
                     LET s == ReqToToken(row, x)
                     IN  IF s = NoSlot THEN Junk ELSE Written(b)[s]],
       params |-> b.sampling[n]]

-----------------------------------------------------------------------------
(* Comparison and rollback                                                  *)

\* Mutant of RowOffset: it advances by the unpadded length.
RowOffsetUnpadded(win, k) ==
  OffsetAfter([m \in 1..Len(win) |-> win[m].actual_len], k - 1)

\* offset in verify_and_compare: the rows of the requests before the k-th.
RowOffset(win, k) ==
  OffsetAfter([m \in 1..Len(win) |-> win[m].padded_len], k - 1)

\* The rows whose padding mask is set.
ComparedRows(win, k) ==
  [j \in 1..win[k].actual_len |-> RowOffset(win, k) + j]

FirstMismatchPosition(orig, pred) ==
  LET D == {j \in 1..Len(orig) : orig[j] # pred[j]}
  IN  IF D = {} THEN Len(orig) ELSE Min(D) - 1

\* Mutants of Compared: a rollback counts the whole window as verified, and the
\* log-probabilities lose the rolled-back tokens instead of the window.
ComparedCountsWindow(q, orig, pred) ==
  LET pos == FirstMismatchPosition(orig, pred)
      out == SubSeq(q.output_ids, 1, q.verified + pos)
               \o SubSeq(pred, pos + 1, Min2(pos + 1, Len(pred)))
  IN  [q EXCEPT !.output_ids = out, !.verified = @ + Len(orig)]
ComparedKeepsLogprobs(q, orig, pred) ==
  LET pos == FirstMismatchPosition(orig, pred)
      out == SubSeq(q.output_ids, 1, q.verified + pos)
               \o SubSeq(pred, pos + 1, Min2(pos + 1, Len(pred)))
  IN  [q EXCEPT !.output_ids = out, !.verified = Len(out),
                !.logprobs = SubSeq(@, 1, Len(@) - (Len(orig) - pos))]

\* verify_and_compare, and the bookkeeping of _run_verification, for a request
\* whose window orig the verifier answered with pred.  logprobs is
\* output_token_logprobs_idx.
Compared(q, orig, pred) ==
  LET pos == FirstMismatchPosition(orig, pred)
      to_rollback == Len(orig) - pos
      kept == SubSeq(q.output_ids, 1, Len(q.output_ids) - to_rollback)
      out == IF to_rollback > 0 THEN Append(kept, pred[pos + 1]) ELSE kept
      rolled == Len(q.output_ids) - Len(out)
  IN  [q EXCEPT
         !.output_ids = out,
         !.logprobs = SubSeq(@, 1, Len(@) - Len(orig))
                        \o SubSeq(pred, 1, Min2(pos + 1, Len(pred))),
         !.finished = @ /\ to_rollback = 0,
         !.verified = IF rolled > 0 THEN Len(out) ELSE @ + Len(orig)]

\* The predictions of request i's window when the verifier first disagrees at
\* position m (0-based; m past the window means it agrees throughout).
Predictions(i, q, w, m) ==
  [j \in 1..w.actual_len |->
     IF j <= m THEN q.output_ids[q.verified + j] ELSE <<"v", i, q.verified + j>>]

\* before is reqs as the pass found it.
NoPass == [group |-> <<>>, before |-> <<>>, batch |-> <<>>, attended |-> <<>>,
           predicted |-> <<>>]

\* The pass over a group whose batch is consistent.
Verify(group, win, b) ==
  \E m \in [1..Len(group) -> UNION {0..w.actual_len : w \in Range(win)}] :
    LET G == 1..Len(group)
        pred == [k \in G |-> Predictions(group[k], reqs[group[k]], win[k], m[k])]
        orig == Concatenated([k \in G |-> OriginalOutputs(reqs[group[k]], win[k])])
        rows == Concatenated([k \in G |->
                  pred[k] \o Repeat(Junk, win[k].padded_len - win[k].actual_len)])
        At(s, k) == [j \in 1..win[k].actual_len |-> s[ComparedRows(win, k)[j]]]
    IN  /\ \A k \in G : m[k] <= win[k].actual_len
        /\ reqs' = [i \in 1..Len(reqs) |->
                      IF i \in Range(group)
                      THEN LET k == CHOOSE k \in G : group[k] = i
                           IN  Compared(reqs[i], At(orig, k), At(rows, k))
                      ELSE reqs[i]]
        /\ kv' = Written(b)
        /\ taken' = taken \o group
        /\ pass' = [group |-> group, before |-> reqs, batch |-> b,
                    attended |-> [k \in G |->
                      [j \in 1..win[k].actual_len |->
                         Attends(b, k, ComparedRows(win, k)[j])]],
                    predicted |-> pred]

\* _run_verification.  A batch with more rows than cache locations raises, and
\* the exception leaves the call.
RunVerification(group, win, dummies) ==
  \E b \in {PrepareVerifyBatch(group, win, dummies)} :
    IF Len(b.out_cache_loc) # Len(b.input_ids)
    THEN /\ pc' = "raised"
         /\ pass' = [NoPass EXCEPT !.group = group, !.before = reqs]
         /\ UNCHANGED <<reqs, kv, taken>>
    ELSE Verify(group, win, b) /\ UNCHANGED pc

-----------------------------------------------------------------------------
(* The loops over groups                                                    *)

\* One iteration of the fixed-size loop: ready requests, then not-ready ones,
\* then dummies.
VerifyFixedBatch ==
  /\ pc = "loop" /\ fixed_pool
  /\ ready_idx < Len(ready_reqs)
  /\ LET r == Min2(FixedSize, Len(ready_reqs) - ready_idx)
         n == Min2(FixedSize - r, Len(not_ready_reqs) - not_ready_idx)
         group == SubSeq(ready_reqs, ready_idx + 1, ready_idx + r)
                    \o SubSeq(not_ready_reqs, not_ready_idx + 1, not_ready_idx + n)
     IN  /\ ready_idx' = ready_idx + r
         /\ not_ready_idx' = not_ready_idx + n
         /\ RunVerification(group, [k \in 1..Len(group) |-> WindowOf(reqs[group[k]])],
                            FixedSize - Len(group))
  /\ UNCHANGED <<fixed_pool, ready_reqs, not_ready_reqs>>

\* One chunk of _verify_deterministic_requests_batched.  The padding slots come
\* from the allocator; when it has none left the windows lose their padding
\* (and the process sends itself SIGTERM).
VerifyChunk ==
  /\ pc = "loop" /\ ~fixed_pool
  /\ ready_idx < Len(ready_reqs)
  /\ LET group == SubSeq(ready_reqs, ready_idx + 1,
                         Min2(ready_idx + FixedSize, Len(ready_reqs)))
         padded == [k \in 1..Len(group) |-> WindowOf(reqs[group[k]])]
         unpadded == [k \in 1..Len(group) |->
                        [padded[k] EXCEPT !.padded_len = padded[k].actual_len]]
     IN  /\ ready_idx' = ready_idx + Len(group)
         /\ \E win \in {padded, unpadded} : RunVerification(group, win, 0)
  /\ UNCHANGED <<fixed_pool, ready_reqs, not_ready_reqs, not_ready_idx>>

Return ==
  /\ pc = "loop" /\ ready_idx >= Len(ready_reqs)
  /\ pc' = "returned"
  /\ UNCHANGED <<fixed_pool, reqs, kv, ready_reqs, not_ready_reqs, ready_idx,
                 not_ready_idx, pass, taken>>

\* The slots of the pool's padding, of its dummies and of the requests.
Slots(batch) ==
  {<<"pad", j>> : j \in 1..(FixedSize * WindowSize)}
    \cup {<<"dummy", j>> : j \in 0..(FixedSize * WindowSize - 1)}
    \cup UNION {{KVSlot(i, x) : x \in 0..(CurrentSeqLen(batch[i]) - 1)} : i \in 1..Len(batch)}

\* The position of the last verified token.
ContextIdx(q) == q.prompt + q.verified - 1

\* What decode wrote.  When the verifier replaced the last token of a window,
\* the next decode still computed the entry of the token it replaced (stale).
DecodedKV(batch, stale) ==
  [s \in Slots(batch) |->
     IF s[1] # "kv" THEN Junk
     ELSE IF s[2] \in stale /\ s[3] = ContextIdx(batch[s[2]]) THEN Junk
     ELSE TokenAt(s[2], batch[s[2]], s[3])]

\* A call finds a batch whose tokens were appended and checked for finishing.
Init ==
  /\ fixed_pool \in BOOLEAN
  /\ reqs \in Batches
  /\ \E stale \in {{}, {i \in 1..Len(reqs) : reqs[i].is_deterministic}} :
       kv = DecodedKV(reqs, stale)
  /\ ready_reqs = <<>> /\ not_ready_reqs = <<>>
  /\ ready_idx = 0 /\ not_ready_idx = 0
  /\ pass = NoPass /\ taken = <<>> /\ pc = "collect"

Next == Collect \/ VerifyFixedBatch \/ VerifyChunk \/ Return

Spec == Init /\ [][Next]_vars

-----------------------------------------------------------------------------
(* Properties                                                               *)

\* The loops of check_and_verify_deterministic_requests take every ready
\* request exactly once, fill the last group as far as they can, and never take
\* a request that did not ask for determinism or was retracted.  The sets of
\* requests are those that DVR's VerifySets allows.
TakesVerifySet ==
  LET all == Range(ready_reqs \o not_ready_reqs)
      ready == Range(ready_reqs)
  IN  /\ Len(taken) = Cardinality(Range(taken))
      /\ \A i \in Range(taken) : reqs[i].is_deterministic /\ ~reqs[i].is_retracted
      /\ pc = "returned" =>
           Range(taken) \in IF fixed_pool THEN FixedGroupSets(all, ready, FixedSize)
                                         ELSE {ready}

\* With the pool every verification pass has the same shape, FixedSize requests of WindowSize
\* tokens, whatever is ready: "Grouped verification requires that every
\* verification pass processes exactly fixed_size requests of window_size
\* tokens each" (FixedSizeVerificationPool).
FixedShape ==
  fixed_pool /\ pass.batch # <<>> =>
    /\ pass.batch.extend_lens = Repeat(WindowSize, FixedSize)
    /\ Len(pass.batch.req_pool_indices) = FixedSize
    /\ Len(pass.batch.input_ids) = FixedSize * WindowSize
    /\ Len(pass.batch.sampling) = FixedSize * WindowSize

\* What verify_and_compare compares with the k-th token of a window was sampled
\* with the request's own parameters from exactly the tokens before it, although
\* windows, padding and dummies of several requests share one flat batch.
ContextsAreOwn ==
  \A k \in DOMAIN pass.attended : \A j \in DOMAIN pass.attended[k] :
    LET i == pass.group[k]
        q == pass.before[i]
    IN  pass.attended[k][j] =
          [tokens |-> [x \in 0..(ContextIdx(q) + j - 1) |-> TokenAt(i, q, x)],
           params |-> i]

\* Verification never damages a KV cache: the entry of every position of every
\* request, verified in this call or not, is that of its token.  Only an entry
\* that decode left stale may be wrong, until the request is verified.
CachesIntact ==
  \A i \in 1..Len(reqs) : \A x \in 0..(CurrentSeqLen(reqs[i]) - 1) :
    \/ kv[KVSlot(i, x)] = TokenAt(i, reqs[i], x)
    \/ /\ reqs[i].is_deterministic /\ i \notin Range(taken)
       /\ x = ContextIdx(reqs[i])

\* verify_and_compare is "guaranteeing at least one new consistent token per
\* pass": each request of a pass gains verified tokens, all of them the
\* verifier's, and its verified tokens stay as they were.
GainsVerifierTokens ==
  \A k \in DOMAIN pass.predicted :
    LET i == pass.group[k]
        old == pass.before[i].verified
        new == reqs[i].verified
    IN  /\ old < new /\ new <= Len(reqs[i].output_ids)
        /\ SubSeq(reqs[i].output_ids, 1, new) =
             SubSeq(pass.before[i].output_ids, 1, old)
               \o SubSeq(pass.predicted[k], 1, new - old)

\* output_token_logprobs_idx follows output_ids through every comparison and
\* rollback: each output token keeps one log-probability, its own.
LogprobsFollowOutput ==
  \A i \in 1..Len(reqs) : reqs[i].logprobs = reqs[i].output_ids

\* The consistency check of prepare_verify_batch raises exactly for a group of
\* the fixed pool with more than a window to verify (DVR's WindowOverrun).
RaisesOnOverrun ==
  pc = "raised" <=>
    /\ fixed_pool
    /\ \E i \in Range(pass.group) : Unverified(pass.before[i]) > WindowSize

=============================================================================

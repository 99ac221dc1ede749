# A verification project for LLM-42

LLM-42 serves an LLM deterministically without deterministic kernels: it decodes
with the fast kernels, which may sample another token when the load changes, and
re-computes windows of tokens with a reproducible pass ("verification"). Tokens
that differ are rolled back. This directory holds TLA+ models of that machinery
in the scheduler of SGLang, TLC configurations that check them on small
instances, and theorems that TLAPS checks for all instances.

Everything is modelled from the source under `src/python/sglang/srt`, in the
configuration of the repository's launch scripts: `--enable-llm42`,
`--disable-radix-cache`, `--disable-overlap-schedule`,
`--chunked-prefill-size -1`. There the scheduler runs `event_loop_normal`, the
prefix cache is `ChunkCache`, pages have one slot, and a prompt is prefilled in
one pass.

## 1. The system

| Part | State | Operations | Source |
|---|---|---|---|
| Request | `output_ids`, `llm42_verified_tokens`, `finished_reason`, `finished_len`, `to_finish`, `finished_output`, `send_token_offset`, `kv_committed_len`, `kv_allocated_len`, `req_pool_idx` | `check_finished`, `output_ids_through_stop`, `reset_for_retract` | `managers/schedule_batch.py` |
| Batch | `reqs`, `output_ids` (next inputs), `seq_lens` | `prepare_for_extend`, `prepare_for_decode`, `filter_batch`, `check_decode_mem`, `retract_decode`, `retract_all`, `release_req` | `managers/schedule_batch.py` |
| Scheduler | waiting queue, running batch, `batch_is_full` | `handle_generate_request`, `event_loop_normal`, `get_next_batch_to_run`, `update_running_batch`, `abort_request`, `pause_generation`, `flush_cache` | `managers/scheduler.py` |
| `PrefillAdder` | budgets of the prefill batch that is put together | `add_one_req`, `_update_prefill_budget`, `budget_state` | `managers/schedule_policy.py` |
| Output processor | – | `process_batch_result_prefill`, `process_batch_result_decode`, `stream_output_generation` | `managers/scheduler_output_processor_mixin.py` |
| Verifier | `FixedSizeVerificationPool` (dummy slots, rows, padding slots) | `check_and_verify_deterministic_requests`, `_verify_fixed_batch`, `_verify_deterministic_requests_batched`, `_run_verification`, `_update_batch_state` | `llm42/llm42_worker.py` |
| Verification batch | one per pass | `from_requests`, `prepare_verify_batch`, `first_mismatch_position`, `verify_and_compare`, padding allocation | `llm42/llm42_info.py` |
| Detokenizer | `DecodeStatus` per request | `_decode_batch_token_id_output`, `trim_matched_stop`, `find_printable_text` | `managers/detokenizer_manager.py` |
| KV memory | free list of slots, free list of rows, `req_to_token` | `alloc`, `free`, `write`, `clear`, `alloc_for_extend`, `alloc_for_decode`, `release_kv_cache` | `mem_cache/` |

How they interact. The scheduler is one thread, so one iteration of the event
loop is atomic with respect to control messages, which are handled between two
iterations. An iteration either prefills (a deterministic request alone) or
decodes one token for every running request. After a decode, every request is
checked for a finish condition; the verifier takes the deterministic requests
that finished or filled their window, and fills the last group with others and
with dummies so that each pass has the same shape; it overwrites KV entries in
place, compares, and shortens `output_ids` at the first mismatch, where it puts
its own token. The output processor then frees the KV positions that were rolled
back, checks the request again, releases what is finished and streams what is
verified. When memory runs out, requests are retracted: they keep their outputs,
lose their cache and come back through another prefill.

What makes this hard to get right:

- one iteration decides three times whether a request is finished: after the
  decode, through the rollback, and after it. Three counters and a stream offset
  have to follow `output_ids` through this;
- entries are written by passes of different numerics to the same KV positions,
  and a verification is only worth something if what it attends to was not
  computed by the decoder;
- slots are freed by rollback and by release in the same iteration, with stale
  entries left in `req_to_token`;
- deterministic prefills run alone, so a younger request may overtake an older
  one; admission keeps five counters and a flag that is set on one path and
  reset on others;
- verified tokens are cut into chunks by windows, not by words: the text a client
  reads is pieced together from offsets that the scheduler and the detokenizer
  keep separately;
- a retraction can happen in the middle of a window, an abort in the iteration
  of a rollback, and the fixed pool may be missing.

`PROJECT.json` lists these as hazards, each at its line.

## 2. The modules

| Module | Lines of code it stands for | Role |
|---|---|---|
| `Grouping` | group forming in `check_and_verify_deterministic_requests` | which sets of requests a round of verification may take, without loops |
| `DVR` | request life cycle across prefill, decode, verification, rollback, release, streaming, retraction, abort | the core: determinism of what clients receive |
| `DetStream` | – | abstract specification: what one client is promised |
| `DVRStream` | – | the refinement mapping from `DVR` to one `DetStream` per request |
| `VerifyBatch` | one call of the verifier: selection, loops, flat batch, cache locations, comparison | justifies the single step that `DVR` takes for it |
| `KVSlots` | allocator, `req_to_token`, fixed pool's reservation, prefill, decode, rollback, release, retraction, flush | who owns which KV slot and row |
| `PrefillQueue` | arrival, limits, the scan of the waiting queue, `PrefillAdder`, merging, decode with retraction | who is admitted when, and that everybody is |
| `Detokenizer` | incremental decoding of one request's chunks | from token ids to text |
| `DVRClient` | `init_incremental_detokenize`, the hand-over in `stream_output_generation` | composes `DVR` and `Detokenizer`: the text a client reads |
| `Lists` | – | list operations that `PrefillQueue` and `VerifyBatch` share: filtering, concatenation, running totals |
| `DVRStages`, `DVRProofs` | – | lemmas on the stages of an iteration; the induction and the refinement |
| `KVSlotsDecode`, `KVSlotsProofs` | – | lemmas on slots, tables and the decoding step; the theorems about `KVSlots` |
| `ListLemmas` | – | what the operations of `Lists` return, for lists of any length |
| `VerifyBatchLemmas`, `VerifyBatchProofs` | – | lemmas on one group's flat batch; the loops, the cache and the theorems about `VerifyBatch` |
| `PrefillQueueProofs` | – | the theorems about `PrefillQueue`: the queue, its order, isolation, and that memory suffices |
| `MCDVR`, `MCDVRClient`, `MCVerifyBatch`, `MCKVSlots`, `MCPrefillQueue` | – | instances for TLC |

**DVR.** `req[r]` is the `Req` object, with the source's field names (`verified`
for `llm42_verified_tokens`; `next_input` for the request's entry of
`batch.output_ids`). `Prefill(r)` and `DecodeStep` are whole iterations,
`AbortRequest` and `PauseRetract` control messages. Numerics are abstracted as
follows. The decoder samples *any* token. The verifier and the first, isolated
prefill follow `Ref[r]`, the continuation of the prompt, provided that every KV
entry they attend to was computed from the right token by a pass that is
reproducible (`TrustedPasses`); `kv` records for every entry its token and its
pass. On any other context the verifier may follow `AltRef[r]` instead. In modes
1 and 2 the extend kernels do not depend on the shape of the batch; in mode 3
they are reproducible only for a fixed shape, so neither a resumed prefill nor a
verification outside the fixed pool is trusted. How many requests a memory
shortage retracts is any number the code's order of victims allows.

**VerifyBatch.** Tokens and KV slots are labels, and the forward pass is modelled
by what each row attends to, read through `req_to_token` after the pass wrote
its own entries to `out_cache_loc`. Start offsets, padding, dummies and the
comparison's offsets are those of the code. The initial states are all batches a
decode can leave behind, the fixed pool present or not; predictions are any
match, or a mismatch at any position.

**KVSlots.** Output lengths stand for outputs; the first mismatch, and whether a
request finishes, are any choice the code allows. Slots of positions are looked
up in `req_to_token` as the code does, so stale entries are really there. The
free list is a set plus the flag `double_freed`. A failing pool allocation is
modelled at each point at which it can fail. Several prompts prefilled in one
batch are prefilled one after another, as their effects on slots are
independent.

**PrefillQueue.** Requests of both kinds, as lengths. `HandleGenerateRequest` and
`AbortRequest` are control messages between two iterations; an iteration is the
sequence `MergeLastBatch`, then either a scan and `RunPrefill`, or
`UpdateRunningBatch`. The scan of the queue is one step per request
(`ScanQueue`), since each depends on the budgets the one before left; `pc` says
where the iteration stands, and nothing else happens inside it. `RunningOffsets`
replaces `new_token_ratio`, a floating-point number that retractions and decodes
move between 0 and 1, by any share of the running requests' remaining tokens; the
comparisons in the code do not tell a fraction from the integer below it. The
outcome of a decode is a choice, constrained as `DVR` and `VerifyBatch` justify:
a verification keeps a prefix longer than what was verified before. Where an
allocation raises, there is no step, so that a failure is a deadlock besides a
violated invariant.

**Detokenizer, DVRClient.** A token is either a whole character, possibly a blank,
or a part of one; a text is a sequence of characters, and an incomplete one at its
end is the replacement character. `Decoded` is `_decode_batch_token_id_output` for
one request with its three offsets, on texts as the tokenizer would return them.
`find_printable_text` is modelled by its last rule, up to the last blank; the
rules for line ends and Chinese characters let more through. The scheduler and
the detokenizer are two processes, but the socket between them keeps order and
loses nothing, and the detokenizer has no other input; a chunk is therefore
decoded in the step that sends it. `ClientSpec` implies `Spec` of `DVR`, so the
theorems about `DVR` hold for the composition.

How they fit: `VerifyBatch` shows that the loops take a set allowed by
`FixedGroupSets` (which `DVR` and `KVSlots` use), that a pass of the fixed pool
raises exactly when a window is longer than `WindowSize` (`WindowOverrun`,
`VerifyFails`), that compared tokens depend only on the request's own context
(`DVR` treats requests of a pass independently), and that every pass gains
tokens. `DVR`, `KVSlots` and `PrefillQueue` abstract the same iteration: one keeps
tokens, one slots, one lengths and the order of requests. `PrefillQueue` shows
what the other two take for granted, that a waiting request is eventually
prefilled, alone if it is deterministic, and finds its slots.

## 3. Properties and runs

| Run | Instance | What it shows |
|---|---|---|
| `client` | mode 1, two requests, one streaming, four new tokens, window 2, one retraction each; five tokens of which one is a part of a character and one ends with a blank | `StreamIsReference`: only tokens of the reference continuation are sent, each once. `CompleteAnswer`: a request that ends by length or stop token got the one answer its prompt determines. `KVMatchesOutput`, `ContextIsVerified`: the cache follows the output and verified context never holds a decoder's entry. `BacklogBound`: verification keeps up. `ReleasedIsAnswered`: no request is released while its output still waits. `VerifiedIsStable`: rollback never reaches a verified token. `EveryClientServed`: refinement of `DetStream`. `ClientReadsText`: the pieces of text a client gets are the text of its tokens, without an incomplete character, a repetition or the stop string |
| `answered` | mode 3, window 3, stream interval 2, no retraction, with fairness | determinism, completeness, context and text in mode 3; `EveryRequestAnswered`: rollbacks cannot keep a request decoding for ever |
| `verify_batch` | all batches of up to three requests, window 3, groups of 2 | `TakesVerifySet`, `FixedShape`, `CachesIntact`, `ContextsAreOwn`, `GainsVerifierTokens`, `LogprobsFollowOutput`, `RaisesOnOverrun` |
| `kv_slots` | three requests, 11 slots, of which a complete pool takes six | `SlotsPartitioned`, `RowsPartitioned`, `NoDoubleFree`, `LengthsAgree` (the assertion of `release_kv_cache`), `VerifiedSlotsStay` |
| `prefill_queue` | five requests, two deterministic, one with a prompt that is too long; 12 slots of which 3 are reserved, two rows, a queue of three; with fairness | `PrefillFits`: a prefill batch finds its slots and rows. `DeterministicAlone`. `OvertakenOnlyForIsolation`: the head of the queue is never passed, and only deterministic requests are, by others. `LastRequestDecodes`: retraction always leaves a batch that can decode. `FullBatchShrinks`: whenever `batch_is_full` is set there is a batch that will reset it. `EveryRequestServed`: every queued request leaves the scheduler |

Each property is broken by a mutant of the definitions it is about (a dropped
guard, an offset, a missing reset); the mutants stand next to the definitions
they change, and `PROJECT.json` pairs them with properties.

Seven more runs end in a counterexample. Each checks one property, which states
what a comment, docstring or assertion of the repository says:

| Run | Property | What happens |
|---|---|---|
| `overrun` | `VerificationNeverFails` | a request retracted with a nearly full window resumes with one unverified token more; a window of `WindowSize + 1` tokens makes `prepare_verify_batch` raise out of the event loop |
| `hang` | `FinishedIsOutput` | a request that finishes in a resumed prefill is released with unverified tokens, and no later step outputs it |
| `text` | `TextMatchesTokens` | a rollback clears `finished_reason` but not `finished_len`; the next chunk is cut at the withdrawn stop although more is verified, `cur_decode_ids_len` moves on, and a token is never decoded: the client receives the ids *a c b a* and reads *a c a* |
| `abort` | `AbortIsFinal` | a rollback in the iteration in which an abort takes effect clears it |
| `resume` | `EveryStreamIsReference` | in mode 3 a resumed prefill rebuilds the context in another shape |
| `flush` | `PoolNotShared` | `flush_cache` puts the pool's slots and rows on the free lists, and the pool keeps using them |
| `stall` | `EveryRequestServed` | the limits on lengths come from the pool before the fixed pool takes its share; a prompt within them that cannot fit sets `batch_is_full` on an empty running batch, and as only a batch that shrinks resets it, no request is prefilled any more, even after that one was aborted |

Some observations have no run.

- A mismatch in the *last* token of a window replaces the token but reports no
  rollback, so `batch.output_ids` keeps the rejected token and the next decode
  computes one KV entry from it; the next verification overwrites that entry
  (`RewrittenKV` starts at the last verified token), which is why
  `ContextIsVerified` and `CachesIntact` hold nevertheless.
- When the pool cannot be allocated, mode 3 runs on with shapes that depend on
  the load; `StreamIsReference` therefore excludes that case (`Reproducible`).
  If its constructor raises half way, what it took is neither freed nor counted
  in `reserved_kv_slots`, and the idle memory check reports a leak.
- `init_req_max_new_tokens` runs before `validate_input_length`, so an over-long
  prompt, cut to one token, has a negative `max_new_tokens`. A deterministic one
  ends the scan that admits it. After one that is not, the budget of the same
  scan is larger than what is free, and `PrefillFits` may fail; hence the
  hypothesis of the theorem about it.
- A request that is retracted when the queue is full is refused like a new one.
- The early return for a full row table (`scheduler.py:2062`) is only taken with
  a chunked request; without one, the same test in the loop has the same effect.
- `verify_and_compare` moves `send_output_token_logprobs_offset` past values
  that were not sent yet (`llm42_info.py:802`), and `output_top_logprobs` is not
  cut by a rollback; both concern requests with `return_logprob` only.
- Deterministic requests stream without `check_match_stop_str_prefix`.

### Bounds, and why they are enough

- Two requests in `DVR`: requests interact only through group forming and the
  choice of victims, and with two of them a group is full, partly filled, or
  filled with a request that is not ready. `VerifyBatch` has three, so that one
  round has two groups.
- Window 2 and four new tokens give two windows, a partial last window, and a
  mismatch at the first, a middle and the last position; window 3 (`answered`,
  `VerifyBatch`) adds a position that is neither first nor last.
- One retraction per request, at any point of a window, lets a resumed prefill
  follow every kind of state; the theorems cover any number.
- The vocabulary has a token of each kind: ordinary ones, a stop token, one that
  completes a stop string, in `client` also a part of a character and a blank.
  The references end by length and by stop string in `client`, by length and by
  stop token in `answered`.
- `kv_slots`: the free slots are fewer than the requests may need together, so
  retraction happens, also with a single request left (`Crash`). `LowestFirst`
  restricts TLC to the allocator's order after sorting; the proofs do not.
- `prefill_queue`: two requests that fit one by one but not together, a pool in
  which decoding runs out of slots, a prompt above the length limit, a queue that
  refuses, a row table smaller than `MaxRunning`, a prompt larger than
  `MaxPrefillTokens`, and `CLIP_MAX_NEW_TOKENS` small enough to matter: every
  branch of the scan is taken, requests are retracted, and a retracted request is
  refused. Each prompt that is accepted fits the pool by itself, unlike in
  `stall`. Each request arrives once, and one request of each kind may be aborted
  at any point of its life.
- `MaxRetractions` is the only bound on the behaviours of `DVR`; lengths are
  bounded by the code itself (`max_new_tokens`).

Deadlock is not an error in `DVR`, `VerifyBatch` and `KVSlots`: a server whose
requests are all answered, or that has crashed, stops. It is one in
`PrefillQueue`, whose event loop always has a next step.

### Fairness

`Fairness` of `DVR` is weak fairness of `DecodeStep` and of each `Prefill(r)`: the
loop never stops and decodes what runs, and a request that waits is prefilled.
The second part is what `PrefillQueue` shows, with weak fairness of the event
loop's steps alone (`FairSpec`): `while True` in `event_loop_normal` justifies
that, and arrivals and aborts need not happen. The run `answered` has no
retraction: with one, a request may never be answered, as `hang` and `overrun`
show.

## 4. Proofs

All theorems hold for every set of requests, window, batch size, pool size and
reference; the constants' assumptions are `DVRAssumption`, `KVSlotsAssumption`,
`VerifyBatchAssumption` and `PrefillQueueAssumption`. Every inductive invariant
was checked by TLC on the instances of section 3 before it was proved.

**`DVRStages`, `DVRProofs`.** `IndInv` is inductive (`Inductive`). None of the properties is
by itself: what is sent is right only because what is verified is, which needs
the context to be trusted, which needs the cache to follow the output, and the
finish reasons have to be the right ones at the end of an iteration although they
are not in its middle. So `RequestOK` splits into what holds at every point of an
iteration (`RecordOK`) and what holds between two (`ReasonOK`, `CacheOK`, the
backlog), and the proof follows a request through `AfterDecode`, `AfterVerify`,
`CheckFinished`, `Release` and `StreamOutput`. From it follow `TypeCorrect`,
`StreamDeterminism`, `AnswerDeterminism`, `CacheLengthCorrect`, `CacheCorrect`,
`BacklogBounded`, `ReleaseCorrect` and the action property `RollbackCorrect`.
`ClientsServed`: outside mode 3, `Spec` implements `EveryClientServed`; each step
is a step or a stutter of every client.

**`KVSlotsDecode`, `KVSlotsProofs`.** `SlotInv` is inductive (`SlotsInductive`), `flush_cache`
included. The argument follows the function from held positions to slots
(`SlotMap`), which together with the free list divides up the slots (`Divides`).
Freeing positions and allocating new ones keep this (`FreeDivides`,
`AllocDivides`); `WriteSlotsOK` says that writing the table does what it should
because rows are apart; `SettleDivides` is the heart: the positions a rollback
frees are exactly those between the new and the old committed length, so nothing
is freed twice even if the request is released in the same step. Lengths are
needed for the new position to be the next one (`LengthsAgree`) and to fit the
row. From it follow `SlotTypes`, `SlotsSafe`, `RowsSafe`, `NothingFreedTwice`,
`CountersAgree` and the action property `VerifiedSlotsSafe`.

**`ListLemmas`.** `Filtered`, `Concatenated` and `OffsetAfter` are defined by
recursion over a list. The prover has no induction principle for data that it
could instantiate, so the lemmas argue by a least counterexample (`LeastNat`:
every non-empty set of naturals has a least element): the shortest prefix for
which the claim fails has a predecessor for which it holds, and unfolding the
recursion once contradicts that. In this way they show that a filtered list has
the members it should, in order and without repetition (`FilteredOK`), that parts
of a concatenation lie one behind the other (`ConcatenatedParts`), and that each
position of the whole belongs to exactly one part (`OffsetSplits`).

**`VerifyBatchLemmas`, `VerifyBatchProofs`.** `CallInv` is inductive
(`CallInvariant`) and has three parts.

- `LoopInv` is about the loops: both lists have distinct deterministic requests,
  those from the index on still have tokens to verify, what was taken is what lies
  before the indices (`TakenOK`), and a request that is not ready is taken only in
  the last group, whose free places then count (`Progress`). `TakesVerifySet`
  follows at the end of the loop; it is not inductive, since it says nothing of
  where a loop stands.
- `CacheInv` is `CachesIntact` together with the fact that every position has a
  slot.
- `PassInv` collects what is said of the last pass: `FixedShape`,
  `ContextsAreOwn`, `GainsVerifierTokens`, `RaisesOnOverrun`.

The argument for a pass goes through the flat batch. `BatchOK` says which token,
location and sampling parameters each row has: row `j` of the `k`-th window stands
behind all rows of the windows before it. `RowOwner`: a slot of a request is
written only by a row of its own window, with the token that the request has
there; padding and dummies write elsewhere. So what a row attends to is its
request's own tokens (`AttendsOwn`), which needs `CacheInv` for the positions before
the window, and needs that a stale entry is always inside the window. The other
requests' entries stay as they are, and so do those of positions that survive the
rollback (`CacheKept`). The comparison reads the rows of the own window
(`RowOffsetOK`), so what a request gains is the verifier's
(`PassGainsVerifierTokens`). The length check of `prepare_verify_batch` fails
exactly when some window is cut (`RaisesUnlessWhole`), which only the fixed pool
does. From `CallInv` follow, for every batch of requests, window and group size,
`LoopTakesVerifySet`, `PassHasFixedShape`, `PassContextsAreOwn`, `PassKeepsCaches`,
`PassGainsVerifierTokens`, `RollbackKeepsLogprobs` and `RaisesOnlyOnOverrun`: the
facts that `DVR`, `KVSlots` and `PrefillQueue` take as one step.

**`PrefillQueueProofs`.** `QueueInv` says that the queue lists the waiting requests,
each once, that what a scan has let in was waiting, and of the adder that its flag
`has_deterministic` is set whenever the batch so far has a deterministic request,
which is then all it has (`QueueListsWaiting`, `DeterministicPrefillAlone`). The
other invariants build on it.

- `OrderInv`: up to the position of the scan only deterministic requests were
  passed over, and only behind the head (`ServedInOrder`).
- `BudgetInv`: what the adder let in needs no more than is free *and* no more than
  its total offset accounts for, and the rows are there (`Budgeted`). The first
  follows from the test of the next request only because of the second, and the
  second only if no request lowers the offset. That is the hypothesis
  `PromptsWithinLimit`, that a prompt of a request that is not deterministic is
  shorter than `max_req_len`; for deterministic ones nothing need be assumed, as
  the scan ends behind them (`PrefillNeverOutOfMemory`).
- `PoolInv`: what is not available is held by the running batch or by the prefill
  batch about to be merged. With it, `FullInv` shows that a scan with nothing
  running never refuses its first request, so that `batch_is_full` is set only while
  there is a batch to reset it (`NeverStuckFull`). The hypothesis `RequestsFit`,
  that prompt and output of each request fit the pool, is what `stall` violates.
- `AdmitInv`: every admitted request fits the pool by itself, hence the one that
  `retract_decode` keeps has a slot for its next token (`LastRequestHasASlot`), under
  `PromptsWithinLimit` and `OutputsFit`: an output longer than
  `CLIP_MAX_NEW_TOKENS` is not counted in full at admission and must fit by itself.
- `UnreservedPoolServes`: when the fixed pool reserves nothing and the pool has at
  least eight slots, the limits that `handle_generate_request` enforces imply the
  hypotheses of `NeverStuckFull` and `LastRequestHasASlot`. What makes them
  necessary is the reservation alone.

The run `prefill_queue` and `NeverStuckFull` complement each other: its instance has
requests whose output is larger than `RequestsFit` allows, where the property holds
because of the lengths chosen; the theorem covers all lengths that fit.

Only model-checked:

- `EveryRequestAnswered`, `EveryRequestServed`: liveness under fairness is out of
  the prover's reach;
- `ClientReadsText`: what the detokenizer computes is compared with a definition
  that is itself recursive over texts, declared `RECURSIVE` for TLC; a module with
  such a declaration cannot be reasoned about with the SMT backend.

## 5. Not modelled

- Numerics: kernels, layers, sampling. Their reproducibility is the assumption
  that `TrustedPasses` and `VerifierReproducible` spell out.
- Overlapped scheduling, radix and hierarchical caches, chunked prefill, paged,
  sliding-window and Mamba pools, speculative decoding, LoRA, priorities and
  disaggregation: switched off, or not switched on, in LLM-42's launch scripts.
  The code does not exclude these combinations, and nothing here is claimed about
  them.
- In admission, `add_one_req_ignore_eos` (requests with `ignore_eos` simulate the
  release of tokens over time), `pause_generation` and `--allow-auto-truncate`.
- In the detokenizer, the eviction of decode states beyond 65536 requests, the
  prompt's last tokens as left context, stop strings that span tokens,
  `no_stop_trim`.
- Grammars, log-probability offsets of the stream, the injected mismatches of
  `--llm42-skip-mismatch`, the tokenizer process, HTTP entry points, the model
  gateway.

The repository is the whole of SGLang: models, kernels, layers, backends, a
router and benchmarks make up nearly all of its half million lines, and are
either numerical or do not take part in LLM-42. What is modelled is what LLM-42
added and the scheduler, memory and streaming code it changes the rules for.

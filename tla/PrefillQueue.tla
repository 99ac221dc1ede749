---------------------------- MODULE PrefillQueue ----------------------------
(***************************************************************************)
(* Admission: how handle_generate_request, get_next_batch_to_run,          *)
(* PrefillAdder and update_running_batch move requests between the waiting *)
(* queue, the prefill batch and the running batch (first come first        *)
(* served, no chunked prefill, no prefix cache, page size 1).              *)
(*                                                                         *)
(* The scan of the waiting queue is a loop in which every step depends on  *)
(* the budgets left by the step before, so it is modelled step by step; pc *)
(* says where the iteration of the event loop stands.  Lengths stand for   *)
(* token lists.  Whether a sampled token ends a request, and how much of a *)
(* window its verification keeps, is any choice the code allows.           *)
(***************************************************************************)
EXTENDS Integers, Sequences, FiniteSets, Functions, Lists

CONSTANTS
  Reqs,             \* the requests that may arrive
  Deterministic,    \* those with is_deterministic=True
  Abortable,        \* those a client or a timeout may abort
  InputLen,         \* InputLen[r]: tokens of r's prompt
  RequestedNew,     \* RequestedNew[r]: the max_new_tokens r asks for
  PoolSize,         \* max_token_pool_size
  ReservedSlots,    \* slots FixedSizeVerificationPool takes from the pool
  MaxRunning,       \* pp_max_micro_batch_size
  ReqRows,          \* rows of ReqToTokenPool that are not reserved
  MaxPrefillTokens, \* max_prefill_tokens
  ClipMaxNew,       \* CLIP_MAX_NEW_TOKENS
  MaxQueued,        \* max_queued_requests
  WindowSize        \* llm42_window_size

ASSUME PrefillQueueAssumption ==
  /\ IsFiniteSet(Reqs) /\ Deterministic \subseteq Reqs /\ Abortable \subseteq Reqs
  /\ InputLen \in [Reqs -> Nat \ {0}] /\ RequestedNew \in [Reqs -> Nat \ {0}]
  /\ PoolSize \in Nat /\ ReservedSlots \in 0..PoolSize
  /\ MaxRunning \in Nat \ {0} /\ ReqRows \in Nat \ {0}
  /\ MaxPrefillTokens \in Nat \ {0} /\ ClipMaxNew \in Nat \ {0}
  /\ MaxQueued \in Nat \ {0} /\ WindowSize \in Nat \ {0}

VARIABLES
  req,           \* request -> its record, see RequestType
  waiting_queue, \* the waiting queue
  running,       \* running_batch.reqs, finished requests not yet filtered out
  batch_is_full, \* running_batch.batch_is_full
  last_batch,    \* the requests of last_batch if that was a prefill, or {}
  available,     \* available_size() of the token allocator
  adder,         \* the PrefillAdder of the current scan, see NewAdder
  pc             \* "top", "scan", "prefill" or "decode"

vars == <<req, waiting_queue, running, batch_is_full, last_batch, available,
          adder, pc>>

Capacity == PoolSize - ReservedSlots

Status == {"new", "waiting", "batched", "finished", "aborted"}

RequestType ==
  [status : Status, input_len : Nat, max_new_tokens : Int, out : Nat,
   verified : Nat, to_finish : BOOLEAN]

\* The requests that hold a row and KV slots.
Batched == {r \in Reqs : req[r].status = "batched"}

Least(a, b) == IF a < b THEN a ELSE b
Most(a, b) == IF a > b THEN a ELSE b

\* Every token but the last sampled one has a KV entry.
HeldSlots(q) == IF q.status = "batched" THEN q.input_len + q.out - 1 ELSE 0

\* The KV entries of the requests S, each in a slot of its own, and what those of
\* all requests leave of the pool.
Entries(f, S) == UNION {{r} \X (1..HeldSlots(f[r])) : r \in S}
FreeSlots(f) == (0..Capacity) \cap {Capacity - Cardinality(Entries(f, DOMAIN f))}

-----------------------------------------------------------------------------
(* Arrival                                                                  *)

\* TpModelWorker: the limits are derived from the pool before the fixed pool
\* of the verifier reserves its share.  The context length is not the limit.
MaxReqLen == PoolSize - 1
MaxReqInputLen == MaxReqLen - 5

\* Mutation: max_new_tokens is taken as requested.
ReceivedUnclipped(r) ==
  LET too_long == InputLen[r] >= MaxReqInputLen
  IN  [status |-> "waiting",
       input_len |-> IF too_long THEN 1 ELSE InputLen[r],
       max_new_tokens |-> RequestedNew[r],
       out |-> 0, verified |-> 0, to_finish |-> too_long]

\* init_req_max_new_tokens, then validate_input_length: a prompt that is too
\* long becomes a request of one token that ends in its prefill
\* (set_finish_with_abort), with max_new_tokens as computed for the long one.
Received(r) ==
  LET too_long == InputLen[r] >= MaxReqInputLen
  IN  [status |-> "waiting",
       input_len |-> IF too_long THEN 1 ELSE InputLen[r],
       max_new_tokens |-> Least(RequestedNew[r], MaxReqLen - InputLen[r] - 1),
       out |-> 0, verified |-> 0, to_finish |-> too_long]

\* _add_request_to_queue for the requests of the sequence s in turn: those that
\* find the queue full are refused (_abort_on_queued_limit), also when they were
\* retracted.
Room == MaxQueued - Len(waiting_queue)
\* Mutation: the limit is not enforced.
QueuedNoLimit(s) == s
Queued(s) == SubSeq(s, 1, Least(Most(Room, 0), Len(s)))
Refused(s) == Range(SubSeq(s, Most(Room, 0) + 1, Len(s)))

\* handle_generate_request
HandleGenerateRequest(r) ==
  /\ pc = "top" /\ req[r].status = "new"
  /\ waiting_queue' = waiting_queue \o Queued(<<r>>)
  /\ req' = [req EXCEPT ![r] =
               IF r \in Refused(<<r>>) THEN [@ EXCEPT !.status = "aborted"]
               ELSE Received(r)]
  /\ UNCHANGED <<running, batch_is_full, last_batch, available, adder, pc>>

\* abort_request, and the waiting and running timeouts: a waiting request leaves
\* the queue, a batched one ends with its next token.
AbortRequest(r) ==
  /\ pc = "top" /\ r \in Abortable
  /\ \/ /\ req[r].status = "waiting"
        /\ req' = [req EXCEPT ![r].status = "aborted"]
        /\ waiting_queue' = Filtered(waiting_queue, Reqs \ {r})
     \/ /\ req[r].status = "batched" /\ ~req[r].to_finish
        /\ req' = [req EXCEPT ![r].to_finish = TRUE]
        /\ UNCHANGED waiting_queue
  /\ UNCHANGED <<running, batch_is_full, last_batch, available, adder, pc>>

-----------------------------------------------------------------------------
(* PrefillAdder                                                             *)

ExtendInputLen(q) == q.input_len + q.out

RemainingNew(q) == Least(Most(q.max_new_tokens - q.out, 0), ClipMaxNew)

TotalTokens(q) == ExtendInputLen(q) + RemainingNew(q)

\* pos is the loop's position in the waiting queue; extend_num_tokens is what
\* prepare_for_extend is going to allocate.
NewAdder(offset) ==
  [pos |-> 1, can_run_list |-> {}, rem_total_token_offset |-> offset,
   cur_rem_token_offset |-> 0, rem_input_tokens |-> MaxPrefillTokens,
   extend_num_tokens |-> 0, has_deterministic |-> FALSE]

\* Without a scan: no adder.
NoAdder == NewAdder(0)

\* What the adder may set aside for the running requests: their remaining
\* tokens times new_token_ratio, a number between 0 and 1 that retractions
\* raise and decode steps lower.  Any share of the sum is possible.
RemainingTotal(reqs) ==
  Cardinality(UNION {{r} \X (1..RemainingNew(req[r])) : r \in reqs})
RunningOffsets(reqs) == {n \in 0..Capacity : n <= RemainingTotal(reqs)}

RemTotalTokens(a) == available - a.rem_total_token_offset
CurRemTokens(a) == available - a.cur_rem_token_offset

\* _update_prefill_budget with r appended to can_run_list.
WithRequest(a, r) ==
  LET n == ExtendInputLen(req[r])
  IN  [a EXCEPT
         !.can_run_list = @ \cup {r},
         !.rem_total_token_offset =
             @ + n + Least(req[r].max_new_tokens, ClipMaxNew),
         !.cur_rem_token_offset = @ + n,
         !.rem_input_tokens = @ - n,
         !.extend_num_tokens = @ + n,
         !.has_deterministic = r \in Deterministic]

\* The first tests of add_one_req.
NoTokens(a, q) == TotalTokens(q) >= RemTotalTokens(a)
TooManyInputs(a, q) ==
  a.can_run_list # {} /\ ExtendInputLen(q) >= a.rem_input_tokens

\* budget_state
BudgetState(a) ==
  IF RemTotalTokens(a) <= 0 \/ CurRemTokens(a) <= 0 THEN "no_token"
  ELSE IF a.rem_input_tokens <= 0 THEN "other"
  ELSE "continue"

\* Mutation: without the cap by the rows that are free.
NumAllocatableNoCap == MaxRunning - Cardinality(running)

\* get_num_allocatable_reqs
NumAllocatable ==
  Least(MaxRunning - Cardinality(running), ReqRows - Cardinality(Batched))

-----------------------------------------------------------------------------
(* One iteration of the event loop                                          *)

\* The first part of get_next_batch_to_run.  The last prefill batch is filtered
\* and merged into the running batch; it takes the place of an empty one, and
\* its own batch_is_full is still False.  A full batch or an empty queue means
\* no prefill.
MergeLastBatch ==
  LET live == last_batch \cap Batched
      full == /\ batch_is_full
              /\ live = last_batch
              /\ live # {} => running # {}
  IN  /\ pc = "top"
      /\ running' = running \cup live
      /\ batch_is_full' = full
      /\ last_batch' = {}
      /\ \/ /\ full \/ waiting_queue = <<>>
            /\ pc' = "decode" /\ UNCHANGED adder
         \/ /\ ~full /\ waiting_queue # <<>>
            /\ pc' = "scan"
            /\ \E offset \in RunningOffsets(running') : adder' = NewAdder(offset)
      /\ UNCHANGED <<req, waiting_queue, available>>

\* The loop over the waiting queue ends.  Without a request to prefill, the
\* iteration goes on to decode.
EndScan(a, full) ==
  /\ batch_is_full' = full
  /\ pc' = IF a.can_run_list = {} THEN "decode" ELSE "prefill"
  /\ adder' = IF a.can_run_list = {} THEN NoAdder ELSE a

\* The loop goes on with the next request of the queue, or ends behind the last.
ContinueScan(a) ==
  IF a.pos < Len(waiting_queue)
  THEN adder' = [a EXCEPT !.pos = @ + 1] /\ UNCHANGED <<pc, batch_is_full>>
  ELSE EndScan(a, batch_is_full)

\* Mutations: a deterministic request joins a batch that has requests; it is
\* passed over while others run.
SkipsDeterministicNever(r) == FALSE
SkipsDeterministicBusy(r) ==
  r \in Deterministic /\ (adder.can_run_list # {} \/ running # {})

\* A deterministic request waits for a batch of its own.
SkipsDeterministic(r) == adder.can_run_list # {} /\ r \in Deterministic

\* One pass through the loop body of _get_new_batch_prefill_raw for request r.
ScanRequest(r) ==
  LET q == req[r]
      a == WithRequest(adder, r)
  IN  \/ /\ adder.has_deterministic
         /\ EndScan(adder, batch_is_full)
      \/ /\ ~adder.has_deterministic /\ SkipsDeterministic(r)
         /\ ContinueScan(adder)
      \/ /\ ~adder.has_deterministic /\ ~SkipsDeterministic(r)
         /\ Cardinality(adder.can_run_list) >= NumAllocatable
         /\ EndScan(adder, TRUE)
      \/ /\ ~adder.has_deterministic /\ ~SkipsDeterministic(r)
         /\ Cardinality(adder.can_run_list) < NumAllocatable
         /\ \/ /\ NoTokens(adder, q)
               /\ EndScan(adder, TRUE)
            \/ /\ ~NoTokens(adder, q) /\ TooManyInputs(adder, q)
               /\ EndScan(adder, batch_is_full)
            \/ /\ ~NoTokens(adder, q) /\ ~TooManyInputs(adder, q)
               /\ \/ /\ BudgetState(a) = "continue"
                     /\ ContinueScan(a)
                  \/ /\ BudgetState(a) # "continue"
                     /\ EndScan(a, batch_is_full \/ BudgetState(a) = "no_token")

ScanQueue ==
  /\ pc = "scan"
  /\ \E r \in Reqs : waiting_queue[adder.pos] = r /\ ScanRequest(r)
  /\ UNCHANGED <<req, waiting_queue, running, last_batch, available>>

\* What a request may be after it got a token: finished, and its slots are
\* free, or not.
Ended(q, finished) == [q EXCEPT !.to_finish = FALSE,
                                !.status = IF finished THEN "finished" ELSE @]

\* process_batch_result_prefill for request r.
PrefillOutcomes(r) ==
  LET q == [req[r] EXCEPT !.status = "batched", !.out = @ + 1,
                          !.verified = IF r \in Deterministic /\ @ = 0
                                       THEN 1 ELSE @]
  IN  {Ended(q, f) : f \in {x \in BOOLEAN :
                            q.to_finish \/ q.out >= q.max_new_tokens => x}}

\* The same for every request of a batch.
PrefillResults(S) ==
  {f \in [S -> UNION {PrefillOutcomes(r) : r \in S}] :
     \A r \in S : f[r] \in PrefillOutcomes(r)}

\* The requests after those of f were processed.
Updated(base, f) == [r \in Reqs |-> IF r \in DOMAIN f THEN f[r] ELSE base[r]]

\* alloc_req_slots and alloc_token_slots succeed for the prefill batch.
BatchFits ==
  /\ adder.extend_num_tokens <= available
  /\ Cardinality(adder.can_run_list) <= ReqRows - Cardinality(Batched)

\* The batch that was put together leaves the queue, prepare_for_extend allocates
\* its rows and slots, and the forward pass yields a first token each.  Where
\* an allocation fails, an exception leaves the event loop: there is no step.
RunPrefill ==
  /\ pc = "prefill" /\ BatchFits
  /\ \E f \in PrefillResults(adder.can_run_list) :
       /\ req' = Updated(req, f)
       /\ available' \in FreeSlots(Updated(req, f))
  /\ waiting_queue' = Filtered(waiting_queue, Reqs \ adder.can_run_list)
  /\ last_batch' = adder.can_run_list
  /\ adder' = NoAdder /\ pc' = "top"
  /\ UNCHANGED <<running, batch_is_full>>

\* check_decode_mem for the requests of kept once those of victims are released.
DecodeFits(kept, victims) ==
  Cardinality(kept) <= available + Cardinality(Entries(req, victims))

\* The sort key of retract_decode: fewer outputs go first, then longer prompts.
GoesBefore(v, k) ==
  \/ req[v].out < req[k].out
  \/ req[v].out = req[k].out /\ req[v].input_len >= req[k].input_len

\* retract_decode as the sequences of victims, in the order they are popped: one
\* more is retracted as long as the rest does not fit, and one is always kept.
Retractions(live) ==
  {s \in UNION {Injection(1..Cardinality(S), S) : S \in {T \in SUBSET live : T # live}} :
     LET gone(n) == Range(SubSeq(s, 1, n))
     IN  /\ \A i \in 1..Len(s) : \A r \in live \ gone(i) : GoesBefore(s[i], r)
         /\ \A i \in 0..(Len(s) - 1) : ~DecodeFits(live \ gone(i), gone(i))
         /\ \/ DecodeFits(live \ Range(s), Range(s))
            \/ Cardinality(live \ Range(s)) = 1}

\* process_batch_result_decode for a request that is not deterministic.
PlainOutcomes(q) ==
  {Ended([q EXCEPT !.out = @ + 1], f) :
     f \in {x \in BOOLEAN : q.to_finish \/ q.out + 1 >= q.max_new_tokens => x}}

\* The same for a deterministic one.  It is verified when it finished or filled
\* its window, and may be when it fills up a group.  A verification keeps a
\* prefix of the window that is longer than what was verified before, and the
\* last token kept decides whether the request is finished.
DeterministicOutcomes(q) ==
  LET n == q.out + 1
      unverified ==
        {x \in {[q EXCEPT !.out = n]} :
           ~q.to_finish /\ n < q.max_new_tokens /\ n - q.verified < WindowSize}
      verified(k) ==
        {Ended([q EXCEPT !.out = k, !.verified = k], f) :
           f \in {x \in BOOLEAN : k >= q.max_new_tokens => x}}
  IN  unverified \cup UNION {verified(k) : k \in (q.verified + 1)..n}

DecodeOutcomes(r) ==
  IF r \in Deterministic THEN DeterministicOutcomes(req[r])
  ELSE PlainOutcomes(req[r])

DecodeResults(S) ==
  {f \in [S -> UNION {DecodeOutcomes(r) : r \in S}] :
     \A r \in S : f[r] \in DecodeOutcomes(r)}

\* The requests once those of s were retracted: release_req frees their slots,
\* and those the queue has no room for are gone.
AfterRetraction(s) ==
  [r \in Reqs |->
     IF r \in Refused(s) THEN [req[r] EXCEPT !.status = "aborted"]
     ELSE IF r \in Range(s) THEN [req[r] EXCEPT !.status = "waiting"]
     ELSE req[r]]

\* update_running_batch, which filters the running batch, retracts what does not
\* fit and resets batch_is_full when the batch shrank, and the decode pass.
\* retract_decode raises when the one request it keeps does not fit: no step.
RunDecode(live, s) ==
  LET kept == live \ Range(s)
  IN  /\ DecodeFits(kept, Range(s))
      /\ \E f \in DecodeResults(kept) :
           /\ req' = Updated(AfterRetraction(s), f)
           /\ available' \in FreeSlots(Updated(AfterRetraction(s), f))
      /\ waiting_queue' = waiting_queue \o Queued(s)
      /\ running' = kept
      /\ batch_is_full' = (batch_is_full /\ kept = running)
      /\ pc' = "top"

\* Mutation: batch_is_full is kept when the batch empties.
RunIdleKeepsFull ==
  /\ running' = {}
  /\ pc' = "top"
  /\ UNCHANGED <<req, waiting_queue, available, batch_is_full>>

\* The running batch is empty, or all of it finished: nothing to decode, and
\* update_running_batch is not called for an empty batch.
RunIdle ==
  /\ running' = {}
  /\ batch_is_full' = (batch_is_full /\ running = {})
  /\ pc' = "top"
  /\ UNCHANGED <<req, waiting_queue, available>>

\* The second part of get_next_batch_to_run when there is nothing to prefill.
UpdateRunningBatch ==
  /\ pc = "decode"
  /\ LET live == running \cap Batched
     IN  \/ live = {} /\ RunIdle
         \/ live # {} /\ \E s \in Retractions(live) : RunDecode(live, s)
  /\ UNCHANGED <<last_batch, adder>>

-----------------------------------------------------------------------------

Init ==
  /\ req = [r \in Reqs |->
              [status |-> "new", input_len |-> InputLen[r],
               max_new_tokens |-> RequestedNew[r], out |-> 0, verified |-> 0,
               to_finish |-> FALSE]]
  /\ waiting_queue = <<>> /\ running = {} /\ last_batch = {}
  /\ batch_is_full = FALSE /\ available = Capacity
  /\ adder = NoAdder /\ pc = "top"

\* A step of the event loop.
Step == MergeLastBatch \/ ScanQueue \/ RunPrefill \/ UpdateRunningBatch

Next == Step \/ \E r \in Reqs : HandleGenerateRequest(r) \/ AbortRequest(r)

Spec == Init /\ [][Next]_vars

\* The event loop runs for ever.  Nothing is assumed of arrivals and aborts.
FairSpec == Spec /\ WF_vars(Step)

-----------------------------------------------------------------------------
(* Properties                                                               *)

AdderType ==
  [pos : Nat \ {0}, can_run_list : SUBSET Reqs, rem_total_token_offset : Int,
   cur_rem_token_offset : Nat, rem_input_tokens : Int, extend_num_tokens : Nat,
   has_deterministic : BOOLEAN]

\* Types, and that the waiting queue lists each waiting request once, within
\* max_queued_requests (_add_request_to_queue, the removal of prefilled ones).
TypeOK ==
  /\ req \in [Reqs -> RequestType]
  /\ waiting_queue \in Seq(Reqs) /\ Len(waiting_queue) <= MaxQueued
  /\ Range(waiting_queue) = {r \in Reqs : req[r].status = "waiting"}
  /\ Cardinality(Range(waiting_queue)) = Len(waiting_queue)
  /\ running \subseteq Reqs /\ last_batch \subseteq Reqs
  /\ batch_is_full \in BOOLEAN /\ available \in 0..Capacity
  /\ adder \in AdderType /\ pc \in {"top", "scan", "prefill", "decode"}

\* The budget of PrefillAdder "ensures the prefill will not out of memory" (the
\* comment in _update_prefill_budget): what prepare_for_extend allocates for the
\* requests that add_one_req let in is there, slots and rows.
PrefillFits == pc = "prefill" => BatchFits

\* LLM-42's isolated prefill: "we ensure each deterministic prefill runs alone"
\* (the comment in _get_new_batch_prefill_raw), whatever the queue holds.
DeterministicAlone ==
  pc = "prefill" /\ adder.can_run_list \cap Deterministic # {} =>
    Cardinality(adder.can_run_list) = 1

\* First come, first served, but for isolation: a request is overtaken in a
\* prefill only if it is deterministic, by requests that are not, and only
\* behind an older request of that batch.  So the head of the queue is never
\* passed, and a deterministic request never by another one.
OvertakenOnlyForIsolation ==
  pc = "prefill" =>
    \A j \in 1..Len(waiting_queue) : \A i \in 1..(j - 1) :
      /\ waiting_queue[j] \in adder.can_run_list
      /\ waiting_queue[i] \notin adder.can_run_list
      => /\ waiting_queue[i] \in Deterministic
         /\ waiting_queue[j] \notin Deterministic
         /\ \E k \in 1..(i - 1) : waiting_queue[k] \in adder.can_run_list

\* Admission reserves enough that the last request left in the running batch can
\* always decode: retract_decode never raises "Out of memory even after
\* retracting all other requests in the decode batch."
LastRequestDecodes ==
  pc = "decode" =>
    LET live == running \cap Batched
    IN  \A s \in Retractions(live) : DecodeFits(live \ Range(s), Range(s))

\* batch_is_full blocks every prefill, and only a batch that shrinks resets it.
\* So whenever it is set, there is a batch that is going to shrink.
FullBatchShrinks ==
  pc = "top" /\ batch_is_full => running # {} \/ last_batch # {}

\* Every request that enters the waiting queue leaves the scheduler: neither the
\* isolation of deterministic prefills, nor batch_is_full, nor being retracted
\* over and over keeps it waiting or running for ever.
EveryRequestServed ==
  \A r \in Reqs :
    req[r].status = "waiting" ~> req[r].status \in {"finished", "aborted"}
=============================================================================

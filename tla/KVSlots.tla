------------------------------ MODULE KVSlots -------------------------------
(***************************************************************************)
(* Who holds which KV slot: TokenToKVPoolAllocator (page size 1),          *)
(* ReqToTokenPool, ChunkCache, the slots FixedSizeVerificationPool         *)
(* reserves, and the operations of the scheduler that allocate and free:   *)
(* prefill, decode, rollback after verification, release of finished       *)
(* requests, retraction, and flush_cache.                                  *)
(*                                                                         *)
(* Output lengths stand for outputs: which token is sampled, and whether   *)
(* it finishes the request, is any choice, and so is the first mismatch of *)
(* a verification.  The free list is a set plus a flag that says whether a *)
(* slot was ever put back while it was free; the list hands out its slots  *)
(* in any order, or in increasing order where LowestFirst bounds a model.  *)
(***************************************************************************)
EXTENDS Integers, FiniteSets, Grouping

CONSTANTS
  Reqs,          \* requests
  Deterministic, \* those with is_deterministic=True
  Prompt,        \* Prompt[r]: len(origin_input_ids)
  MaxNewTokens,  \* MaxNewTokens[r]
  ClipMaxNew,    \* CLIP_MAX_NEW_TOKENS of the admission estimate
  Size,          \* max_total_num_tokens
  NumRows,       \* size of ReqToTokenPool
  MaxLen,        \* max_context_len, the length of a row
  WindowSize,    \* llm42_window_size
  FixedSize,     \* llm42_verify_batch_size
  LowestFirst    \* restricts the allocator to hand out the lowest free slots

ASSUME KVSlotsAssumption ==
  /\ IsFiniteSet(Reqs) /\ Deterministic \subseteq Reqs
  /\ Prompt \in [Reqs -> Nat \ {0}] /\ MaxNewTokens \in [Reqs -> Nat \ {0}]
  /\ ClipMaxNew \in Nat /\ Size \in Nat /\ NumRows \in Nat /\ MaxLen \in Nat
  /\ \A r \in Reqs : Prompt[r] + MaxNewTokens[r] <= MaxLen
  /\ WindowSize \in Nat \ {0} /\ FixedSize \in Nat \ {0}
  /\ LowestFirst \in BOOLEAN

VARIABLES
  req,            \* request -> its record, see RequestType
  free_pages,     \* the slots of the allocator's free list
  double_freed,   \* whether the free list ever got a slot twice
  free_slots,     \* the free rows of ReqToTokenPool
  req_to_token,   \* row -> position -> slot
  pool,           \* FixedSizeVerificationPool, see InitFixedPool
  crashed         \* an exception left the event loop

vars == <<req, free_pages, double_freed, free_slots, req_to_token, pool, crashed>>

\* Slot 0 is the padded slot: it is never allocated, and means "not written".
Slots == 1..Size
Rows == 0..(NumRows - 1)
NoRow == -1

RequestType ==
  [status : {"new", "waiting", "running", "done"},
   req_pool_idx : Rows \cup {NoRow}, out : Nat, verified : Nat,
   kv_committed_len : Nat, kv_allocated_len : Nat, seq_len : Nat]

Running == {r \in Reqs : req[r].status = "running"}

\* The KV positions that the requests of a batch hold.
Held(batch) ==
  {x \in (DOMAIN batch) \X (0..(MaxLen - 1)) :
     x[2] < batch[x[1]].kv_committed_len}

\* The slot of position x[2] of request x[1], looked up in the request's row.
SlotOf(table, batch, x) == table[batch[x[1]].req_pool_idx][x[2]]

\* The slots of some positions.  Entries 0 are filtered out before a free.
SlotsOf(table, batch, xs) == {SlotOf(table, batch, x) : x \in xs} \ {0}

Lowest(F, n) == {s \in F : Cardinality({t \in F : t < s}) < n}

Injections(D, F) == {f \in [D -> F] : \A x, y \in D : f[x] = f[y] => x = y}

\* The ways in which alloc hands out one member of the free list F for each
\* element of D.  There is none when F is too small: alloc returns None.
Allocations(D, F) ==
  LET low == Injections(D, Lowest(F, Cardinality(D)))
  IN  IF LowestFirst /\ low # {} THEN {CHOOSE f \in low : TRUE}
      ELSE Injections(D, F)

-----------------------------------------------------------------------------
(* FixedSizeVerificationPool                                                *)

DummySlots == FixedSize * WindowSize
PaddingSlots == FixedSize * (WindowSize - 1)

\* __init__ allocates the dummies' slots, their rows and the padding slots in
\* this order.  It raises when one of them does not fit, and the tensors it
\* creates in between may exhaust the GPU; _init_fixed_pool catches whatever it
\* raises.  taken and rows are what is missing from the free lists since; either
\* the pool owns it (ok), or nobody does.
InitFixedPool ==
  {[ok |-> FALSE, taken |-> {}, rows |-> {}]}
    \cup (IF DummySlots > Size THEN {}
          ELSE {[ok |-> FALSE, taken |-> 1..DummySlots, rows |-> {}]})
    \cup (IF DummySlots > Size \/ FixedSize > NumRows THEN {}
          ELSE {[ok |-> FALSE, taken |-> 1..DummySlots, rows |-> 0..(FixedSize - 1)]})
    \cup (IF DummySlots + PaddingSlots > Size \/ FixedSize > NumRows THEN {}
          ELSE {[ok |-> TRUE, taken |-> 1..(DummySlots + PaddingSlots),
                 rows |-> 0..(FixedSize - 1)]})

-----------------------------------------------------------------------------
(* Operations on one request                                                *)

NewRequest ==
  [status |-> "new", req_pool_idx |-> NoRow, out |-> 0, verified |-> 0,
   kv_committed_len |-> 0, kv_allocated_len |-> 0, seq_len |-> 0]

\* Mutant of Released: the request keeps its row index.
ReleasedKeepsRow(q) == [q EXCEPT !.status = "done"]

\* A finished request after release_kv_cache, which frees its committed
\* positions and its row.
Released(q) == [q EXCEPT !.status = "done", !.req_pool_idx = NoRow]

\* release_req: release_kv_cache, then reset_for_retract.
Retracted(q) ==
  [q EXCEPT !.status = "waiting", !.req_pool_idx = NoRow,
            !.kv_committed_len = 0, !.kv_allocated_len = 0]

\* prepare_for_extend over the prompt and the outputs so far, and the token
\* that process_batch_result_prefill appends.
Extended(r, q, row) ==
  LET k == Prompt[r] + q.out
  IN  [q EXCEPT !.status = "running", !.req_pool_idx = row, !.out = @ + 1,
                !.verified = IF r \in Deterministic /\ q.out = 0 THEN 1 ELSE @,
                !.kv_committed_len = k, !.kv_allocated_len = k, !.seq_len = k]

\* prepare_for_decode, and the token process_batch_result_decode appends.
Decoded(q) ==
  [q EXCEPT !.out = @ + 1, !.seq_len = @ + 1,
            !.kv_committed_len = @ + 1, !.kv_allocated_len = @ + 1]

\* Mutants of RolledBack: one or both lengths keep the rolled-back tokens, and
\* seq_len is that of a batch that was not decoded yet.
RolledBackKeepsAllocated(r, q, rolled) ==
  [q EXCEPT !.out = @ - rolled, !.verified = q.out - rolled,
            !.kv_committed_len = @ - rolled, !.seq_len = @ - rolled]
RolledBackKeepsCommitted(r, q, rolled) ==
  [q EXCEPT !.out = @ - rolled, !.verified = q.out - rolled,
            !.seq_len = @ - rolled]
RolledBackShort(r, q, rolled) ==
  [q EXCEPT !.out = @ - rolled, !.verified = q.out - rolled,
            !.kv_committed_len = @ - rolled, !.kv_allocated_len = @ - rolled,
            !.seq_len = IF rolled > 0 THEN Prompt[r] + (q.out - rolled) - 2
                                      ELSE @]

\* A verified request that loses rolled tokens: the bookkeeping of
\* _run_verification, seq_lens in _update_batch_state (only after a rollback),
\* and the counters in process_batch_result_decode.
RolledBack(r, q, rolled) ==
  [q EXCEPT !.out = @ - rolled, !.verified = q.out - rolled,
            !.kv_committed_len = @ - rolled, !.kv_allocated_len = @ - rolled,
            !.seq_len = IF rolled > 0 THEN Prompt[r] + (q.out - rolled) - 1
                                      ELSE @]

\* Mutant of RollbackRange: it starts one position too early.
RollbackRangeEarly(r, q, rolled) ==
  LET start == Prompt[r] + (q.out - rolled) - 2 IN start..(start + rolled - 1)

\* The positions that process_batch_result_decode frees after a rollback; the
\* token put in place of the mismatch has no KV entry yet.
RollbackRange(r, q, rolled) ==
  LET start == Prompt[r] + (q.out - rolled) - 1 IN start..(start + rolled - 1)

Unverified(q) == q.out - q.verified

-----------------------------------------------------------------------------
(* Allocating and freeing                                                   *)

\* The table after slots[x] is written at position x[2] of request x[1]'s row.
WriteSlots(table, batch, slots) ==
  LET At(row, p) == {x \in DOMAIN slots :
                       batch[x[1]].req_pool_idx = row /\ x[2] = p}
  IN  [row \in Rows |-> [p \in 0..(MaxLen - 1) |->
         IF At(row, p) # {} THEN slots[CHOOSE x \in At(row, p) : TRUE]
         ELSE table[row][p]]]

RangeOf(slots) == {slots[x] : x \in DOMAIN slots}

\* What a batch frees when all its requests are released, and what it frees
\* when rolled[r] tokens of r are rolled back.  The third component tells the
\* two apart, so that a position freed by both counts twice.
ByRelease(batch) == {<<x[1], x[2], "release">> : x \in Held(batch)}

ByRollback(batch, rolled) ==
  UNION {{<<r, p, "rollback">> : p \in RollbackRange(r, batch[r], rolled[r])} :
           r \in DOMAIN rolled}

\* Whether freeing xs puts a slot on the free list that is there already.
DoubleFree(table, batch, free, xs) ==
  \/ \E x \in xs : SlotOf(table, batch, x) \in free
  \/ \E x, y \in xs : /\ x # y
                      /\ SlotOf(table, batch, x) = SlotOf(table, batch, y)
                      /\ SlotOf(table, batch, x) # 0

RestrictTo(batch, S) == [r \in S |-> batch[r]]

\* Mutant of RowsOf: req_to_token_pool.free is not called.
RowsOfNone(batch) == {}

RowsOf(batch) == {batch[r].req_pool_idx : r \in DOMAIN batch}

\* What check_finished may find finished: the requests at their length, and any
\* other (a stop token, a stop string, an abort).
FinishSets(batch) ==
  {f \in SUBSET DOMAIN batch :
     \A r \in DOMAIN batch : batch[r].out >= MaxNewTokens[r] => r \in f}

\* The end of process_batch_result_prefill and _decode: besides xs, the requests
\* in done free all they hold.  before: whether a double free preceded.
Settle(table, batch, free, rows, xs, done, before) ==
  LET ys == xs \cup ByRelease(RestrictTo(batch, done))
  IN  /\ req_to_token' = table
      /\ free_pages' = free \cup SlotsOf(table, batch, ys)
      /\ double_freed' = (before \/ DoubleFree(table, batch, free, ys))
      /\ free_slots' = rows \cup RowsOf(RestrictTo(batch, done))

AfterSettle(batch, done) ==
  [r \in DOMAIN batch |-> IF r \in done THEN Released(batch[r]) ELSE batch[r]]

-----------------------------------------------------------------------------
(* Steps                                                                    *)

Arrive(r) ==
  /\ ~crashed
  /\ req[r].status = "new"
  /\ req' = [req EXCEPT ![r].status = "waiting"]
  /\ UNCHANGED <<free_pages, double_freed, free_slots, req_to_token, pool, crashed>>

\* The part of PrefillAdder's admission test that concerns this request alone.
\* The reservation for the requests that run is a fraction, new_token_ratio, of
\* what they may still generate: anything from nothing on.
Admissible(r) ==
  /\ Prompt[r] + req[r].out + Min2(MaxNewTokens[r] - req[r].out, ClipMaxNew)
       < Cardinality(free_pages)
  /\ free_slots # {}

\* alloc_for_extend and process_batch_result_prefill.
Prefill(r) ==
  /\ ~crashed
  /\ req[r].status = "waiting"
  /\ Admissible(r)
  /\ \E row \in IF LowestFirst THEN Lowest(free_slots, 1) ELSE free_slots :
     \E slots \in Allocations({r} \X (0..(Prompt[r] + req[r].out - 1)), free_pages) :
     \E batch \in {[x \in {r} |-> Extended(r, req[r], row)]} :
     \E done \in FinishSets(batch) :
       /\ req' = [req EXCEPT ![r] = AfterSettle(batch, done)[r]]
       /\ Settle(WriteSlots(req_to_token, batch, slots), batch,
                 free_pages \ RangeOf(slots), free_slots \ {row}, {}, done, double_freed)
  /\ UNCHANGED <<pool, crashed>>

\* The requests that check_and_verify_deterministic_requests may verify.
VerifySets(batch, finished) ==
  LET all == {r \in (DOMAIN batch) \cap Deterministic : Unverified(batch[r]) > 0}
      ready == {r \in all : r \in finished \/ Unverified(batch[r]) >= WindowSize}
  IN  IF pool.ok THEN FixedGroupSets(all, ready, FixedSize) ELSE {ready}

\* Without the fixed pool every window takes padded_len - 1 slots off the free
\* list, and the slots come back when the free group ends, after all windows.
\* A finished request's window is padded to WindowSize.
PaddingNeeded(batch, finished, chosen) ==
  UNION {{r} \X (1..(IF r \in finished /\ Unverified(batch[r]) < WindowSize
                     THEN WindowSize - 1 ELSE Unverified(batch[r]) - 1)) :
           r \in chosen}

\* The verification raises (a window longer than WindowSize, see DVR), or sends
\* the server a SIGTERM because the padding does not fit.
VerifyFails(batch, finished, chosen, free) ==
  IF pool.ok
  THEN \E r \in chosen : Unverified(batch[r]) > WindowSize
  ELSE Cardinality(PaddingNeeded(batch, finished, chosen)) > Cardinality(free)

\* A mismatch in a window of n tokens drops up to n - 1 of them.
Rollbacks(batch, chosen) ==
  {f \in [chosen -> 0..MaxLen] : \A r \in chosen : f[r] < Unverified(batch[r])}

\* The slots that the requests in S give back when they are retracted.
SlotsBack(S) ==
  SlotsOf(req_to_token, RestrictTo(req, S), Held(RestrictTo(req, S)))

RetractFreesTwice(S) ==
  DoubleFree(req_to_token, req, free_pages, ByRelease(RestrictTo(req, S)))

\* check_decode_mem, once the requests in S are retracted.
Fits(S) == Cardinality(Running \ S) <= Cardinality(free_pages \cup SlotsBack(S))

\* The sort key of retract_decode: fewest outputs first, longest prompt first.
RetractedBefore(v, w) ==
  \/ req[v].out < req[w].out
  \/ req[v].out = req[w].out /\ Prompt[v] >= Prompt[w]

\* The requests retract_decode gives up, one at a time, while the others do not
\* fit and more than one is left.
MayRetract(victims) ==
  /\ \A v \in victims, w \in Running \ victims : RetractedBefore(v, w)
  /\ Fits(victims) \/ Cardinality(Running \ victims) = 1
  /\ victims # {} => \E last \in victims :
       /\ \A v \in victims : RetractedBefore(v, last)
       /\ ~Fits(victims \ {last})

\* process_batch_result_decode from the verification on.  Of the requests that
\* were not verified, those finish that the first check found finished.
VerifyAndRelease(victims, table, batch, free, finished, chosen) ==
  /\ ~VerifyFails(batch, finished, chosen, free)
  /\ \E rolled \in Rollbacks(batch, chosen) :
     \E after \in {[r \in DOMAIN batch |->
                     IF r \in chosen THEN RolledBack(r, batch[r], rolled[r])
                     ELSE batch[r]]} :
     \E done \in FinishSets(after) :
       /\ done \ chosen = finished \ chosen
       /\ req' = [r \in Reqs |->
                    IF r \in victims THEN Retracted(req[r])
                    ELSE IF r \in DOMAIN batch THEN AfterSettle(after, done)[r]
                    ELSE req[r]]
       /\ Settle(table, after, free,
                 free_slots \cup RowsOf(RestrictTo(req, victims)),
                 ByRollback(batch, rolled), done,
                 double_freed \/ RetractFreesTwice(victims))
  /\ UNCHANGED <<pool, crashed>>

Crash ==
  /\ crashed' = TRUE
  /\ UNCHANGED <<req, free_pages, double_freed, free_slots, req_to_token, pool>>

\* One decode iteration: update_running_batch, alloc_for_decode (which writes
\* each new slot at seq_lens), the forward pass, process_batch_result_decode.
DecodeStep ==
  /\ ~crashed
  /\ Running # {}
  /\ \E victims \in SUBSET Running :
       /\ MayRetract(victims)
       /\ \/ ~Fits(victims) /\ Crash
          \/ /\ Fits(victims)
             /\ \E slots \in Allocations({<<r, req[r].seq_len>> : r \in Running \ victims},
                                        free_pages \cup SlotsBack(victims)) :
                \E batch \in {[r \in Running \ victims |-> Decoded(req[r])]} :
                \E free \in {(free_pages \cup SlotsBack(victims)) \ RangeOf(slots)} :
                \E finished \in FinishSets(batch) :
                \E chosen \in VerifySets(batch, finished) :
                  \/ VerifyFails(batch, finished, chosen, free) /\ Crash
                  \/ VerifyAndRelease(victims, WriteSlots(req_to_token, batch, slots),
                                      batch, free, finished, chosen)

\* pause_generation in mode "retract": retract_all on the running batch.
PauseRetract ==
  /\ ~crashed
  /\ Running # {}
  /\ req' = [r \in Reqs |-> IF r \in Running THEN Retracted(req[r]) ELSE req[r]]
  /\ free_pages' = free_pages \cup SlotsBack(Running)
  /\ double_freed' = (double_freed \/ RetractFreesTwice(Running))
  /\ free_slots' = free_slots \cup RowsOf(RestrictTo(req, Running))
  /\ UNCHANGED <<req_to_token, pool, crashed>>

\* abort_request and the timeouts take a request off the waiting queue.  A
\* running request that is aborted finishes in its next decode.
AbortWaiting(r) ==
  /\ ~crashed
  /\ req[r].status = "waiting"
  /\ req' = [req EXCEPT ![r].status = "done"]
  /\ UNCHANGED <<free_pages, double_freed, free_slots, req_to_token, pool, crashed>>

\* flush_cache, when no request is in the system: both free lists start afresh,
\* with the pool's slots and rows, which the pool goes on using.
FlushCache ==
  /\ ~crashed
  /\ \A r \in Reqs : req[r].status \in {"new", "done"}
  /\ free_pages' = Slots
  /\ free_slots' = Rows
  /\ pool' = [pool EXCEPT !.taken = {}, !.rows = {}]
  /\ UNCHANGED <<req, double_freed, req_to_token, crashed>>

\* The dummies' slots are written into the dummies' rows.
Init ==
  /\ pool \in InitFixedPool
  /\ req = [r \in Reqs |-> NewRequest]
  /\ free_pages = Slots \ pool.taken
  /\ free_slots = Rows \ pool.rows
  /\ double_freed = FALSE
  /\ req_to_token = [row \in Rows |-> [p \in 0..(MaxLen - 1) |->
       IF row \in pool.rows /\ p < WindowSize THEN row * WindowSize + p + 1 ELSE 0]]
  /\ crashed = FALSE

Next ==
  \/ \E r \in Reqs : Arrive(r) \/ Prefill(r) \/ AbortWaiting(r)
  \/ DecodeStep
  \/ PauseRetract
  \/ FlushCache

Spec == Init /\ [][Next]_vars

-----------------------------------------------------------------------------
(* Properties                                                               *)

RunningBatch == RestrictTo(req, Running)

\* Fields and free lists keep their types, and exactly the running requests have
\* a row of req_to_token.
TypeOK ==
  /\ req \in [Reqs -> RequestType]
  /\ \A r \in Reqs : req[r].status = "running" <=> req[r].req_pool_idx # NoRow
  /\ free_pages \subseteq Slots /\ free_slots \subseteq Rows
  /\ req_to_token \in [Rows -> [0..(MaxLen - 1) -> 0..Size]]
  /\ pool \in [ok : BOOLEAN, taken : SUBSET Slots, rows : SUBSET Rows]
  /\ double_freed \in BOOLEAN /\ crashed \in BOOLEAN

\* Whatever rollbacks, retractions, releases and flushes happen, every slot that
\* is not taken for the fixed pool is either on the free list or belongs to
\* exactly one position of one running request: no two positions share a KV
\* entry, none is lost, and none is both free and in use.
SlotsPartitioned ==
  LET Slot(x) == SlotOf(req_to_token, req, x)
  IN  /\ free_pages \cap pool.taken = {}
      /\ \A x \in Held(RunningBatch) : Slot(x) \in Slots \ (free_pages \cup pool.taken)
      /\ \A x, y \in Held(RunningBatch) : Slot(x) = Slot(y) => x = y
      /\ \A s \in Slots \ pool.taken :
           s \in free_pages \/ \E x \in Held(RunningBatch) : Slot(x) = s

\* The same for the rows of req_to_token.
RowsPartitioned ==
  /\ free_slots \cap pool.rows = {}
  /\ \A r \in Running : req[r].req_pool_idx \in Rows \ (free_slots \cup pool.rows)
  /\ \A r, s \in Running : req[r].req_pool_idx = req[s].req_pool_idx => r = s
  /\ \A row \in Rows \ pool.rows :
       row \in free_slots \/ \E r \in Running : req[r].req_pool_idx = row

\* No slot is freed while it is free, although rollbacks leave stale entries in
\* req_to_token and a request may be rolled back and released in one step.
NoDoubleFree == ~double_freed

\* A running request has a KV entry for every token but the last, and the three
\* counters agree: the assertion of release_kv_cache, and the position at which
\* the next decode writes.
LengthsAgree ==
  \A r \in Running :
    /\ req[r].kv_allocated_len = req[r].kv_committed_len
    /\ req[r].seq_len = req[r].kv_committed_len
    /\ req[r].kv_committed_len = Prompt[r] + req[r].out - 1

\* While a request runs, the KV entries of its prompt and of its verified tokens
\* stay where they are: neither a rollback nor the decodes after it let another
\* slot take their position.
VerifiedSlotsStay ==
  [][\A r \in Running :
       req'[r].status = "running" =>
         \A p \in 0..(Prompt[r] + req[r].verified - 2) :
           SlotOf(req_to_token', req', <<r, p>>) = SlotOf(req_to_token, req, <<r, p>>)]_vars

-----------------------------------------------------------------------------
(* The inductive invariant behind the properties above                      *)

\* Output lengths: a request that is not done can generate a token more, and
\* rollbacks stay behind what is verified.
RequestOK(r, q) ==
  /\ q.verified <= q.out
  /\ q.status # "done" => q.out < MaxNewTokens[r]
  /\ q.status = "running" => q.out > 0

SlotInv ==
  /\ TypeOK /\ SlotsPartitioned /\ RowsPartitioned /\ NoDoubleFree /\ LengthsAgree
  /\ \A r \in Reqs : RequestOK(r, req[r])

-----------------------------------------------------------------------------
(* What the repository says of the program and the model refutes            *)

\* The slots and rows that the verification passes write to (the dummies' and
\* the padding) are nobody else's: "pre-allocates KV cache slots and
\* req_to_token entries for dummy requests".
PoolNotShared ==
  pool.ok => /\ \A x \in Held(RunningBatch) :
                  SlotOf(req_to_token, req, x) \notin 1..(DummySlots + PaddingSlots)
             /\ \A r \in Running : req[r].req_pool_idx \notin 0..(FixedSize - 1)
=============================================================================

------------------------- MODULE PrefillQueueProofs -------------------------
(***************************************************************************)
(* Proofs about PrefillQueue, for every set of requests, prompt lengths,   *)
(* pool size, reservation and limits.                                      *)
(***************************************************************************)
EXTENDS PrefillQueue, ListLemmas

-----------------------------------------------------------------------------
(* The inductive invariants                                                *)

\* What the scan of the queue keeps of the adder: a deterministic request is in
\* can_run_list only by itself, and has_deterministic says so.
Isolated(a) ==
  /\ a \in AdderType
  /\ a.has_deterministic => \E r \in Reqs : a.can_run_list = {r}
  /\ ~a.has_deterministic => a.can_run_list \cap Deterministic = {}

\* The waiting queue lists the waiting requests, each once.
QueueLists(queue, waiting) ==
  /\ queue \in Seq(Reqs) /\ NoRepeats(queue) /\ Len(queue) <= MaxQueued
  /\ Range(queue) = waiting

Waiting == {r \in Reqs : req[r].status = "waiting"}

\* The scan stands inside the queue, and what it let in is still queued.
QueueInv ==
  /\ req \in [Reqs -> RequestType] /\ QueueLists(waiting_queue, Waiting)
  /\ running \in SUBSET Reqs /\ last_batch \in SUBSET Reqs
  /\ batch_is_full \in BOOLEAN /\ available \in 0..Capacity
  /\ Isolated(adder) /\ pc \in {"top", "scan", "prefill", "decode"}
  /\ pc \in {"scan", "prefill"} => adder.can_run_list \subseteq Waiting
  /\ pc = "scan" => adder.pos <= Len(waiting_queue)
  /\ pc = "prefill" => adder.can_run_list # {}

\* A request keeps the lengths it was received with.  A batched one has an output
\* and lacks one; a waiting one is new or was retracted from the batch.
LengthsOK(r, q) ==
  /\ q.status \in {"waiting", "batched"} =>
       /\ q.max_new_tokens = Received(r).max_new_tokens
       /\ q.input_len = Received(r).input_len
  /\ q.status = "batched" => q.out >= 1 /\ q.out < q.max_new_tokens
  /\ q.status = "waiting" => q.out = 0 \/ q.out < q.max_new_tokens

LengthsInv == QueueInv /\ \A r \in Reqs : LengthsOK(r, req[r])

\* What the budget has counted covers the prompts to be allocated; the rows of
\* the batch are free.
Budgeted(a) ==
  /\ a.extend_num_tokens <= available
  /\ ~a.has_deterministic => a.extend_num_tokens <= a.rem_total_token_offset
  /\ a.can_run_list # {} =>
       Cardinality(a.can_run_list) <= ReqRows - Cardinality(Batched)

BudgetInv == LengthsInv /\ (pc \in {"scan", "prefill"} => Budgeted(adder))

\* No prompt that may share a prefill is so long that init_req_max_new_tokens
\* turns its max_new_tokens negative.
PromptsWithinLimit ==
  \A r \in Reqs \ Deterministic : InputLen[r] < MaxReqLen

-----------------------------------------------------------------------------
(* Types of the records that the steps build                               *)

\* The limits derived from the pool, and minimum and maximum.
LEMMA ConstantTypes ==
  /\ MaxReqLen \in Int /\ MaxReqInputLen \in Int /\ Capacity \in Nat
  /\ \A x, y \in Int : Least(x, y) \in Int /\ Least(x, y) <= x /\ Least(x, y) <= y
  /\ \A x, y \in Int : Most(x, y) \in Int /\ Most(x, y) >= x /\ Most(x, y) >= y
  BY PrefillQueueAssumption
  DEF MaxReqLen, MaxReqInputLen, Capacity, Least, Most

\* PrefillAdder.__init__: nothing is let in yet.
LEMMA NewAdderOK ==
  ASSUME NEW offset \in Int
  PROVE  /\ NewAdder(offset) \in AdderType
         /\ NewAdder(offset).can_run_list = {}
         /\ NewAdder(offset).extend_num_tokens = 0
         /\ NewAdder(offset).rem_total_token_offset = offset
         /\ NewAdder(offset).has_deterministic = FALSE
  BY PrefillQueueAssumption DEF NewAdder, AdderType

\* A request as handle_generate_request puts it into the queue.
LEMMA ReceivedType ==
  ASSUME NEW r \in Reqs
  PROVE  /\ Received(r) \in RequestType
         /\ InputLen[r] < MaxReqLen => Received(r).max_new_tokens >= 0
<1> DEFINE n == Least(RequestedNew[r], MaxReqLen - InputLen[r] - 1)
<1>1. InputLen[r] \in Nat /\ RequestedNew[r] \in Nat /\ MaxReqLen \in Int
  BY PrefillQueueAssumption, ConstantTypes
<1>2. n \in Int /\ (InputLen[r] < MaxReqLen => n >= 0)
  BY <1>1 DEF Least
<1> QED
  BY <1>1, <1>2 DEF Received, RequestType, Status

\* check_finished changes the status only.
LEMMA EndedType ==
  ASSUME NEW q \in RequestType, NEW f \in BOOLEAN
  PROVE  /\ Ended(q, f) \in RequestType
         /\ Ended(q, f).max_new_tokens = q.max_new_tokens
         /\ Ended(q, f).input_len = q.input_len
         /\ Ended(q, f).out = q.out
         /\ Ended(q, f).status = IF f THEN "finished" ELSE q.status
  BY Zenon DEF Ended, RequestType, Status

\* What a pass through the model makes of a request of its batch: it has an
\* output, and is finished once it has all that it may have.
Advanced(q) ==
  {x \in RequestType :
     /\ x.max_new_tokens = q.max_new_tokens /\ x.input_len = q.input_len
     /\ x.status \in {"batched", "finished"} /\ x.out >= 1
     /\ x.status = "batched" => x.out < x.max_new_tokens}

\* Ending a request that is finished if it has all its outputs.
LEMMA EndedAdvanced ==
  ASSUME NEW q \in RequestType, NEW x \in RequestType, NEW f \in BOOLEAN,
         x.max_new_tokens = q.max_new_tokens, x.input_len = q.input_len,
         x.status = "batched", x.out >= 1, x.out >= x.max_new_tokens => f
  PROVE  Ended(x, f) \in Advanced(q)
<1>1. x.out \in Nat /\ x.max_new_tokens \in Int
  BY DEF RequestType
<1>2. /\ Ended(x, f) \in RequestType
      /\ Ended(x, f).max_new_tokens = q.max_new_tokens
      /\ Ended(x, f).input_len = q.input_len
      /\ Ended(x, f).out = x.out
      /\ Ended(x, f).status = IF f THEN "finished" ELSE "batched"
  BY EndedType, Zenon
<1>3. ~f => x.out < x.max_new_tokens
  BY <1>1
<1> QED
  BY <1>2, <1>3 DEF Advanced

\* process_batch_result_prefill leaves a request of the right type, one output
\* longer, and does not change what it reserves.
LEMMA PrefillOutcomesType ==
  ASSUME NEW r \in Reqs, req \in [Reqs -> RequestType]
  PROVE  PrefillOutcomes(r) \subseteq {x \in Advanced(req[r]) : x.out = req[r].out + 1}
<1> DEFINE o == req[r].out + 1
           v == IF r \in Deterministic /\ req[r].verified = 0 THEN 1 ELSE req[r].verified
           q == [req[r] EXCEPT !.status = "batched", !.out = o, !.verified = v]
<1>1. req[r] \in RequestType /\ o \in Nat /\ o >= 1 /\ v \in Nat
  BY DEF RequestType
<1> HIDE DEF o, v
<1>2. /\ q \in RequestType /\ q.max_new_tokens = req[r].max_new_tokens
      /\ q.input_len = req[r].input_len /\ q.status = "batched"
      /\ q.out = o /\ q.out >= 1
  BY <1>1, Zenon DEF RequestType, Status
<1> HIDE DEF q
<1>3. \A f \in BOOLEAN : (q.out >= q.max_new_tokens => f) =>
        Ended(q, f) \in Advanced(req[r]) /\ Ended(q, f).out = o
  BY <1>1, <1>2, EndedAdvanced, EndedType
<1> QED
  BY <1>3 DEF PrefillOutcomes, q, o, v

\* process_batch_result_decode, for a request of the running batch.
LEMMA DecodeOutcomesType ==
  ASSUME NEW r \in Reqs, req \in [Reqs -> RequestType], req[r].status = "batched"
  PROVE  DecodeOutcomes(r) \subseteq Advanced(req[r])
<1> DEFINE q == req[r]
<1>1. /\ q \in RequestType /\ q.out \in Nat /\ q.verified \in Nat
      /\ q.max_new_tokens \in Int /\ q.status = "batched"
  BY DEF RequestType
<1> HIDE DEF q
<1>2. \A k \in Nat : LET x == [q EXCEPT !.out = k] IN
        /\ x \in RequestType /\ x.max_new_tokens = q.max_new_tokens
        /\ x.input_len = q.input_len /\ x.status = "batched" /\ x.out = k
  BY <1>1 DEF RequestType
<1>3. \A k \in Nat : LET x == [q EXCEPT !.out = k, !.verified = k] IN
        /\ x \in RequestType /\ x.max_new_tokens = q.max_new_tokens
        /\ x.input_len = q.input_len /\ x.status = "batched" /\ x.out = k
  BY <1>1, ZenonT(30) DEF RequestType
<1>4. q.out + 1 \in Nat /\ q.out + 1 >= 1
  BY <1>1
<1>5. ASSUME NEW x \in PlainOutcomes(q) PROVE x \in Advanced(q)
  <2> DEFINE y == [q EXCEPT !.out = q.out + 1]
  <2>1. PICK f \in BOOLEAN : /\ x = Ended(y, f)
                             /\ q.out + 1 >= q.max_new_tokens => f
    BY DEF PlainOutcomes
  <2>2. /\ y \in RequestType /\ y.max_new_tokens = q.max_new_tokens
        /\ y.input_len = q.input_len /\ y.status = "batched" /\ y.out = q.out + 1
    BY <1>2, <1>4
  <2> HIDE DEF y
  <2> QED
    BY <1>1, <1>4, <2>1, <2>2, EndedAdvanced
<1>6. ASSUME NEW x \in DeterministicOutcomes(q) PROVE x \in Advanced(q)
  <2>1. \/ x = [q EXCEPT !.out = q.out + 1] /\ q.out + 1 < q.max_new_tokens
        \/ \E k \in (q.verified + 1)..(q.out + 1), f \in BOOLEAN :
             /\ x = Ended([q EXCEPT !.out = k, !.verified = k], f)
             /\ k >= q.max_new_tokens => f
    BY Zenon DEF DeterministicOutcomes
  <2>2. CASE x = [q EXCEPT !.out = q.out + 1] /\ q.out + 1 < q.max_new_tokens
    BY <1>2, <1>4, <2>2, Zenon DEF Advanced
  <2>3. CASE \E k \in (q.verified + 1)..(q.out + 1), f \in BOOLEAN :
               /\ x = Ended([q EXCEPT !.out = k, !.verified = k], f)
               /\ k >= q.max_new_tokens => f
    <3>1. PICK k \in (q.verified + 1)..(q.out + 1), f \in BOOLEAN :
               /\ x = Ended([q EXCEPT !.out = k, !.verified = k], f)
               /\ k >= q.max_new_tokens => f
      BY <2>3, Zenon
    <3> DEFINE y == [q EXCEPT !.out = k, !.verified = k]
    <3>2. k \in Nat /\ k >= 1
      BY <1>1
    <3>3. /\ y \in RequestType /\ y.max_new_tokens = q.max_new_tokens
          /\ y.input_len = q.input_len /\ y.status = "batched" /\ y.out = k
      BY <1>3, <3>2, Zenon
    <3>4. x = Ended(y, f)
      BY <3>1
    <3> HIDE DEF y
    <3> QED
      BY <1>1, <3>1, <3>2, <3>3, <3>4, EndedAdvanced
  <2> QED
    BY <2>1, <2>2, <2>3, Zenon
<1> QED
  BY <1>5, <1>6 DEF DecodeOutcomes, q

\* The functions of requests that a prefill or a decode pass yields.
LEMMA UpdatedType ==
  ASSUME NEW base \in [Reqs -> RequestType], NEW S \in SUBSET Reqs,
         NEW f, DOMAIN f = S, \A r \in S : f[r] \in Advanced(base[r])
  PROVE  /\ Updated(base, f) \in [Reqs -> RequestType]
         /\ \A r \in Reqs :
              Updated(base, f)[r].max_new_tokens = base[r].max_new_tokens
  BY DEF Updated, Advanced

-----------------------------------------------------------------------------
(* The waiting queue                                                       *)

\* retract_decode pops different requests of the batch, never all of them.
LEMMA RetractionsType ==
  ASSUME NEW live \in SUBSET Reqs, NEW s \in Retractions(live)
  PROVE  /\ s \in Seq(Reqs) /\ NoRepeats(s) /\ Range(s) \subseteq live
         /\ live \ Range(s) # {}
<1>1. PICK S \in SUBSET live : S # live /\ s \in Injection(1..Cardinality(S), S)
  BY DEF Retractions
<1> DEFINE D == 1..Cardinality(S)
<1>2. s \in [D -> S] /\ \A i, j \in D : i # j => s[i] # s[j]
  BY <1>1 DEF Injection, IsInjective
<1>3. Cardinality(S) \in Nat
  BY PrefillQueueAssumption, FS_Subset, FS_CardinalityType
<1>4. s \in Seq(Reqs) /\ Len(s) = Cardinality(S)
  BY <1>2, <1>3
<1>5. NoRepeats(s)
  BY <1>2, <1>4 DEF NoRepeats
<1>6. Range(s) \subseteq S
  BY <1>2 DEF Range
<1> QED
  BY <1>1, <1>4, <1>5, <1>6, ZenonT(30)

\* _add_request_to_queue puts those it does not refuse behind the others.
LEMMA QueuedOK ==
  ASSUME NEW waiting, QueueLists(waiting_queue, waiting),
         NEW s \in Seq(Reqs), NoRepeats(s), Range(s) \cap waiting = {}
  PROVE  /\ Refused(s) \subseteq Range(s)
         /\ QueueLists(waiting_queue \o Queued(s), waiting \cup (Range(s) \ Refused(s)))
<1> DEFINE m == Most(Room, 0)
           k == Least(m, Len(s))
<1>1. waiting_queue \in Seq(Reqs) /\ NoRepeats(waiting_queue) /\ Range(waiting_queue) = waiting
      /\ Len(waiting_queue) \in Nat /\ Len(waiting_queue) <= MaxQueued /\ MaxQueued \in Nat
  BY PrefillQueueAssumption DEF QueueLists
<1>2. /\ m \in Nat /\ k \in Nat /\ k <= Len(s) /\ k <= MaxQueued - Len(waiting_queue)
      /\ m < Len(s) => k = m
      /\ m >= Len(s) => k = Len(s)
  BY <1>1 DEF Most, Least, Room
<1> HIDE DEF m, k
<1> DEFINE t == SubSeq(s, 1, k)
           u == SubSeq(s, m + 1, Len(s))
<1>3. /\ t \in Seq(Reqs) /\ Len(t) = k /\ NoRepeats(t)
      /\ Range(t) = {s[i] : i \in 1..k}
  <2>1. k <= Len(s) /\ 1 \in Nat \ {0} /\ k \in Nat
    BY <1>2
  <2>2. Len(t) = IF 1 <= k THEN k - 1 + 1 ELSE 0
    BY <2>1, SubSeqOK
  <2>3. t \in Seq(Reqs) /\ NoRepeats(t) /\ Range(t) = {s[i] : i \in 1..k}
    BY <2>1, SubSeqOK
  <2> QED
    BY <2>1, <2>2, <2>3
<1>4. Range(u) = {s[i] : i \in (m + 1)..Len(s)}
  <2>1. m + 1 \in Nat \ {0} /\ Len(s) \in Nat /\ Len(s) <= Len(s)
    BY <1>2
  <2> QED
    BY <2>1, SubSeqOK
<1>5. Queued(s) = t /\ Refused(s) = Range(u)
  BY DEF Queued, Refused, m, k
<1> HIDE DEF t, u
<1>6. \A x : x \in Range(s) <=> \E j \in 1..Len(s) : s[j] = x
  BY RangeOK
<1>7. Refused(s) \subseteq Range(s)
  BY <1>2, <1>4, <1>5, <1>6
<1>8. Range(t) = Range(s) \ Refused(s)
  <2>1. \A i, j \in 1..Len(s) : s[i] = s[j] => i = j
    BY DEF NoRepeats
  <2>2. 1..k \subseteq 1..Len(s) /\ \A i \in 1..Len(s) : i \in 1..k <=> i \notin (m + 1)..Len(s)
    BY <1>2
  <2>3. (m + 1)..Len(s) \subseteq 1..Len(s)
    BY <1>2
  <2>4. ASSUME NEW x \in Range(t) PROVE x \in Range(s) \ Range(u)
    BY <1>3, <1>4, <1>6, <2>1, <2>2, <2>3
  <2>5. ASSUME NEW x \in Range(s) \ Range(u) PROVE x \in Range(t)
    BY <1>3, <1>4, <1>6, <2>2
  <2> QED
    BY <1>5, <2>4, <2>5
<1>9. /\ waiting_queue \o t \in Seq(Reqs)
      /\ Len(waiting_queue \o t) <= MaxQueued
  BY <1>1, <1>2, <1>3
<1>10. /\ Range(waiting_queue \o t) = waiting \cup Range(t)
       /\ NoRepeats(waiting_queue \o t)
  <2>1. Range(waiting_queue) \cap Range(t) = {}
    BY <1>1, <1>8
  <2> QED
    BY <1>1, <1>3, <2>1, RangeOK
<1> QED
  BY <1>5, <1>7, <1>8, <1>9, <1>10 DEF QueueLists

\* Requests leave the queue.
LEMMA DequeuedOK ==
  ASSUME NEW waiting, QueueLists(waiting_queue, waiting), NEW S
  PROVE  QueueLists(Filtered(waiting_queue, Reqs \ S), waiting \ S)
<1>1. waiting_queue \in Seq(Reqs) /\ NoRepeats(waiting_queue) /\ Range(waiting_queue) = waiting
      /\ Len(waiting_queue) \in Nat /\ Len(waiting_queue) <= MaxQueued /\ MaxQueued \in Nat
  BY PrefillQueueAssumption DEF QueueLists
<1> DEFINE q == Filtered(waiting_queue, Reqs \ S)
<1>2. /\ q \in Seq(Reqs) /\ Len(q) <= Len(waiting_queue) /\ NoRepeats(q)
      /\ Range(q) = waiting \cap (Reqs \ S)
  BY <1>1, FilteredOK
<1>3. waiting \subseteq Reqs
  BY <1>1, RangeOK
<1> HIDE DEF q
<1>4. Len(q) <= MaxQueued
  BY <1>1, <1>2
<1>5. Range(q) = waiting \ S
  BY <1>2, <1>3
<1> QED
  BY <1>2, <1>4, <1>5, ZenonT(30) DEF QueueLists, q

-----------------------------------------------------------------------------
(* One request of the queue                                                *)

\* The adder with a request that it lets in.
LEMMA WithRequestOK ==
  ASSUME QueueInv, NEW r \in Reqs, ~adder.has_deterministic,
         ~SkipsDeterministic(r)
  PROVE  LET a == WithRequest(adder, r)
             n == ExtendInputLen(req[r])
         IN  /\ Isolated(a) /\ a.pos = adder.pos
             /\ a.can_run_list = adder.can_run_list \cup {r}
             /\ n \in Nat /\ a.extend_num_tokens = adder.extend_num_tokens + n
             /\ a.rem_total_token_offset =
                  adder.rem_total_token_offset + n
                    + Least(req[r].max_new_tokens, ClipMaxNew)
             /\ a.has_deterministic = (r \in Deterministic)
<1> DEFINE a == WithRequest(adder, r)
           n == ExtendInputLen(req[r])
           m == Least(req[r].max_new_tokens, ClipMaxNew)
<1>1. req[r] \in RequestType /\ adder \in AdderType
  BY DEF QueueInv, Isolated
<1>2. n \in Nat /\ m \in Int
  BY <1>1, PrefillQueueAssumption DEF ExtendInputLen, Least, RequestType
<1> HIDE DEF n, m
<1>3. a = [adder EXCEPT
             !.can_run_list = @ \cup {r},
             !.rem_total_token_offset = @ + n + m,
             !.cur_rem_token_offset = @ + n,
             !.rem_input_tokens = @ - n,
             !.extend_num_tokens = @ + n,
             !.has_deterministic = r \in Deterministic]
  BY DEF WithRequest, n, m
<1> HIDE DEF a
<1>4. /\ adder.rem_total_token_offset + n + m \in Int
      /\ adder.cur_rem_token_offset + n \in Nat
      /\ adder.rem_input_tokens - n \in Int
      /\ adder.extend_num_tokens + n \in Nat
      /\ adder.can_run_list \cup {r} \in SUBSET Reqs
      /\ (r \in Deterministic) \in BOOLEAN
  BY <1>1, <1>2 DEF AdderType
<1>5. a \in AdderType
  BY <1>1, <1>3, <1>4, Zenon DEF AdderType
<1>6. /\ a.can_run_list = adder.can_run_list \cup {r} /\ a.pos = adder.pos
      /\ a.extend_num_tokens = adder.extend_num_tokens + n
      /\ a.rem_total_token_offset = adder.rem_total_token_offset + n + m
      /\ a.has_deterministic = (r \in Deterministic)
  BY <1>1, <1>3 DEF AdderType
<1>7. CASE r \in Deterministic
  <2>1. adder.can_run_list = {}
    BY <1>7 DEF SkipsDeterministic
  <2> QED
    BY <1>2, <1>5, <1>6, <1>7, <2>1, ZenonT(30) DEF Isolated, a, n, m
<1>8. CASE r \notin Deterministic
  <2>1. adder.can_run_list \cap Deterministic = {}
    BY DEF QueueInv, Isolated
  <2> QED
    BY <1>2, <1>5, <1>6, <1>8, <2>1, ZenonT(30) DEF Isolated, a, n, m
<1> QED
  BY <1>7, <1>8

\* Request r enters the batch.
Admits(r) ==
  /\ ~adder.has_deterministic /\ ~SkipsDeterministic(r)
  /\ Cardinality(adder.can_run_list) < NumAllocatable
  /\ ~NoTokens(adder, req[r])

\* Request r finds no row or no room.
Crowded(r) ==
  \/ Cardinality(adder.can_run_list) >= NumAllocatable
  \/ NoTokens(adder, req[r])

\* The adder when the loop body is done with request r.
After(r, added) == IF added THEN WithRequest(adder, r) ELSE adder

\* A pass through the loop body goes on or ends, with the request let in or not.
\* It goes on without the request only if that waits for a batch of its own.
LEMMA ScanRequestCases ==
  ASSUME NEW r \in Reqs, ScanRequest(r), batch_is_full \in BOOLEAN
  PROVE  \E added \in BOOLEAN :
           /\ added => Admits(r)
           /\ \/ /\ ContinueScan(After(r, added))
                 /\ ~added => SkipsDeterministic(r)
              \/ \E full \in BOOLEAN :
                   /\ EndScan(After(r, added), full)
                   /\ ~added /\ full => batch_is_full \/ Crowded(r)
<1> DEFINE P(added) ==
      /\ added => Admits(r)
      /\ \/ /\ ContinueScan(After(r, added))
            /\ ~added => SkipsDeterministic(r)
         \/ \E full \in BOOLEAN :
              /\ EndScan(After(r, added), full)
              /\ ~added /\ full => batch_is_full \/ Crowded(r)
<1> SUFFICES \E added \in BOOLEAN : P(added)
  OBVIOUS
<1>1. TRUE \in BOOLEAN /\ FALSE \in BOOLEAN
      /\ (batch_is_full \/ BudgetState(WithRequest(adder, r)) = "no_token") \in BOOLEAN
  BY Zenon
<1>2. CASE adder.has_deterministic /\ EndScan(adder, batch_is_full)
  <2>1. P(FALSE)
    BY <1>2, Zenon DEF After
  <2> HIDE DEF P
  <2> QED BY <1>1, <2>1, Zenon
<1>3. CASE ~adder.has_deterministic /\ SkipsDeterministic(r) /\ ContinueScan(adder)
  <2>1. P(FALSE)
    BY <1>3, Zenon DEF After
  <2> HIDE DEF P
  <2> QED BY <1>1, <2>1, Zenon
<1>4. CASE Crowded(r) /\ EndScan(adder, TRUE)
  <2>1. P(FALSE)
    BY <1>1, <1>4, Zenon DEF After
  <2> HIDE DEF P
  <2> QED BY <1>1, <2>1, Zenon
<1>5. CASE EndScan(adder, batch_is_full)
  <2>1. P(FALSE)
    BY <1>5, Zenon DEF After
  <2> HIDE DEF P
  <2> QED BY <1>1, <2>1, Zenon
<1>6. CASE Admits(r) /\ (ContinueScan(WithRequest(adder, r)) \/
              EndScan(WithRequest(adder, r),
                      batch_is_full \/ BudgetState(WithRequest(adder, r)) = "no_token"))
  <2>1. P(TRUE)
    BY <1>1, <1>6, Zenon DEF After
  <2> HIDE DEF P
  <2> QED BY <1>1, <2>1, Zenon
<1> DEFINE b == WithRequest(adder, r)
           full == batch_is_full \/ BudgetState(b) = "no_token"
<1>7. \/ adder.has_deterministic /\ EndScan(adder, batch_is_full)
      \/ ~adder.has_deterministic /\ SkipsDeterministic(r) /\ ContinueScan(adder)
      \/ Crowded(r) /\ EndScan(adder, TRUE)
      \/ EndScan(adder, batch_is_full)
      \/ Admits(r) /\ (ContinueScan(b) \/ EndScan(b, full))
  <2> HIDE DEF b, full
  <2>1. \/ adder.has_deterministic /\ EndScan(adder, batch_is_full)
        \/ ~adder.has_deterministic /\ SkipsDeterministic(r) /\ ContinueScan(adder)
        \/ /\ Cardinality(adder.can_run_list) >= NumAllocatable
           /\ EndScan(adder, TRUE)
        \/ /\ ~adder.has_deterministic /\ ~SkipsDeterministic(r)
           /\ Cardinality(adder.can_run_list) < NumAllocatable
           /\ \/ NoTokens(adder, req[r]) /\ EndScan(adder, TRUE)
              \/ ~NoTokens(adder, req[r]) /\ EndScan(adder, batch_is_full)
              \/ ~NoTokens(adder, req[r]) /\ ContinueScan(b)
              \/ ~NoTokens(adder, req[r]) /\ EndScan(b, full)
    BY Zenon DEF ScanRequest, b, full
  <2> QED
    BY <2>1, Zenon DEF Admits, Crowded
<1> HIDE DEF P
<1> QED
  BY <1>2, <1>3, <1>4, <1>5, <1>6, <1>7, Zenon

\* The three ways a pass through the loop body ends: the loop goes on, a batch
\* is ready, or there is none.
ScanOutcome(r, added) ==
  LET a == After(r, added)
  IN  /\ r = waiting_queue[adder.pos]
      /\ added => Admits(r)
      /\ Isolated(a) /\ a.pos = adder.pos
      /\ \/ /\ pc' = "scan" /\ a.pos < Len(waiting_queue)
            /\ adder' = [a EXCEPT !.pos = @ + 1]
            /\ batch_is_full' = batch_is_full
            /\ ~added => SkipsDeterministic(r)
         \/ /\ pc' = "prefill" /\ adder' = a /\ a.can_run_list # {}
            /\ batch_is_full' \in BOOLEAN
         \/ /\ pc' = "decode" /\ adder' = NoAdder /\ ~added
            /\ adder.can_run_list = {} /\ batch_is_full' \in BOOLEAN
            /\ batch_is_full' => batch_is_full \/ Crowded(r)

LEMMA ScanStep ==
  ASSUME QueueInv, ScanQueue
  PROVE  \E r \in Reqs, added \in BOOLEAN : ScanOutcome(r, added)
<1>1. PICK r \in Reqs : waiting_queue[adder.pos] = r /\ ScanRequest(r)
  BY DEF ScanQueue
<1>2. batch_is_full \in BOOLEAN /\ pc = "scan" /\ Isolated(adder)
  BY DEF QueueInv, ScanQueue
<1>3. PICK added \in BOOLEAN :
           /\ added => Admits(r)
           /\ \/ /\ ContinueScan(After(r, added))
                 /\ ~added => SkipsDeterministic(r)
              \/ \E full \in BOOLEAN :
                   /\ EndScan(After(r, added), full)
                   /\ ~added /\ full => batch_is_full \/ Crowded(r)
  BY <1>1, <1>2, ScanRequestCases
<1> DEFINE a == After(r, added)
<1>4. /\ Isolated(a) /\ a.pos = adder.pos
      /\ added => a.can_run_list # {}
      /\ ~added => a = adder
  <2>1. CASE added
    <3>1. /\ Isolated(WithRequest(adder, r)) /\ WithRequest(adder, r).pos = adder.pos
          /\ WithRequest(adder, r).can_run_list = adder.can_run_list \cup {r}
      BY <1>3, <2>1, WithRequestOK DEF Admits
    <3> QED
      BY <2>1, <3>1 DEF After
  <2>2. CASE ~added
    BY <1>2, <2>2 DEF After
  <2> QED BY <2>1, <2>2
<1> HIDE DEF a
<1> USE DEF ScanOutcome
<1>5. ASSUME NEW full \in BOOLEAN, EndScan(a, full),
             ~added /\ full => batch_is_full \/ Crowded(r)
      PROVE  \/ /\ pc' = "prefill" /\ adder' = a /\ a.can_run_list # {}
                /\ batch_is_full' \in BOOLEAN
             \/ /\ pc' = "decode" /\ adder' = NoAdder /\ ~added
                /\ adder.can_run_list = {} /\ batch_is_full' \in BOOLEAN
                /\ batch_is_full' => batch_is_full \/ Crowded(r)
  BY <1>4, <1>5, Zenon DEF EndScan
<1>6. CASE ContinueScan(a) /\ (~added => SkipsDeterministic(r))
  <2>1. CASE a.pos < Len(waiting_queue)
    BY <1>1, <1>2, <1>3, <1>4, <1>6, <2>1, Zenon DEF ContinueScan, a
  <2>2. CASE ~(a.pos < Len(waiting_queue))
    <3>1. EndScan(a, batch_is_full)
      BY <1>6, <2>2 DEF ContinueScan
    <3> QED
      BY <1>1, <1>2, <1>3, <1>4, <1>5, <3>1, Zenon DEF a
  <2> QED BY <2>1, <2>2
<1>7. CASE \E full \in BOOLEAN :
             EndScan(a, full) /\ (~added /\ full => batch_is_full \/ Crowded(r))
  BY <1>1, <1>3, <1>4, <1>5, <1>7, Zenon DEF a
<1> QED
  BY <1>3, <1>6, <1>7 DEF a

\* A request that add_one_req let in has its prompt covered, and a row.
LEMMA AdmittedFits ==
  ASSUME QueueInv, Budgeted(adder), NEW r \in Reqs, Admits(r),
         r \notin Deterministic => req[r].max_new_tokens >= 0
  PROVE  Budgeted(WithRequest(adder, r))
<1> DEFINE a == WithRequest(adder, r)
           q == req[r]
           n == ExtendInputLen(q)
           m == Least(q.max_new_tokens, ClipMaxNew)
<1>1. /\ Isolated(a)
      /\ a.can_run_list = adder.can_run_list \cup {r}
      /\ n \in Nat /\ a.extend_num_tokens = adder.extend_num_tokens + n
      /\ a.rem_total_token_offset = adder.rem_total_token_offset + n + m
      /\ a.has_deterministic = (r \in Deterministic)
  BY WithRequestOK, ZenonT(30) DEF Admits
<1>2. /\ q \in RequestType /\ q.max_new_tokens \in Int /\ q.out \in Nat
      /\ adder.extend_num_tokens \in Nat /\ adder.rem_total_token_offset \in Int
      /\ adder.can_run_list \in SUBSET Reqs /\ available \in Nat
      /\ ClipMaxNew \in Nat /\ ReqRows \in Nat /\ MaxRunning \in Nat
  <2>1. /\ req \in [Reqs -> RequestType] /\ adder \in AdderType
        /\ available \in 0..Capacity
    BY DEF QueueInv, Isolated
  <2>2. q \in RequestType /\ q.max_new_tokens \in Int /\ q.out \in Nat
    BY <2>1 DEF RequestType
  <2>3. available \in Nat
    BY <2>1, ConstantTypes
  <2>4. /\ adder.extend_num_tokens \in Nat /\ adder.rem_total_token_offset \in Int
        /\ adder.can_run_list \in SUBSET Reqs
    BY <2>1 DEF AdderType
  <2> QED
    BY <2>2, <2>3, <2>4, PrefillQueueAssumption
<1>3. RemainingNew(q) \in Nat
  BY <1>2 DEF RemainingNew, Least, Most
<1>4. m \in Int /\ (r \notin Deterministic => m >= 0)
  BY <1>2 DEF Least
<1> HIDE DEF a, n, m
<1>5. n + RemainingNew(q) < available - adder.rem_total_token_offset
  BY <1>1, <1>2, <1>3 DEF Admits, NoTokens, TotalTokens, RemTotalTokens, n
<1>6. adder.extend_num_tokens <= adder.rem_total_token_offset
  BY DEF Budgeted, Admits
<1>7. a.extend_num_tokens <= available
  BY <1>1, <1>2, <1>3, <1>5, <1>6
<1>8. ~a.has_deterministic => a.extend_num_tokens <= a.rem_total_token_offset
  <2>1. ~a.has_deterministic => r \notin Deterministic
    BY <1>1, Zenon
  <2>2. r \notin Deterministic =>
          adder.extend_num_tokens + n <= adder.rem_total_token_offset + n + m
    BY <1>1, <1>2, <1>4, <1>6
  <2>3. /\ a.extend_num_tokens = adder.extend_num_tokens + n
        /\ a.rem_total_token_offset = adder.rem_total_token_offset + n + m
    BY <1>1
  <2> QED
    BY <2>1, <2>2, <2>3
<1>9. Cardinality(a.can_run_list) <= ReqRows - Cardinality(Batched)
  <2>1. /\ IsFiniteSet(Reqs) /\ IsFiniteSet(adder.can_run_list)
        /\ IsFiniteSet(Batched) /\ IsFiniteSet(running)
    BY <1>2, PrefillQueueAssumption, FS_Subset
    DEF Batched, QueueInv
  <2>2. /\ Cardinality(adder.can_run_list) \in Nat
        /\ Cardinality(Batched) \in Nat /\ Cardinality(running) \in Nat
    BY <2>1, FS_CardinalityType
  <2>3. Cardinality(a.can_run_list) <= Cardinality(adder.can_run_list) + 1
    <3>1. Cardinality(adder.can_run_list \cup {r}) =
            IF r \in adder.can_run_list THEN Cardinality(adder.can_run_list)
            ELSE Cardinality(adder.can_run_list) + 1
      BY <2>1, FS_AddElement, ZenonT(30)
    <3>2. a.can_run_list = adder.can_run_list \cup {r}
      BY <1>1
    <3> QED
      BY <2>2, <3>1, <3>2
  <2>4. Cardinality(adder.can_run_list) < ReqRows - Cardinality(Batched)
    BY <1>2, <2>2 DEF Admits, NumAllocatable, Least
  <2>5. Cardinality(a.can_run_list) \in Nat
    BY <1>1, <2>1, FS_AddElement, FS_CardinalityType, ZenonT(30)
  <2> QED
    BY <1>2, <2>2, <2>3, <2>4, <2>5
<1> QED
  BY <1>7, <1>8, <1>9 DEF Budgeted, a

-----------------------------------------------------------------------------
(* The steps                                                               *)

\* available_size() is within the pool.
LEMMA FreeSlotsType ==
  \A f, n : n \in FreeSlots(f) =>
    n \in 0..Capacity /\ n = Capacity - Cardinality(Entries(f, DOMAIN f))
  BY DEF FreeSlots

\* An adder that has let in nothing.
LEMMA NewAdderIsolated ==
  ASSUME NEW offset \in Int
  PROVE  Isolated(NewAdder(offset)) /\ NewAdder(offset).pos = 1
         /\ NewAdder(offset).can_run_list = {}
<1>1. NewAdder(offset).pos = 1
  BY DEF NewAdder
<1> QED
  BY <1>1, NewAdderOK, Zenon DEF Isolated

\* The scheduler as it starts.
LEMMA InitOK == Init => QueueInv /\ pc = "top"
<1> SUFFICES ASSUME Init PROVE QueueInv /\ pc = "top"
  OBVIOUS
<1>1. \A r \in Reqs : InputLen[r] \in Nat /\ RequestedNew[r] \in Nat
  BY PrefillQueueAssumption
<1>2. req \in [Reqs -> RequestType]
  BY <1>1 DEF Init, RequestType, Status
<1>3. Isolated(adder)
  <2>1. 0 \in Int
    OBVIOUS
  <2> QED
    BY <2>1, NewAdderIsolated, Zenon DEF Init, NoAdder
<1>4. available \in 0..Capacity /\ MaxQueued \in Nat
  BY ConstantTypes, PrefillQueueAssumption DEF Init
<1>5. QueueLists(waiting_queue, Waiting)
  <2>1. waiting_queue = <<>> /\ Waiting = {}
    BY DEF Init, Waiting
  <2>2. <<>> \in Seq(Reqs) /\ Len(<<>>) = 0
    OBVIOUS
  <2>3. NoRepeats(<<>>) /\ Range(<<>>) = {}
    BY <2>2 DEF NoRepeats, Range
  <2> QED
    BY <1>4, <2>1, <2>2, <2>3 DEF QueueLists
<1> QED
  BY <1>2, <1>3, <1>4, <1>5, ZenonT(30) DEF Init, QueueInv

\* A step between two scans that changes the queue and the requests.
LEMMA QueueChanged ==
  ASSUME QueueInv, req' \in [Reqs -> RequestType],
         QueueLists(waiting_queue', Waiting'), running' \in SUBSET Reqs,
         last_batch' \in SUBSET Reqs, batch_is_full' \in BOOLEAN,
         available' \in 0..Capacity, adder' \in {adder, NoAdder}, pc' = "top"
  PROVE  QueueInv'
<1>1. Isolated(adder')
  <2>1. 0 \in Int
    OBVIOUS
  <2>2. Isolated(NoAdder)
    BY <2>1, NewAdderIsolated, Zenon DEF NoAdder
  <2> QED
    BY <2>2 DEF QueueInv
<1> QED
  BY <1>1 DEF QueueInv, QueueLists, Isolated

\* Arrivals leave the adder alone.
LEMMA HandleGenerateRequestOK ==
  ASSUME QueueInv, NEW r \in Reqs, HandleGenerateRequest(r)
  PROVE  /\ QueueInv' /\ pc' = pc /\ pc = "top"
         /\ req[r].status = "new"
         /\ \E q \in RequestType :
              /\ req' = [req EXCEPT ![r] = q]
              /\ \/ q = [req[r] EXCEPT !.status = "aborted"]
                 \/ q = Received(r)
<1>1. /\ req[r] \in RequestType /\ req \in [Reqs -> RequestType]
      /\ QueueLists(waiting_queue, Waiting)
  BY DEF QueueInv
<1>2. /\ req[r].status = "new"
      /\ req' = [req EXCEPT ![r] = IF r \in Refused(<<r>>)
                                   THEN [req[r] EXCEPT !.status = "aborted"]
                                   ELSE Received(r)]
      /\ waiting_queue' = waiting_queue \o Queued(<<r>>)
      /\ running' = running /\ last_batch' = last_batch /\ adder' = adder
      /\ available' = available /\ batch_is_full' = batch_is_full
      /\ pc' = pc /\ pc = "top"
  BY <1>1 DEF HandleGenerateRequest
<1> DEFINE q == IF r \in Refused(<<r>>) THEN [req[r] EXCEPT !.status = "aborted"]
                ELSE Received(r)
<1>3. /\ q \in RequestType
      /\ q.status = IF r \in Refused(<<r>>) THEN "aborted" ELSE "waiting"
  <2>1. /\ [req[r] EXCEPT !.status = "aborted"] \in RequestType
        /\ [req[r] EXCEPT !.status = "aborted"].status = "aborted"
    BY <1>1 DEF RequestType, Status
  <2>2. Received(r) \in RequestType /\ Received(r).status = "waiting"
    BY ReceivedType, ZenonT(30) DEF Received
  <2> QED
    BY <2>1, <2>2, Zenon
<1>4. /\ <<r>> \in Seq(Reqs) /\ NoRepeats(<<r>>) /\ Range(<<r>>) = {r}
  BY DEF NoRepeats, Range
<1>5. r \notin Waiting
  BY <1>2 DEF Waiting
<1>6. QueueLists(waiting_queue', Waiting \cup ({r} \ Refused(<<r>>)))
  BY <1>1, <1>2, <1>4, <1>5, QueuedOK, ZenonT(30)
<1> HIDE DEF q
<1>7. req' = [req EXCEPT ![r] = q]
  BY <1>2, Zenon DEF q
<1>8. Waiting' = Waiting \cup ({r} \ Refused(<<r>>))
  BY <1>1, <1>3, <1>5, <1>7 DEF Waiting
<1>9. QueueInv'
  <2>1. req' \in [Reqs -> RequestType]
    BY <1>1, <1>3, <1>7
  <2>2. QueueLists(waiting_queue', Waiting')
    BY <1>6, <1>8
  <2>3. /\ running \in SUBSET Reqs /\ last_batch \in SUBSET Reqs
        /\ batch_is_full \in BOOLEAN /\ available \in 0..Capacity
    BY DEF QueueInv
  <2> QED
    BY <1>2, <2>1, <2>2, <2>3, QueueChanged, Zenon
<1>10. q = [req[r] EXCEPT !.status = "aborted"] \/ q = Received(r)
  BY Zenon DEF q
<1> QED
  BY <1>2, <1>3, <1>7, <1>9, <1>10, Zenon

\* Aborts leave the adder alone.
LEMMA AbortRequestOK ==
  ASSUME QueueInv, NEW r \in Reqs, AbortRequest(r)
  PROVE  /\ QueueInv' /\ pc' = pc /\ pc = "top"
         /\ \E q \in RequestType :
              /\ req' = [req EXCEPT ![r] = q]
              /\ \/ req[r].status = "waiting" /\ q = [req[r] EXCEPT !.status = "aborted"]
                 \/ req[r].status = "batched" /\ q = [req[r] EXCEPT !.to_finish = TRUE]
<1>1. /\ req[r] \in RequestType /\ req \in [Reqs -> RequestType]
      /\ QueueLists(waiting_queue, Waiting)
      /\ running \in SUBSET Reqs /\ last_batch \in SUBSET Reqs
      /\ batch_is_full \in BOOLEAN /\ available \in 0..Capacity
  BY DEF QueueInv
<1>2. /\ running' = running /\ last_batch' = last_batch /\ adder' = adder
      /\ available' = available /\ batch_is_full' = batch_is_full
      /\ pc' = pc /\ pc = "top"
  BY DEF AbortRequest
<1>3. CASE /\ req[r].status = "waiting"
           /\ req' = [req EXCEPT ![r].status = "aborted"]
           /\ waiting_queue' = Filtered(waiting_queue, Reqs \ {r})
  <2> DEFINE q == [req[r] EXCEPT !.status = "aborted"]
  <2>1. q \in RequestType /\ q.status = "aborted"
    BY <1>1 DEF RequestType, Status
  <2>2. req' = [req EXCEPT ![r] = q]
    BY <1>1, <1>3
  <2>3. QueueLists(waiting_queue', Waiting \ {r})
    BY <1>1, <1>3, DequeuedOK, ZenonT(30)
  <2> HIDE DEF q
  <2>4. req' \in [Reqs -> RequestType] /\ Waiting' = Waiting \ {r}
    BY <1>1, <2>1, <2>2 DEF Waiting
  <2>5. QueueInv'
    BY <1>1, <1>2, <2>3, <2>4, QueueChanged
  <2> QED
    BY <1>2, <1>3, <2>1, <2>2, <2>5, ZenonT(30) DEF q
<1>4. CASE /\ req[r].status = "batched"
           /\ req' = [req EXCEPT ![r].to_finish = TRUE]
           /\ waiting_queue' = waiting_queue
  <2> DEFINE q == [req[r] EXCEPT !.to_finish = TRUE]
  <2>1. q \in RequestType /\ q.status = "batched"
    BY <1>1, <1>4, ZenonT(30) DEF RequestType, Status
  <2>2. req' = [req EXCEPT ![r] = q]
    BY <1>1, <1>4
  <2> HIDE DEF q
  <2>3. req' \in [Reqs -> RequestType] /\ Waiting' = Waiting
    BY <1>1, <1>4, <2>1, <2>2, ZenonT(30) DEF Waiting
  <2>4. QueueInv'
    BY <1>1, <1>2, <1>4, <2>3, QueueChanged
  <2> QED
    BY <1>2, <1>4, <2>1, <2>2, <2>4, ZenonT(30) DEF q
<1> QED
  BY <1>3, <1>4 DEF AbortRequest

\* A scan starts with a new adder, at the head of a queue that is not empty.
LEMMA MergeLastBatchOK ==
  ASSUME QueueInv, MergeLastBatch
  PROVE  /\ QueueInv' /\ req' = req /\ available' = available /\ pc = "top"
         /\ waiting_queue' = waiting_queue /\ last_batch' = {}
         /\ running' = running \cup (last_batch \cap Batched)
         /\ batch_is_full' = (/\ batch_is_full /\ last_batch \cap Batched = last_batch
                              /\ last_batch \cap Batched # {} => running # {})
         /\ \/ pc' = "decode"
            \/ /\ pc' = "scan" /\ ~batch_is_full' /\ waiting_queue # <<>>
               /\ \E offset \in RunningOffsets(running') :
                    offset \in Nat /\ adder' = NewAdder(offset)
<1>1. /\ running' = running \cup (last_batch \cap Batched)
      /\ last_batch' = {} /\ req' = req /\ waiting_queue' = waiting_queue
      /\ available' = available /\ pc = "top"
      /\ batch_is_full' = (/\ batch_is_full /\ last_batch \cap Batched = last_batch
                           /\ last_batch \cap Batched # {} => running # {})
  BY DEF MergeLastBatch
<1>2. \/ pc' = "decode" /\ adder' = adder
      \/ /\ pc' = "scan" /\ ~batch_is_full' /\ waiting_queue # <<>>
         /\ \E offset \in RunningOffsets(running') :
              offset \in Nat /\ adder' = NewAdder(offset)
  <2>1. RunningOffsets(running') \subseteq Nat
    BY ConstantTypes DEF RunningOffsets
  <2> QED
    BY <2>1, Zenon DEF MergeLastBatch
<1>3. running' \in SUBSET Reqs /\ batch_is_full' \in BOOLEAN
  BY <1>1 DEF QueueInv
<1>4. \A offset \in Nat :
        /\ Isolated(NewAdder(offset)) /\ NewAdder(offset).pos = 1
        /\ NewAdder(offset).can_run_list = {}
  <2> TAKE offset \in Nat
  <2>1. offset \in Int
    OBVIOUS
  <2> QED
    BY <2>1, NewAdderIsolated, Zenon
<1>5. waiting_queue # <<>> => 1 <= Len(waiting_queue)
  BY DEF QueueInv, QueueLists
<1>6. Isolated(adder')
  BY <1>2, <1>4 DEF QueueInv
<1>7. pc' = "scan" => adder'.pos <= Len(waiting_queue) /\ adder'.can_run_list = {}
  BY <1>2, <1>4, <1>5
<1>8. QueueInv'
  BY <1>1, <1>2, <1>3, <1>6, <1>7, ZenonT(30) DEF QueueInv, QueueLists, Waiting, Isolated
<1> QED
  BY <1>1, <1>2, <1>8, Zenon

\* The request that the scan looks at waits.
LEMMA ScannedWaits ==
  ASSUME QueueInv, pc = "scan", NEW r, r = waiting_queue[adder.pos]
  PROVE  r \in Waiting
<1>1. /\ waiting_queue \in Seq(Reqs) /\ Range(waiting_queue) = Waiting
      /\ adder.pos \in 1..Len(waiting_queue)
  BY DEF QueueInv, QueueLists, Isolated, AdderType
<1> QED
  BY <1>1, RangeOK

\* One pass through the loop over the queue.
LEMMA ScanQueueOK ==
  ASSUME QueueInv, ScanQueue
  PROVE  /\ QueueInv' /\ req' = req /\ available' = available
         /\ waiting_queue' = waiting_queue /\ running' = running
         /\ last_batch' = last_batch /\ pc = "scan"
         /\ pc' \in {"scan", "prefill", "decode"}
<1>1. /\ req' = req /\ running' = running /\ last_batch' = last_batch
      /\ available' = available /\ waiting_queue' = waiting_queue /\ pc = "scan"
  BY ZenonT(30) DEF ScanQueue
<1>2. PICK r \in Reqs, added \in BOOLEAN : ScanOutcome(r, added)
  BY ScanStep
<1> DEFINE a == After(r, added)
<1>3. r \in Waiting
  BY <1>1, <1>2, ScannedWaits DEF ScanOutcome
<1>4. a.can_run_list \subseteq Waiting
  <2>1. adder.can_run_list \subseteq Waiting
    BY <1>1 DEF QueueInv
  <2>2. CASE added
    <3>1. WithRequest(adder, r).can_run_list = adder.can_run_list \cup {r}
      BY <1>2, <2>2, WithRequestOK DEF Admits, ScanOutcome
    <3> QED
      BY <1>3, <2>1, <2>2, <3>1 DEF After
  <2>3. CASE ~added
    BY <2>1, <2>3 DEF After
  <2> QED BY <2>2, <2>3
<1>5. /\ Isolated(a) /\ a.pos = adder.pos
      /\ \/ /\ pc' = "scan" /\ a.pos < Len(waiting_queue)
            /\ adder' = [a EXCEPT !.pos = @ + 1]
            /\ batch_is_full' = batch_is_full
         \/ /\ pc' = "prefill" /\ adder' = a /\ a.can_run_list # {}
            /\ batch_is_full' \in BOOLEAN
         \/ /\ pc' = "decode" /\ adder' = NoAdder
            /\ batch_is_full' \in BOOLEAN
  BY <1>2 DEF ScanOutcome
<1> HIDE DEF a
<1>6. CASE /\ pc' = "scan" /\ a.pos < Len(waiting_queue)
           /\ adder' = [a EXCEPT !.pos = @ + 1] /\ batch_is_full' = batch_is_full
  <2>1. Len(waiting_queue) \in Nat /\ a.pos \in Nat
    BY <1>5 DEF QueueInv, QueueLists, Isolated, AdderType
  <2>2. /\ Isolated(adder') /\ adder'.can_run_list = a.can_run_list
        /\ adder'.pos = a.pos + 1
    BY <1>5, <1>6 DEF Isolated, AdderType
  <2>3. adder'.pos <= Len(waiting_queue)
    BY <1>6, <2>1, <2>2
  <2> QED
    BY <1>1, <1>4, <1>6, <2>2, <2>3 DEF QueueInv, QueueLists, Waiting, Isolated
<1>7. CASE /\ pc' = "prefill" /\ adder' = a /\ a.can_run_list # {}
           /\ batch_is_full' \in BOOLEAN
  BY <1>1, <1>4, <1>5, <1>7 DEF QueueInv, QueueLists, Waiting, Isolated
<1>8. CASE pc' = "decode" /\ adder' = NoAdder /\ batch_is_full' \in BOOLEAN
  <2>1. 0 \in Int
    OBVIOUS
  <2>2. Isolated(adder')
    BY <1>8, <2>1, NewAdderIsolated, Zenon DEF NoAdder
  <2> QED
    BY <1>1, <1>8, <2>2 DEF QueueInv, QueueLists, Waiting, Isolated
<1> QED
  BY <1>1, <1>5, <1>6, <1>7, <1>8

\* The prefill batch leaves the queue with one output more each, and the adder is
\* dropped.
LEMMA RunPrefillOK ==
  ASSUME QueueInv, RunPrefill
  PROVE  /\ QueueInv' /\ pc = "prefill" /\ pc' = "top" /\ running' = running
         /\ batch_is_full' = batch_is_full /\ last_batch' = adder.can_run_list
         /\ available' = Capacity - Cardinality(Entries(req', Reqs))
         /\ \A r \in Reqs \ adder.can_run_list : req'[r] = req[r]
         /\ \A r \in adder.can_run_list :
              req'[r] \in Advanced(req[r]) /\ req'[r].out = req[r].out + 1
<1> DEFINE S == adder.can_run_list
<1>1. /\ S \in SUBSET Reqs /\ req \in [Reqs -> RequestType]
      /\ QueueLists(waiting_queue, Waiting) /\ running \in SUBSET Reqs
      /\ batch_is_full \in BOOLEAN
  BY DEF QueueInv, Isolated, AdderType
<1>2. PICK f \in PrefillResults(S) :
        /\ req' = Updated(req, f)
        /\ available' \in FreeSlots(Updated(req, f))
  BY DEF RunPrefill
<1>3. DOMAIN f = S /\ \A r \in S : f[r] \in PrefillOutcomes(r)
  BY <1>2 DEF PrefillResults
<1>4. \A r \in S : f[r] \in Advanced(req[r]) /\ f[r].out = req[r].out + 1
  BY <1>1, <1>3, PrefillOutcomesType
<1>5. /\ running' = running /\ last_batch' = S /\ adder' = NoAdder
      /\ pc' = "top" /\ pc = "prefill" /\ batch_is_full' = batch_is_full
      /\ waiting_queue' = Filtered(waiting_queue, Reqs \ S)
  BY DEF RunPrefill
<1> HIDE DEF S
<1>6. /\ req' \in [Reqs -> RequestType]
      /\ \A r \in Reqs \ S : req'[r] = req[r]
      /\ \A r \in S : req'[r] = f[r]
  <2>1. req' \in [Reqs -> RequestType]
    BY <1>1, <1>2, <1>3, <1>4, UpdatedType
  <2> QED
    BY <1>1, <1>2, <1>3, <2>1 DEF Updated
<1>7. /\ available' \in 0..Capacity
      /\ available' = Capacity - Cardinality(Entries(req', Reqs))
  BY <1>2, <1>6, FreeSlotsType
<1>8. Waiting' = Waiting \ S
  BY <1>1, <1>4, <1>6 DEF Waiting, Advanced
<1>9. QueueLists(waiting_queue', Waiting')
  BY <1>1, <1>5, <1>8, DequeuedOK
<1>10. QueueInv'
  BY <1>1, <1>5, <1>6, <1>7, <1>9, QueueChanged
<1> QED
  BY <1>4, <1>5, <1>6, <1>7, <1>10 DEF S

\* Nothing to decode.
LEMMA RunIdleOK ==
  ASSUME QueueInv, UpdateRunningBatch, RunIdle
  PROVE  QueueInv'
<1>1. /\ req' = req /\ waiting_queue' = waiting_queue /\ available' = available
      /\ running' = {} /\ batch_is_full' = (batch_is_full /\ running = {})
      /\ last_batch' = last_batch /\ adder' = adder /\ pc' = "top"
  BY DEF RunIdle, UpdateRunningBatch
<1>2. /\ req \in [Reqs -> RequestType] /\ QueueLists(waiting_queue, Waiting)
      /\ last_batch \in SUBSET Reqs /\ available \in 0..Capacity
  BY DEF QueueInv
<1>3. Waiting' = Waiting
  BY <1>1 DEF Waiting
<1>4. batch_is_full' \in BOOLEAN
  BY <1>1
<1>5. running' \in SUBSET Reqs
  BY <1>1
<1> QED
  BY <1>1, <1>2, <1>3, <1>4, <1>5, QueueChanged

\* The requests before the decode pass: those retracted wait or are gone.
LEMMA AfterRetractionOK ==
  ASSUME req \in [Reqs -> RequestType], NEW s, Refused(s) \subseteq Range(s)
  PROVE  LET base == AfterRetraction(s)
         IN  /\ base \in [Reqs -> RequestType]
             /\ \A r \in Reqs \ Range(s) : base[r] = req[r]
             /\ \A r \in Reqs \cap Refused(s) :
                  base[r] = [req[r] EXCEPT !.status = "aborted"]
             /\ \A r \in (Reqs \cap Range(s)) \ Refused(s) :
                  base[r] = [req[r] EXCEPT !.status = "waiting"]
  BY DEF AfterRetraction, RequestType, Status

\* A decode pass, after the retractions of s: the requests kept got a token,
\* those retracted wait or were refused, the others are as they were.
Decoded(live, s) ==
  /\ running' = live \ Range(s) /\ live \ Range(s) # {}
  /\ batch_is_full' = (batch_is_full /\ live \ Range(s) = running)
  /\ available' = Capacity - Cardinality(Entries(req', Reqs))
  /\ \A r \in live \ Range(s) : req'[r] \in Advanced(req[r])
  /\ \A r \in Range(s) :
       \/ req'[r] = [req[r] EXCEPT !.status = "aborted"]
       \/ req'[r] = [req[r] EXCEPT !.status = "waiting"]
  /\ \A r \in Reqs \ live : req'[r] = req[r]

LEMMA RunDecodeOK ==
  ASSUME QueueInv, UpdateRunningBatch,
         NEW s \in Retractions(running \cap Batched), RunDecode(running \cap Batched, s)
  PROVE  QueueInv' /\ Decoded(running \cap Batched, s)
<1> DEFINE live == running \cap Batched
           kept == live \ Range(s)
           base == AfterRetraction(s)
<1>1. /\ req \in [Reqs -> RequestType] /\ live \in SUBSET Reqs
      /\ QueueLists(waiting_queue, Waiting) /\ last_batch \in SUBSET Reqs
      /\ batch_is_full \in BOOLEAN
  BY DEF QueueInv
<1>2. last_batch' = last_batch /\ adder' = adder
  BY DEF UpdateRunningBatch
<1>3. PICK f \in DecodeResults(kept) :
        /\ req' = Updated(base, f)
        /\ available' \in FreeSlots(Updated(base, f))
  BY DEF RunDecode
<1>4. /\ running' = kept /\ pc' = "top"
      /\ waiting_queue' = waiting_queue \o Queued(s)
      /\ batch_is_full' = (batch_is_full /\ kept = running)
  BY DEF RunDecode
<1>5. DOMAIN f = kept /\ \A r \in kept : f[r] \in DecodeOutcomes(r)
  BY <1>3 DEF DecodeResults
<1>6. \A r \in live : req[r].status = "batched"
  BY DEF Batched
<1> HIDE DEF live
<1>7. /\ s \in Seq(Reqs) /\ NoRepeats(s) /\ Range(s) \subseteq live /\ kept # {}
  BY <1>1, RetractionsType DEF live
<1>8. Range(s) \cap Waiting = {}
  BY <1>6, <1>7 DEF Waiting
<1>9. /\ Refused(s) \subseteq Range(s)
      /\ QueueLists(waiting_queue', Waiting \cup (Range(s) \ Refused(s)))
  BY <1>1, <1>4, <1>7, <1>8, QueuedOK, ZenonT(30)
<1> HIDE DEF base
<1>10. /\ base \in [Reqs -> RequestType]
       /\ \A r \in Reqs \ Range(s) : base[r] = req[r]
       /\ \A r \in Reqs \cap Refused(s) :
            base[r] = [req[r] EXCEPT !.status = "aborted"]
       /\ \A r \in (Reqs \cap Range(s)) \ Refused(s) :
            base[r] = [req[r] EXCEPT !.status = "waiting"]
  BY <1>1, <1>9, AfterRetractionOK DEF base
<1>11. \A r \in kept : f[r] \in Advanced(req[r]) /\ base[r] = req[r]
  BY <1>1, <1>5, <1>6, <1>10, DecodeOutcomesType
<1>12. kept \in SUBSET Reqs /\ \A r \in kept : f[r] \in Advanced(base[r])
  BY <1>1, <1>11
<1> HIDE DEF kept
<1>13. req' \in [Reqs -> RequestType]
  BY <1>3, <1>5, <1>10, <1>12, UpdatedType
<1>14. /\ \A r \in kept : req'[r] = f[r]
       /\ \A r \in Reqs \ kept : req'[r] = base[r]
  BY <1>3, <1>5, <1>12 DEF Updated
<1>15. /\ available' \in 0..Capacity
       /\ available' = Capacity - Cardinality(Entries(req', Reqs))
  BY <1>3, <1>13, FreeSlotsType
<1>16. \A r \in Reqs \ live : req'[r] = req[r]
  BY <1>7, <1>10, <1>14 DEF kept
<1>17. \A r \in Refused(s) : req'[r] = [req[r] EXCEPT !.status = "aborted"]
  BY <1>1, <1>7, <1>9, <1>10, <1>14, Zenon DEF kept
<1>18. \A r \in Range(s) \ Refused(s) : req'[r] = [req[r] EXCEPT !.status = "waiting"]
  BY <1>1, <1>7, <1>9, <1>10, <1>14 DEF kept
<1>19. \A r \in kept : req'[r] \in Advanced(req[r])
  BY <1>11, <1>14
<1>20. Waiting' = Waiting \cup (Range(s) \ Refused(s))
  <2>1. \A r \in kept : req'[r].status # "waiting" /\ req[r].status # "waiting"
    BY <1>6, <1>19 DEF Advanced, kept
  <2>2. \A r \in Refused(s) : req'[r].status = "aborted" /\ req[r].status # "waiting"
    BY <1>1, <1>6, <1>7, <1>9, <1>17, ZenonT(30) DEF RequestType
  <2>3. \A r \in Range(s) \ Refused(s) : req'[r].status = "waiting"
    BY <1>1, <1>7, <1>18, ZenonT(30) DEF RequestType
  <2> QED
    BY <1>1, <1>7, <1>16, <2>1, <2>2, <2>3 DEF Waiting, kept
<1>21. QueueInv'
  <2>1. batch_is_full' \in BOOLEAN
    BY <1>4
  <2> QED
    BY <1>1, <1>2, <1>4, <1>9, <1>12, <1>13, <1>15, <1>20, <2>1, QueueChanged
<1>22. Decoded(live, s)
  BY <1>4, <1>7, <1>15, <1>16, <1>17, <1>18, <1>19, Zenon DEF Decoded, kept
<1> QED
  BY <1>21, <1>22 DEF live

\* The second half of get_next_batch_to_run.
LEMMA UpdateRunningBatchOK ==
  ASSUME QueueInv, UpdateRunningBatch
  PROVE  /\ QueueInv' /\ pc = "decode" /\ pc' = "top"
         /\ last_batch' = last_batch
         /\ \/ running \cap Batched = {} /\ RunIdle
            \/ \E s \in Retractions(running \cap Batched) :
                 DecodeFits((running \cap Batched) \ Range(s), Range(s))
                 /\ Decoded(running \cap Batched, s)
<1>1. CASE running \cap Batched = {} /\ RunIdle
  BY <1>1, RunIdleOK DEF RunIdle, UpdateRunningBatch
<1>2. CASE \E s \in Retractions(running \cap Batched) : RunDecode(running \cap Batched, s)
  <2>1. PICK s \in Retractions(running \cap Batched) : RunDecode(running \cap Batched, s)
    BY <1>2
  <2>2. QueueInv' /\ Decoded(running \cap Batched, s)
    BY <2>1, RunDecodeOK
  <2>3. DecodeFits((running \cap Batched) \ Range(s), Range(s)) /\ pc' = "top"
    BY <2>1 DEF RunDecode
  <2>4. last_batch' = last_batch /\ pc = "decode"
    BY DEF UpdateRunningBatch
  <2> QED
    BY <2>2, <2>3, <2>4, Zenon
<1> QED
  BY <1>1, <1>2, Zenon DEF UpdateRunningBatch

-----------------------------------------------------------------------------
(* The queue and the isolation of deterministic prefills                   *)

\* Every step keeps the queue.
LEMMA QueueStep == QueueInv /\ [Next]_vars => QueueInv'
<1> SUFFICES ASSUME QueueInv, [Next]_vars PROVE QueueInv'
  OBVIOUS
<1>1. CASE UNCHANGED vars
  BY <1>1 DEF vars, QueueInv, QueueLists, Waiting, Isolated
<1>2. ASSUME NEW r \in Reqs, HandleGenerateRequest(r) PROVE QueueInv'
  BY <1>2, HandleGenerateRequestOK
<1>3. ASSUME NEW r \in Reqs, AbortRequest(r) PROVE QueueInv'
  BY <1>3, AbortRequestOK
<1>4. CASE MergeLastBatch
  BY <1>4, MergeLastBatchOK
<1>5. CASE ScanQueue
  BY <1>5, ScanQueueOK
<1>6. CASE RunPrefill
  BY <1>6, RunPrefillOK
<1>7. CASE UpdateRunningBatch
  BY <1>7, UpdateRunningBatchOK
<1> QED
  BY <1>1, <1>2, <1>3, <1>4, <1>5, <1>6, <1>7 DEF Next, Step

LEMMA QueueInvariant == Spec => []QueueInv
<1>1. Init => QueueInv
  BY InitOK
<1> QED
  BY <1>1, QueueStep, PTL DEF Spec

\* The waiting queue lists each waiting request once and never grows beyond
\* max_queued_requests: arrivals, retractions, aborts and prefills keep it so.
THEOREM QueueListsWaiting == Spec => []TypeOK
<1>1. QueueInv => TypeOK
  <2> SUFFICES ASSUME QueueInv PROVE TypeOK
    OBVIOUS
  <2>1. /\ waiting_queue \in Seq(Reqs) /\ NoRepeats(waiting_queue)
        /\ Len(waiting_queue) <= MaxQueued /\ Range(waiting_queue) = Waiting
    BY DEF QueueInv, QueueLists
  <2>2. Cardinality(Range(waiting_queue)) = Len(waiting_queue)
    BY <2>1, NoRepeatsCardinality
  <2> QED
    BY <2>1, <2>2 DEF QueueInv, Isolated, TypeOK, Waiting
<1> QED
  BY <1>1, QueueInvariant, PTL

\* LLM-42's isolated prefill: for every queue, pool and limit, a deterministic
\* request that _get_new_batch_prefill_raw puts in a prefill batch is alone in
\* it.
THEOREM DeterministicPrefillAlone == Spec => []DeterministicAlone
<1>1. QueueInv => DeterministicAlone
  BY FS_Singleton DEF QueueInv, Isolated, DeterministicAlone
<1> QED
  BY <1>1, QueueInvariant, PTL

-----------------------------------------------------------------------------
(* The order of service                                                    *)

\* The first n requests of the queue have been scanned: the batch has only such
\* requests, and who is not in it is deterministic and behind one who is.
Scanned(batch, n) ==
  /\ \A r \in batch : \E i \in 1..n : waiting_queue[i] = r
  /\ \A i \in 1..n : waiting_queue[i] \notin batch =>
       /\ waiting_queue[i] \in Deterministic
       /\ \E k \in 1..(i - 1) : waiting_queue[k] \in batch

OrderInv ==
  /\ QueueInv
  /\ pc = "scan" => Scanned(adder.can_run_list, adder.pos - 1)
  /\ pc = "prefill" =>
       \E n \in 0..Len(waiting_queue) : Scanned(adder.can_run_list, n)

\* The request at position n joins the batch, or is passed over.
LEMMA ScannedNext ==
  ASSUME NEW batch, NEW n \in Nat, Scanned(batch, n), NEW b,
         \/ b = batch \cup {waiting_queue[n + 1]}
         \/ b = batch /\ batch # {} /\ waiting_queue[n + 1] \in Deterministic
  PROVE  Scanned(b, n + 1)
<1>1. ASSUME NEW r \in b PROVE \E i \in 1..(n + 1) : waiting_queue[i] = r
  <2>1. CASE r \in batch
    <3>1. PICK i \in 1..n : waiting_queue[i] = r
      BY <2>1 DEF Scanned
    <3>2. i \in 1..(n + 1)
      OBVIOUS
    <3> QED BY <3>1, <3>2
  <2>2. CASE r = waiting_queue[n + 1]
    <3>1. n + 1 \in 1..(n + 1)
      OBVIOUS
    <3> QED BY <2>2, <3>1
  <2> QED BY <1>1, <2>1, <2>2
<1>2. ASSUME NEW i \in 1..(n + 1), waiting_queue[i] \notin b
      PROVE  /\ waiting_queue[i] \in Deterministic
             /\ \E k \in 1..(i - 1) : waiting_queue[k] \in b
  <2>1. CASE i \in 1..n
    BY <1>2, <2>1 DEF Scanned
  <2>2. CASE i = n + 1
    <3>1. b = batch /\ batch # {} /\ waiting_queue[n + 1] \in Deterministic
      BY <1>2, <2>2
    <3>2. PICK k \in 1..n : waiting_queue[k] \in batch
      BY <3>1 DEF Scanned
    <3>3. k \in 1..(i - 1)
      BY <2>2
    <3> QED BY <2>2, <3>1, <3>2, <3>3
  <2> QED BY <2>1, <2>2
<1> QED
  BY <1>1, <1>2 DEF Scanned

LEMMA OrderScan ==
  ASSUME OrderInv, ScanQueue
  PROVE  OrderInv'
<1>1. QueueInv /\ Scanned(adder.can_run_list, adder.pos - 1)
  BY DEF OrderInv, ScanQueue
<1>2. QueueInv' /\ waiting_queue' = waiting_queue
  BY <1>1, ScanQueueOK
<1>3. PICK r \in Reqs, added \in BOOLEAN : ScanOutcome(r, added)
  BY <1>1, ScanStep
<1> DEFINE a == After(r, added)
           n == adder.pos - 1
<1>4. n \in Nat /\ n + 1 = adder.pos /\ adder.pos <= Len(waiting_queue)
      /\ Len(waiting_queue) \in Nat
  BY <1>1 DEF QueueInv, QueueLists, Isolated, AdderType, ScanQueue
<1>5. added => a.can_run_list = adder.can_run_list \cup {r}
  <2> SUFFICES ASSUME added PROVE a.can_run_list = adder.can_run_list \cup {r}
    BY ZenonT(30)
  <2>1. WithRequest(adder, r).can_run_list = adder.can_run_list \cup {r}
    BY <1>1, <1>3, WithRequestOK DEF Admits, ScanOutcome
  <2> QED
    BY <2>1 DEF After
<1>6. ~added => a = adder
  BY DEF After
<1>7. added \/ SkipsDeterministic(r) => Scanned(a.can_run_list, n + 1)
  BY <1>1, <1>3, <1>4, <1>5, <1>6, ScannedNext
  DEF SkipsDeterministic, ScanOutcome
<1>8. pc' = "scan" => Scanned(adder'.can_run_list, adder'.pos - 1)
  <2> SUFFICES ASSUME pc' = "scan"
               PROVE  Scanned(adder'.can_run_list, adder'.pos - 1)
    OBVIOUS
  <2>1. /\ adder' = [a EXCEPT !.pos = @ + 1] /\ a \in AdderType /\ a.pos = adder.pos
        /\ added \/ SkipsDeterministic(r)
    BY <1>3 DEF Isolated, ScanOutcome
  <2> HIDE DEF a
  <2>2. adder'.can_run_list = a.can_run_list /\ adder'.pos - 1 = n + 1
    BY <1>4, <2>1 DEF AdderType
  <2> QED
    BY <1>7, <2>1, <2>2
<1>9. pc' = "prefill" =>
        \E m \in 0..Len(waiting_queue) : Scanned(adder'.can_run_list, m)
  <2> SUFFICES ASSUME pc' = "prefill"
               PROVE  \E m \in 0..Len(waiting_queue) : Scanned(adder'.can_run_list, m)
    OBVIOUS
  <2>1. adder' = a
    BY <1>3 DEF ScanOutcome
  <2>2. n \in 0..Len(waiting_queue) /\ n + 1 \in 0..Len(waiting_queue)
    BY <1>4
  <2>3. CASE added
    BY <1>7, <2>1, <2>2, <2>3, ZenonT(30)
  <2>4. CASE ~added
    BY <1>1, <1>6, <2>1, <2>2, <2>4
  <2> QED BY <2>3, <2>4
<1> QED
  BY <1>2, <1>8, <1>9 DEF OrderInv, Scanned

LEMMA OrderStep == OrderInv /\ [Next]_vars => OrderInv'
<1> SUFFICES ASSUME OrderInv, [Next]_vars PROVE OrderInv'
  OBVIOUS
<1>1. QueueInv /\ QueueInv'
  BY QueueStep DEF OrderInv
<1>2. CASE UNCHANGED vars
  BY <1>1, <1>2 DEF vars, OrderInv, Scanned
<1>3. ASSUME NEW r \in Reqs, HandleGenerateRequest(r) PROVE OrderInv'
  BY <1>1, <1>3, HandleGenerateRequestOK DEF OrderInv
<1>4. ASSUME NEW r \in Reqs, AbortRequest(r) PROVE OrderInv'
  BY <1>1, <1>4, AbortRequestOK DEF OrderInv
<1>5. CASE MergeLastBatch
  <2>1. \/ pc' = "decode"
        \/ pc' = "scan" /\ \E offset \in Nat : adder' = NewAdder(offset)
    BY <1>1, <1>5, MergeLastBatchOK, Zenon
  <2>2. pc' = "scan" => adder'.can_run_list = {} /\ adder'.pos - 1 = 0
    BY <2>1 DEF NewAdder
  <2>3. pc' = "scan" => Scanned(adder.can_run_list, adder.pos - 1)'
    BY <2>2 DEF Scanned
  <2> QED
    BY <1>1, <2>1, <2>3 DEF OrderInv
<1>6. CASE ScanQueue
  BY <1>6, OrderScan
<1>7. CASE RunPrefill
  BY <1>1, <1>7, RunPrefillOK DEF OrderInv
<1>8. CASE UpdateRunningBatch
  BY <1>1, <1>8, UpdateRunningBatchOK DEF OrderInv
<1> QED
  BY <1>2, <1>3, <1>4, <1>5, <1>6, <1>7, <1>8 DEF Next, Step

\* First come, first served, but for isolation: whatever the queue holds and
\* however full the pool is, _get_new_batch_prefill_raw passes over nobody but
\* deterministic requests behind the head of the batch, and only for requests
\* that are not deterministic.
THEOREM ServedInOrder == Spec => []OvertakenOnlyForIsolation
<1>1. Init => OrderInv
  BY InitOK DEF OrderInv
<1>2. OrderInv => OvertakenOnlyForIsolation
  <2> DEFINE C == adder.can_run_list
             queue == waiting_queue
  <2> SUFFICES ASSUME OrderInv, pc = "prefill",
                      NEW j \in 1..Len(queue), NEW i \in 1..(j - 1),
                      queue[j] \in C, queue[i] \notin C
               PROVE  /\ queue[i] \in Deterministic /\ queue[j] \notin Deterministic
                      /\ \E k \in 1..(i - 1) : queue[k] \in C
    BY DEF OvertakenOnlyForIsolation
  <2>1. /\ queue \in Seq(Reqs) /\ NoRepeats(queue) /\ Len(queue) \in Nat
        /\ Isolated(adder)
    BY DEF OrderInv, QueueInv, QueueLists
  <2>2. PICK n \in 0..Len(queue) : Scanned(C, n)
    BY DEF OrderInv
  <2>3. PICK m \in 1..n : queue[m] = queue[j]
    BY <2>2 DEF Scanned
  <2>4. m = j
    <3>1. m \in 1..Len(queue)
      BY <2>1, <2>2, <2>3
    <3> QED
      BY <2>3, <3>1, <2>1 DEF NoRepeats
  <2>5. i \in 1..n
    BY <2>1, <2>3, <2>4
  <2>6. PICK k \in 1..(i - 1) : queue[k] \in C
    BY <2>2, <2>5 DEF Scanned
  <2>7. queue[i] \in Deterministic
    BY <2>2, <2>5 DEF Scanned
  <2>8. ASSUME queue[j] \in Deterministic PROVE FALSE
    <3>1. adder.has_deterministic
      BY <2>1, <2>8, Zenon DEF Isolated
    <3>2. queue[k] = queue[j]
      BY <2>1, <2>6, <3>1 DEF Isolated
    <3>3. k \in 1..Len(queue) /\ k # j
      BY <2>1
    <3> QED
      BY <2>1, <3>2, <3>3 DEF NoRepeats
  <2> QED
    BY <2>6, <2>7, <2>8
<1> QED
  BY <1>1, <1>2, OrderStep, PTL DEF Spec

-----------------------------------------------------------------------------
(* The budget                                                              *)

\* What the passes through the model make of the lengths.
LEMMA AdvancedLengths ==
  ASSUME NEW r \in Reqs, NEW q \in RequestType, NEW x \in Advanced(q),
         LengthsOK(r, q), q.status \in {"waiting", "batched"}
  PROVE  LengthsOK(r, x)
  BY DEF Advanced, LengthsOK

LEMMA LengthsStep == LengthsInv /\ [Next]_vars => LengthsInv'
<1> SUFFICES ASSUME LengthsInv, [Next]_vars, NEW r \in Reqs
             PROVE  LengthsOK(r, req'[r])
  BY QueueStep DEF LengthsInv
<1>1. /\ QueueInv /\ QueueInv' /\ LengthsOK(r, req[r]) /\ req \in [Reqs -> RequestType]
      /\ req[r] \in RequestType /\ req[r].out \in Nat
  BY QueueStep, ZenonT(30) DEF LengthsInv, QueueInv, RequestType
<1>2. CASE req' = req
  BY <1>1, <1>2
<1>3. ASSUME NEW n \in Reqs, HandleGenerateRequest(n) PROVE LengthsOK(r, req'[r])
  <2>1. PICK q \in RequestType :
           /\ req' = [req EXCEPT ![n] = q]
           /\ \/ q = [req[n] EXCEPT !.status = "aborted"]
              \/ q = Received(n)
    BY <1>1, <1>3, HandleGenerateRequestOK
  <2>2. CASE r # n
    BY <1>1, <2>1, <2>2
  <2>3. CASE r = n /\ q = [req[n] EXCEPT !.status = "aborted"]
    <3>1. req'[r] = q /\ q.status = "aborted"
      BY <1>1, <2>1, <2>3 DEF RequestType
    <3> QED
      BY <3>1 DEF LengthsOK
  <2>4. CASE r = n /\ q = Received(n)
    <3>1. req'[r] = Received(r)
      BY <1>1, <2>1, <2>4
    <3>2. Received(r).status = "waiting" /\ Received(r).out = 0
      BY DEF Received
    <3> QED
      BY <3>1, <3>2 DEF LengthsOK
  <2> QED
    BY <2>1, <2>2, <2>3, <2>4
<1>4. ASSUME NEW n \in Reqs, AbortRequest(n) PROVE LengthsOK(r, req'[r])
  <2>1. PICK q \in RequestType :
              /\ req' = [req EXCEPT ![n] = q]
              /\ \/ req[n].status = "waiting" /\ q = [req[n] EXCEPT !.status = "aborted"]
                 \/ req[n].status = "batched" /\ q = [req[n] EXCEPT !.to_finish = TRUE]
    BY <1>1, <1>4, AbortRequestOK
  <2>2. CASE r # n
    BY <1>1, <2>1, <2>2
  <2>3. CASE r = n
    <3>1. /\ req'[r] = q
          /\ \/ q.status = "aborted"
             \/ /\ q.status = req[r].status /\ q.out = req[r].out
                /\ q.input_len = req[r].input_len
                /\ q.max_new_tokens = req[r].max_new_tokens
      BY <1>1, <2>1, <2>3 DEF RequestType
    <3> QED
      BY <1>1, <3>1 DEF LengthsOK
  <2> QED
    BY <2>2, <2>3
<1>5. CASE RunPrefill
  <2>1. /\ adder.can_run_list \subseteq Waiting
        /\ \A n \in Reqs \ adder.can_run_list : req'[n] = req[n]
        /\ \A n \in adder.can_run_list : req'[n] \in Advanced(req[n])
    BY <1>1, <1>5, RunPrefillOK, ZenonT(30) DEF QueueInv
  <2>2. CASE r \in adder.can_run_list
    BY <1>1, <2>1, <2>2, AdvancedLengths DEF Waiting
  <2>3. CASE r \notin adder.can_run_list
    BY <1>1, <2>1, <2>3
  <2> QED BY <2>2, <2>3
<1>6. CASE \E s \in Retractions(running \cap Batched) : Decoded(running \cap Batched, s)
  <2> DEFINE live == running \cap Batched
  <2>1. PICK s \in Retractions(live) : Decoded(live, s)
    BY <1>6
  <2>2. /\ \A n \in live \ Range(s) : req'[n] \in Advanced(req[n])
        /\ \A n \in Range(s) : \/ req'[n] = [req[n] EXCEPT !.status = "aborted"]
                               \/ req'[n] = [req[n] EXCEPT !.status = "waiting"]
        /\ \A n \in Reqs \ live : req'[n] = req[n]
    BY <2>1 DEF Decoded
  <2>3. Range(s) \subseteq live /\ \A n \in live : req[n].status = "batched"
    BY <1>1, RetractionsType DEF QueueInv, Batched
  <2> HIDE DEF live
  <2>4. CASE r \in live \ Range(s)
    BY <1>1, <2>2, <2>3, <2>4, AdvancedLengths
  <2>5. CASE r \in Range(s)
    <3>1. /\ req[r].status = "batched"
          /\ \/ req'[r].status = "aborted"
             \/ /\ req'[r].status = "waiting" /\ req'[r].out = req[r].out
                /\ req'[r].input_len = req[r].input_len
                /\ req'[r].max_new_tokens = req[r].max_new_tokens
      <4>1. req[r] \in RequestType
        BY <1>1
      <4>2. \/ req'[r] = [req[r] EXCEPT !.status = "aborted"]
            \/ req'[r] = [req[r] EXCEPT !.status = "waiting"]
        BY <2>2, <2>5
      <4>3. req[r].status = "batched"
        BY <2>3, <2>5
      <4> QED
        BY ONLY <4>1, <4>2, <4>3 DEF RequestType
    <3> QED
      BY <1>1, <3>1 DEF LengthsOK
  <2>6. CASE r \notin live
    BY <1>1, <2>2, <2>6
  <2> QED
    BY <2>4, <2>5, <2>6
<1>7. CASE UpdateRunningBatch
  BY <1>1, <1>2, <1>6, <1>7, UpdateRunningBatchOK, ZenonT(30) DEF RunIdle
<1> QED
  BY <1>1, <1>2, <1>3, <1>4, <1>5, <1>7, MergeLastBatchOK, ScanQueueOK, ZenonT(30)
  DEF Next, Step, vars

LEMMA LengthsInit == Init => LengthsInv
<1> SUFFICES ASSUME Init PROVE \A r \in Reqs : LengthsOK(r, req[r])
  BY InitOK DEF LengthsInv
<1>1. \A r \in Reqs : req[r].status = "new"
  BY DEF Init
<1> QED
  BY <1>1 DEF LengthsOK

\* Every step keeps the budget.
LEMMA BudgetScan ==
  ASSUME PromptsWithinLimit, BudgetInv, ScanQueue, pc' \in {"scan", "prefill"}
  PROVE  Budgeted(adder)'
<1>1. /\ QueueInv /\ Budgeted(adder) /\ \A r \in Reqs : LengthsOK(r, req[r])
  BY DEF BudgetInv, LengthsInv, ScanQueue
<1>2. req' = req /\ available' = available /\ waiting_queue' = waiting_queue /\ pc = "scan"
  BY <1>1, ScanQueueOK
<1>3. PICK r \in Reqs, added \in BOOLEAN : ScanOutcome(r, added)
  BY <1>1, ScanStep
<1> DEFINE a == After(r, added)
<1>4. Budgeted(a)
  <2>1. CASE added
    <3>1. Admits(r)
      BY <1>3, <2>1 DEF ScanOutcome
    <3>2. r \in Waiting
      BY <1>1, <1>2, <1>3, ScannedWaits DEF ScanOutcome
    <3>3. r \notin Deterministic => req[r].max_new_tokens >= 0
      BY <1>1, <3>2, ReceivedType DEF LengthsOK, Waiting, PromptsWithinLimit
    <3> QED
      BY <1>1, <2>1, <3>1, <3>3, AdmittedFits DEF After
  <2>2. CASE ~added
    BY <1>1, <2>2 DEF After
  <2> QED BY <2>1, <2>2
<1>5. a \in AdderType /\ (adder' = a \/ adder' = [a EXCEPT !.pos = @ + 1])
  BY <1>3 DEF ScanOutcome, Isolated
<1> HIDE DEF a
<1>6. /\ adder'.can_run_list = a.can_run_list
      /\ adder'.extend_num_tokens = a.extend_num_tokens
      /\ adder'.rem_total_token_offset = a.rem_total_token_offset
      /\ adder'.has_deterministic = a.has_deterministic
  BY <1>5 DEF AdderType
<1> QED
  BY <1>2, <1>4, <1>6 DEF Budgeted, Batched

LEMMA BudgetStep ==
  ASSUME PromptsWithinLimit, BudgetInv, [Next]_vars
  PROVE  BudgetInv'
<1>1. LengthsInv /\ LengthsInv' /\ QueueInv
  BY LengthsStep DEF BudgetInv, LengthsInv
<1>2. CASE UNCHANGED vars
  BY <1>1, <1>2 DEF vars, BudgetInv, Budgeted, Batched
<1>3. ASSUME NEW r \in Reqs, HandleGenerateRequest(r) PROVE BudgetInv'
  BY <1>1, <1>3, HandleGenerateRequestOK DEF BudgetInv
<1>4. ASSUME NEW r \in Reqs, AbortRequest(r) PROVE BudgetInv'
  BY <1>1, <1>4, AbortRequestOK DEF BudgetInv
<1>5. CASE MergeLastBatch
  <2>1. /\ available' = available
        /\ \/ pc' = "decode"
           \/ pc' = "scan" /\ \E offset \in Nat : adder' = NewAdder(offset)
    BY <1>1, <1>5, MergeLastBatchOK, Zenon
  <2>2. ASSUME NEW offset \in Nat, adder' = NewAdder(offset)
        PROVE  Budgeted(adder)'
    <3>1. /\ adder'.can_run_list = {} /\ adder'.extend_num_tokens = 0
          /\ adder'.rem_total_token_offset = offset
      BY <2>2 DEF NewAdder
    <3>2. available' \in Nat
      BY <1>1, <2>1, ConstantTypes DEF QueueInv
    <3> QED
      BY <3>1, <3>2 DEF Budgeted
  <2> QED
    BY <1>1, <2>1, <2>2 DEF BudgetInv
<1>6. CASE ScanQueue
  BY <1>1, <1>6, BudgetScan DEF BudgetInv
<1>7. CASE RunPrefill
  BY <1>1, <1>7, RunPrefillOK DEF BudgetInv
<1>8. CASE UpdateRunningBatch
  BY <1>1, <1>8, UpdateRunningBatchOK DEF BudgetInv
<1> QED
  BY <1>2, <1>3, <1>4, <1>5, <1>6, <1>7, <1>8 DEF Next, Step

\* The budget of PrefillAdder covers what prepare_for_extend allocates, slots and
\* rows, for every queue, pool and limit, as long as no prompt that may share a
\* prefill is so long that its max_new_tokens turns negative.
THEOREM PrefillNeverOutOfMemory ==
  ASSUME PromptsWithinLimit
  PROVE  Spec => []PrefillFits
<1>1. Init => BudgetInv
  BY InitOK, LengthsInit DEF BudgetInv
<1>2. BudgetInv /\ [Next]_vars => BudgetInv'
  BY BudgetStep
<1>3. BudgetInv => PrefillFits
  BY DEF BudgetInv, LengthsInv, QueueInv, Budgeted, PrefillFits, BatchFits
<1> QED
  BY <1>1, <1>2, <1>3, PTL DEF Spec

-----------------------------------------------------------------------------
(* The pool                                                                *)

\* Requests that hold the same number of slots have the same entries.
LEMMA EntriesSame ==
  ASSUME NEW f, NEW g, NEW S, \A r \in S : HeldSlots(f[r]) = HeldSlots(g[r])
  PROVE  Entries(f, S) = Entries(g, S)
  BY DEF Entries

\* The entries of one request, and that those of several are finitely many.
LEMMA EntriesFinite ==
  ASSUME NEW S \in SUBSET Reqs, \A r \in S : HeldSlots(req[r]) \in Int
  PROVE  IsFiniteSet(Entries(req, S)) /\ Cardinality(Entries(req, S)) \in Nat
<1> DEFINE E(r) == {r} \X (1..HeldSlots(req[r]))
           I == {E(r) : r \in S}
<1>1. \A r \in S : IsFiniteSet(E(r))
  <2> TAKE r \in S
  <2>1. IsFiniteSet(1..HeldSlots(req[r]))
    BY FS_Interval
  <2>2. IsFiniteSet({r})
    BY FS_Singleton
  <2> QED
    BY <2>1, <2>2, FS_Product
<1>2. IsFiniteSet(S)
  BY PrefillQueueAssumption, FS_Subset
<1>3. IsFiniteSet(I)
  <2> HIDE DEF E
  <2>1. [r \in S |-> E(r)] \in Surjection(S, I)
    BY DEF Surjection
  <2> QED
    BY <1>2, <2>1, FS_Surjection DEF ExistsSurjection
<1>4. IsFiniteSet(UNION I)
  BY <1>1, <1>3, FS_UNION, Zenon
<1>5. UNION I = Entries(req, S)
  BY DEF Entries
<1> QED
  BY <1>4, <1>5, FS_CardinalityType, Zenon

LEMMA EntriesOfOne ==
  ASSUME NEW r, HeldSlots(req[r]) \in Nat
  PROVE  Cardinality(Entries(req, {r})) = HeldSlots(req[r])
<1> DEFINE h == HeldSlots(req[r])
<1>1. Entries(req, {r}) = {r} \X (1..h)
  BY DEF Entries
<1>2. IsFiniteSet(1..h) /\ Cardinality(1..h) = h
  BY FS_Interval
<1>3. IsFiniteSet({r}) /\ Cardinality({r}) = 1
  BY FS_Singleton, ZenonT(30)
<1>4. Cardinality({r} \X (1..h)) = 1 * h
  BY <1>2, <1>3, FS_Product
<1> QED
  BY <1>1, <1>4

\* Two sets of requests that hold all slots between them.
LEMMA EntriesSplit ==
  ASSUME NEW S \in SUBSET Reqs, NEW T \in SUBSET Reqs, S \cap T = {},
         Batched \subseteq S \cup T, \A r \in Reqs : HeldSlots(req[r]) \in Int
  PROVE  Cardinality(Entries(req, Reqs)) =
           Cardinality(Entries(req, S)) + Cardinality(Entries(req, T))
<1>1. Entries(req, Reqs) = Entries(req, S) \cup Entries(req, T)
  <2>1. ASSUME NEW r \in Reqs, r \notin S \cup T PROVE 1..HeldSlots(req[r]) = {}
    <3>1. HeldSlots(req[r]) = 0
      BY <2>1 DEF HeldSlots, Batched
    <3> QED BY <3>1
  <2>2. \A r \in Reqs \ (S \cup T) : {r} \X (1..HeldSlots(req[r])) = {}
    BY <2>1
  <2> QED
    BY <2>2 DEF Entries
<1>2. Entries(req, S) \cap Entries(req, T) = {}
  BY DEF Entries
<1>3. /\ IsFiniteSet(Entries(req, S)) /\ IsFiniteSet(Entries(req, T))
      /\ Cardinality(Entries(req, S)) \in Nat /\ Cardinality(Entries(req, T)) \in Nat
  BY EntriesFinite
<1>4. Cardinality({}) = 0
  BY FS_EmptySet
<1>5. Cardinality(Entries(req, S) \cup Entries(req, T)) =
        Cardinality(Entries(req, S)) + Cardinality(Entries(req, T)) - 0
  BY ONLY <1>2, <1>3, <1>4, FS_Union, Zenon
<1> QED
  BY <1>1, <1>3, <1>5

\* available_size() is what the batched requests leave, and those are in the
\* running batch or in the prefill batch that is going to be merged into it.
PoolInv ==
  /\ LengthsInv
  /\ available = Capacity - Cardinality(Entries(req, Reqs))
  /\ pc = "top" => Batched \subseteq running \cup last_batch
  /\ pc # "top" => last_batch = {} /\ Batched \subseteq running

LEMMA HeldSlotsType ==
  ASSUME LengthsInv, NEW r \in Reqs
  PROVE  /\ HeldSlots(req[r]) \in Nat
         /\ r \notin Batched => HeldSlots(req[r]) = 0
         /\ r \in Batched => HeldSlots(req[r]) = req[r].input_len + req[r].out - 1
<1>1. req[r] \in RequestType /\ LengthsOK(r, req[r])
  BY DEF LengthsInv, QueueInv
<1>2. /\ req[r].out \in Nat /\ req[r].input_len \in Nat
      /\ req[r].status = "batched" => req[r].out >= 1
  BY <1>1 DEF RequestType, LengthsOK
<1> QED
  BY <1>2 DEF HeldSlots, Batched

\* Arrivals and aborts change nobody's slots.
LEMMA PoolOutside ==
  ASSUME PoolInv, NEW r \in Reqs, HandleGenerateRequest(r) \/ AbortRequest(r)
  PROVE  PoolInv'
<1>1. LengthsInv /\ LengthsInv' /\ QueueInv
  <2>1. [Next]_vars
    BY DEF Next
  <2> QED
    BY <2>1, LengthsStep DEF PoolInv, LengthsInv
<1>2. /\ running' = running /\ last_batch' = last_batch /\ available' = available
      /\ pc' = pc /\ pc = "top"
  BY DEF HandleGenerateRequest, AbortRequest
<1>3. PICK q : /\ req' = [req EXCEPT ![r] = q]
               /\ \/ req[r].status # "batched" /\ q.status # "batched"
                  \/ q = [req[r] EXCEPT !.to_finish = TRUE]
  <2>1. CASE HandleGenerateRequest(r)
    <3>1. /\ req[r].status = "new"
          /\ \E q \in RequestType :
               /\ req' = [req EXCEPT ![r] = q]
               /\ q = [req[r] EXCEPT !.status = "aborted"] \/ q = Received(r)
      BY <1>1, <2>1, HandleGenerateRequestOK
    <3>2. /\ [req[r] EXCEPT !.status = "aborted"].status # "batched"
          /\ Received(r).status # "batched"
      BY <1>1 DEF Received, QueueInv, RequestType
    <3> QED
      BY <3>1, <3>2, Zenon
  <2>2. CASE AbortRequest(r)
    <3>1. \E q \in RequestType :
              /\ req' = [req EXCEPT ![r] = q]
              /\ \/ req[r].status = "waiting" /\ q = [req[r] EXCEPT !.status = "aborted"]
                 \/ req[r].status = "batched" /\ q = [req[r] EXCEPT !.to_finish = TRUE]
      BY <1>1, <2>2, AbortRequestOK
    <3>2. [req[r] EXCEPT !.status = "aborted"].status # "batched"
      BY <1>1 DEF QueueInv, RequestType
    <3> QED
      BY <3>1, <3>2, Zenon
  <2> QED BY <2>1, <2>2
<1>4. \A n \in Reqs : /\ HeldSlots(req'[n]) = HeldSlots(req[n])
                      /\ req'[n].status = "batched" <=> req[n].status = "batched"
  <2> SUFFICES ASSUME NEW n \in Reqs
               PROVE  /\ HeldSlots(req'[n]) = HeldSlots(req[n])
                      /\ req'[n].status = "batched" <=> req[n].status = "batched"
    OBVIOUS
  <2>1. req \in [Reqs -> RequestType] /\ req[r] \in RequestType
    BY <1>1 DEF QueueInv
  <2>2. CASE n # r
    BY <1>3, <2>1, <2>2
  <2>3. CASE n = r /\ req[r].status # "batched" /\ q.status # "batched"
    BY <1>3, <2>1, <2>3 DEF HeldSlots
  <2>4. CASE n = r /\ q = [req[r] EXCEPT !.to_finish = TRUE]
    <3>1. /\ req'[n] = q /\ q.status = req[r].status
          /\ q.input_len = req[r].input_len /\ q.out = req[r].out
      BY <1>3, <2>1, <2>4 DEF RequestType
    <3> QED
      BY <2>4, <3>1 DEF HeldSlots
  <2> QED
    BY <1>3, <2>2, <2>3, <2>4
<1>5. Entries(req', Reqs) = Entries(req, Reqs)
  BY <1>4, EntriesSame
<1>6. Batched' = Batched
  BY <1>4 DEF Batched
<1> QED
  BY <1>1, <1>2, <1>5, <1>6 DEF PoolInv

LEMMA PoolStep == PoolInv /\ [Next]_vars => PoolInv'
<1> SUFFICES ASSUME PoolInv, [Next]_vars PROVE PoolInv'
  OBVIOUS
<1>1. LengthsInv /\ LengthsInv' /\ QueueInv
  BY LengthsStep DEF PoolInv, LengthsInv
<1>2. CASE UNCHANGED vars
  BY <1>1, <1>2 DEF vars, PoolInv, Batched
<1>3. ASSUME NEW r \in Reqs, HandleGenerateRequest(r) \/ AbortRequest(r) PROVE PoolInv'
  BY <1>3, PoolOutside
<1>4. CASE MergeLastBatch
  <2>1. /\ req' = req /\ available' = available /\ last_batch' = {} /\ pc = "top"
        /\ running' = running \cup (last_batch \cap Batched) /\ pc' # "top"
    BY <1>1, <1>4, MergeLastBatchOK
  <2> QED
    BY <1>1, <2>1 DEF PoolInv, Batched
<1>5. CASE ScanQueue
  <2>1. /\ req' = req /\ available' = available /\ last_batch' = last_batch
        /\ running' = running /\ pc' # "top" /\ pc = "scan"
    BY <1>1, <1>5, ScanQueueOK
  <2> QED
    BY <1>1, <2>1 DEF PoolInv, Batched
<1>6. CASE RunPrefill
  <2>1. /\ pc = "prefill" /\ pc' = "top" /\ running' = running
        /\ last_batch' = adder.can_run_list
        /\ available' = Capacity - Cardinality(Entries(req', Reqs))
        /\ \A r \in Reqs \ adder.can_run_list : req'[r] = req[r]
    BY <1>1, <1>6, RunPrefillOK
  <2>2. Batched' \subseteq running \cup adder.can_run_list
    BY <2>1 DEF PoolInv, Batched
  <2> QED
    BY <1>1, <2>1, <2>2 DEF PoolInv
<1>7. CASE UpdateRunningBatch
  <2>1. /\ pc = "decode" /\ pc' = "top" /\ last_batch' = last_batch
        /\ Batched \subseteq running
    BY <1>1, <1>7, UpdateRunningBatchOK DEF PoolInv
  <2>2. CASE running \cap Batched = {} /\ RunIdle
    <3>1. req' = req /\ available' = available /\ running' = {} /\ Batched = {}
      BY <2>1, <2>2 DEF RunIdle
    <3> QED
      BY <1>1, <2>1, <3>1 DEF PoolInv, Batched
  <2>3. CASE \E s \in Retractions(running \cap Batched) : Decoded(running \cap Batched, s)
    <3> DEFINE live == running \cap Batched
    <3>1. PICK s \in Retractions(live) : Decoded(live, s)
      BY <2>3
    <3>2. /\ running' = live \ Range(s)
          /\ available' = Capacity - Cardinality(Entries(req', Reqs))
          /\ \A r \in Range(s) : \/ req'[r] = [req[r] EXCEPT !.status = "aborted"]
                                 \/ req'[r] = [req[r] EXCEPT !.status = "waiting"]
          /\ \A r \in Reqs \ live : req'[r] = req[r]
      BY <3>1 DEF Decoded
    <3>3. \A r \in Range(s) : r \in Reqs /\ req'[r].status # "batched"
      <4>1. Range(s) \subseteq Reqs
        BY <1>1, RetractionsType DEF QueueInv
      <4>2. \A r \in Reqs : req[r] \in RequestType
        BY <1>1 DEF QueueInv
      <4>3. \A q \in RequestType : /\ [q EXCEPT !.status = "aborted"].status # "batched"
                                   /\ [q EXCEPT !.status = "waiting"].status # "batched"
        BY DEF RequestType
      <4> QED
        BY ONLY <3>2, <4>1, <4>2, <4>3, ZenonT(30)
    <3>4. \A r \in Reqs \ live : req'[r].status # "batched"
      BY <2>1, <3>2 DEF Batched
    <3>5. Batched' \subseteq running'
      BY <3>2, <3>3, <3>4 DEF Batched
    <3> QED
      BY <1>1, <2>1, <3>2, <3>5 DEF PoolInv
  <2> QED
    BY <1>1, <1>7, <2>2, <2>3, UpdateRunningBatchOK, ZenonT(30)
<1> QED
  BY <1>2, <1>3, <1>4, <1>5, <1>6, <1>7 DEF Next, Step

LEMMA PoolInit == Init => PoolInv
<1> SUFFICES ASSUME Init PROVE PoolInv
  OBVIOUS
<1>1. LengthsInv /\ pc = "top" /\ available = Capacity /\ Batched = {}
  BY LengthsInit, InitOK DEF Init, Batched
<1>2. \A r \in Reqs : HeldSlots(req[r]) \in Int
  BY <1>1, HeldSlotsType
<1>3. Cardinality(Entries(req, {})) = 0
  <2>1. Entries(req, {}) = {}
    BY DEF Entries
  <2> QED
    BY <2>1, FS_EmptySet
<1>4. Cardinality(Entries(req, Reqs)) = 0 + 0
  BY <1>1, <1>2, <1>3, EntriesSplit
<1> QED
  BY <1>1, <1>4, ConstantTypes DEF PoolInv

-----------------------------------------------------------------------------
(* A full batch shrinks                                                    *)

\* Every request, with all its output, is smaller than the pool.
RequestsFit ==
  \A r \in Reqs :
    Received(r).input_len + Most(Received(r).max_new_tokens, 0) < Capacity

\* batch_is_full is set only while requests run.  A scan that has let in nothing
\* and has no running requests sets nothing aside for them.
FullInv ==
  /\ PoolInv
  /\ pc = "top" /\ batch_is_full => running # {} \/ last_batch # {}
  /\ pc = "scan" => ~batch_is_full
  /\ pc = "decode" /\ batch_is_full => running # {}
  /\ pc = "scan" /\ adder.can_run_list = {} /\ running = {} =>
       adder.rem_total_token_offset = 0

\* What add_one_req asks for a request is at most what the request may use.
LEMMA TotalTokensBound ==
  ASSUME LengthsInv, NEW r \in Waiting
  PROVE  /\ TotalTokens(req[r]) \in Int
         /\ TotalTokens(req[r]) <=
              Received(r).input_len + Most(Received(r).max_new_tokens, 0)
<1> DEFINE q == req[r]
<1>1. r \in Reqs /\ q \in RequestType /\ LengthsOK(r, q) /\ q.status = "waiting"
  BY DEF LengthsInv, QueueInv, Waiting
<1>2. /\ q.out \in Nat /\ q.input_len \in Nat /\ q.max_new_tokens \in Int
      /\ Received(r).input_len = q.input_len
      /\ Received(r).max_new_tokens = q.max_new_tokens
      /\ q.out = 0 \/ q.out < q.max_new_tokens
  BY <1>1 DEF RequestType, LengthsOK
<1>3. ClipMaxNew \in Nat
  BY PrefillQueueAssumption
<1> HIDE DEF q
<1>4. /\ RemainingNew(q) \in Nat /\ Most(q.max_new_tokens, 0) \in Int
      /\ q.out + RemainingNew(q) <= Most(q.max_new_tokens, 0)
  BY <1>2, <1>3 DEF RemainingNew, Least, Most
<1>5. /\ TotalTokens(q) \in Int
      /\ TotalTokens(q) <= q.input_len + Most(q.max_new_tokens, 0)
  BY <1>2, <1>4 DEF TotalTokens, ExtendInputLen
<1> QED
  BY <1>2, <1>5 DEF q

\* The head of the queue is not turned away by an empty scheduler.
LEMMA EmptyNotCrowded ==
  ASSUME RequestsFit, FullInv, pc = "scan", adder.can_run_list = {}, running = {},
         NEW r \in Waiting
  PROVE  ~Crowded(r)
<1>1. /\ LengthsInv /\ adder.rem_total_token_offset = 0 /\ Batched = {}
      /\ available = Capacity - Cardinality(Entries(req, Reqs))
  BY DEF FullInv, PoolInv
<1>2. Cardinality({}) = 0
  BY FS_EmptySet
<1>3. Cardinality(adder.can_run_list) < NumAllocatable
  <2>1. MaxRunning - 0 > 0 /\ ReqRows - 0 > 0
    BY PrefillQueueAssumption
  <2>2. NumAllocatable = Least(MaxRunning - 0, ReqRows - 0)
    BY <1>1, <1>2 DEF NumAllocatable
  <2>3. 0 < NumAllocatable
    BY <2>1, <2>2 DEF Least
  <2> QED
    BY <1>2, <2>3
<1>4. available = Capacity
  <2>1. Entries(req, {}) = {}
    BY DEF Entries
  <2>2. \A n \in Reqs : HeldSlots(req[n]) \in Int
    BY <1>1, HeldSlotsType
  <2>3. Cardinality(Entries(req, Reqs)) = 0 + 0
    BY <1>1, <1>2, <2>1, <2>2, EntriesSplit, ZenonT(30)
  <2> QED
    BY <1>1, <2>3, ConstantTypes
<1>5. TotalTokens(req[r]) \in Int /\ TotalTokens(req[r]) < Capacity
  <2>1. r \in Reqs
    BY DEF Waiting
  <2>2. Received(r) \in RequestType
    BY <2>1, ReceivedType
  <2>3. /\ Received(r).input_len \in Nat /\ Most(Received(r).max_new_tokens, 0) \in Int
        /\ Received(r).input_len + Most(Received(r).max_new_tokens, 0) < Capacity
    BY <2>1, <2>2, ConstantTypes DEF RequestType, RequestsFit
  <2>4. /\ TotalTokens(req[r]) \in Int
        /\ TotalTokens(req[r]) <=
             Received(r).input_len + Most(Received(r).max_new_tokens, 0)
    BY <1>1, TotalTokensBound
  <2>5. Capacity \in Nat
    BY ConstantTypes
  <2> QED
    BY <2>3, <2>4, <2>5
<1>6. ~NoTokens(adder, req[r])
  BY <1>1, <1>4, <1>5, ConstantTypes DEF NoTokens, RemTotalTokens
<1>7. NumAllocatable \in Int /\ Cardinality(adder.can_run_list) = 0
  <2>1. MaxRunning - 0 \in Int /\ ReqRows - 0 \in Int
    BY PrefillQueueAssumption
  <2>2. NumAllocatable = Least(MaxRunning - 0, ReqRows - 0)
    BY <1>1, <1>2 DEF NumAllocatable
  <2> QED
    BY <1>2, <2>1, <2>2, ConstantTypes
<1> QED
  BY <1>3, <1>6, <1>7 DEF Crowded

LEMMA FullScan ==
  ASSUME RequestsFit, FullInv, ScanQueue
  PROVE  FullInv'
<1>1. QueueInv /\ pc = "scan" /\ ~batch_is_full /\ PoolInv
  BY DEF FullInv, PoolInv, LengthsInv, ScanQueue
<1>2. PoolInv'
  BY <1>1, PoolStep DEF Next, Step
<1>3. running' = running /\ waiting_queue' = waiting_queue
  BY <1>1, ScanQueueOK
<1>4. PICK r \in Reqs, added \in BOOLEAN : ScanOutcome(r, added)
  BY <1>1, ScanStep
<1>5. r \in Waiting
  BY <1>1, <1>4, ScannedWaits DEF ScanOutcome
<1> DEFINE a == After(r, added)
<1>6. CASE pc' = "scan"
  <2>1. /\ adder' = [a EXCEPT !.pos = @ + 1] /\ a \in AdderType
        /\ batch_is_full' = batch_is_full
        /\ added => Admits(r)
        /\ ~added => SkipsDeterministic(r)
    BY <1>4, <1>6 DEF ScanOutcome, Isolated
  <2>2. a.can_run_list # {}
    <3>1. CASE added
      <4>1. WithRequest(adder, r).can_run_list = adder.can_run_list \cup {r}
        BY <1>1, <2>1, <3>1, WithRequestOK DEF Admits
      <4> QED
        BY <3>1, <4>1 DEF After
    <3>2. CASE ~added
      BY <2>1, <3>2 DEF SkipsDeterministic, After
    <3> QED BY <3>1, <3>2
  <2> HIDE DEF a
  <2>3. adder'.can_run_list # {}
    BY <2>1, <2>2 DEF AdderType
  <2> QED
    BY <1>1, <1>2, <1>6, <2>1, <2>3 DEF FullInv
<1>7. CASE pc' = "prefill"
  BY <1>2, <1>7 DEF FullInv
<1>8. CASE pc' = "decode"
  <2>1. adder.can_run_list = {} /\ (batch_is_full' => Crowded(r))
    BY <1>1, <1>4, <1>8 DEF ScanOutcome
  <2>2. batch_is_full' => running # {}
    BY <1>1, <1>5, <2>1, EmptyNotCrowded
  <2> QED
    BY <1>2, <1>3, <1>8, <2>2 DEF FullInv
<1> QED
  BY <1>4, <1>6, <1>7, <1>8 DEF ScanOutcome

LEMMA FullMerge ==
  ASSUME FullInv, MergeLastBatch
  PROVE  FullInv'
<1>1. QueueInv /\ PoolInv
  BY DEF FullInv, PoolInv, LengthsInv
<1>2. PoolInv'
  BY <1>1, PoolStep DEF Next, Step
<1>3. /\ req' = req /\ pc = "top"
      /\ running' = running \cup (last_batch \cap Batched)
      /\ batch_is_full' => /\ batch_is_full /\ last_batch \cap Batched = last_batch
                           /\ last_batch \cap Batched # {} => running # {}
      /\ \/ pc' = "decode"
         \/ /\ pc' = "scan" /\ ~batch_is_full'
            /\ \E offset \in RunningOffsets(running') :
                 offset \in Nat /\ adder' = NewAdder(offset)
  BY <1>1, MergeLastBatchOK, Zenon
<1>4. CASE pc' = "decode"
  <2>1. batch_is_full' => running # {}
    BY <1>3 DEF FullInv
  <2> QED
    BY <1>2, <1>3, <1>4, <2>1 DEF FullInv
<1>5. CASE pc' = "scan"
  <2>1. PICK offset \in RunningOffsets(running') :
               offset \in Nat /\ adder' = NewAdder(offset)
    BY <1>3, <1>5
  <2>2. adder'.rem_total_token_offset = offset
    BY <2>1 DEF NewAdder
  <2>3. running' = {} => offset = 0
    <3> SUFFICES ASSUME running' = {} PROVE offset = 0
      OBVIOUS
    <3>1. RemainingTotal({}) = 0
      <4>1. UNION {{r} \X (1..RemainingNew(req[r])) : r \in {}} = {}
        OBVIOUS
      <4> QED
        BY <4>1, FS_EmptySet DEF RemainingTotal
    <3>2. offset \in RunningOffsets({})
      BY <2>1
    <3> QED
      BY <2>1, <3>1, <3>2 DEF RunningOffsets
  <2> QED
    BY <1>2, <1>3, <1>5, <2>2, <2>3 DEF FullInv
<1> QED
  BY <1>3, <1>4, <1>5

LEMMA FullStep ==
  ASSUME RequestsFit, FullInv, [Next]_vars
  PROVE  FullInv'
<1>1. QueueInv /\ PoolInv /\ PoolInv'
  BY PoolStep DEF FullInv, PoolInv, LengthsInv
<1>2. CASE UNCHANGED vars
  BY <1>1, <1>2 DEF vars, FullInv
<1>3. ASSUME NEW r \in Reqs, HandleGenerateRequest(r) \/ AbortRequest(r)
      PROVE  FullInv'
  BY <1>1, <1>3 DEF FullInv, HandleGenerateRequest, AbortRequest
<1>4. CASE MergeLastBatch
  BY <1>4, FullMerge
<1>5. CASE ScanQueue
  BY <1>5, FullScan
<1>6. CASE RunPrefill
  <2>1. pc' = "top" /\ last_batch' # {}
    BY <1>1, <1>6, RunPrefillOK DEF QueueInv
  <2> QED
    BY <1>1, <2>1 DEF FullInv
<1>7. CASE UpdateRunningBatch
  <2>1. /\ pc = "decode" /\ pc' = "top"
        /\ \/ running \cap Batched = {} /\ RunIdle
           \/ \E s \in Retractions(running \cap Batched) : Decoded(running \cap Batched, s)
    BY <1>1, <1>7, UpdateRunningBatchOK, Zenon
  <2>2. batch_is_full' => running' # {}
    BY <2>1, ZenonT(30) DEF FullInv, RunIdle, Decoded
  <2> QED
    BY <1>1, <2>1, <2>2, ZenonT(30) DEF FullInv
<1> QED
  BY <1>2, <1>3, <1>4, <1>5, <1>6, <1>7 DEF Next, Step

\* batch_is_full never outlives the batch it was set for: whenever
\* get_next_batch_to_run finds it set there is a batch whose shrinking resets it,
\* provided every request fits in the pool by itself.  (Without that, the head
\* of the queue sets it in an empty scheduler, for good.)
THEOREM NeverStuckFull ==
  ASSUME RequestsFit
  PROVE  Spec => []FullBatchShrinks
<1>1. Init => FullInv
  BY PoolInit DEF Init, FullInv
<1>2. FullInv /\ [Next]_vars => FullInv'
  BY FullStep
<1>3. FullInv => FullBatchShrinks
  BY DEF FullInv, FullBatchShrinks
<1> QED
  BY <1>1, <1>2, <1>3, PTL DEF Spec

-----------------------------------------------------------------------------
(* The last request decodes                                                *)

\* A request whose output is longer than what admission counts of it (at most
\* CLIP_MAX_NEW_TOKENS) fits in the pool, its last token aside.
OutputsFit ==
  \A r \in Reqs :
    \/ Received(r).max_new_tokens <= ClipMaxNew
    \/ Received(r).input_len + Received(r).max_new_tokens <= Capacity + 1

\* What was admitted fits in the pool by itself.
AdmitInv ==
  /\ PoolInv
  /\ pc = "scan" /\ ~adder.has_deterministic => adder.rem_total_token_offset >= 0
  /\ pc \in {"scan", "prefill"} =>
       \A r \in adder.can_run_list : TotalTokens(req[r]) < Capacity
  /\ \A r \in Batched : req[r].input_len + req[r].max_new_tokens <= Capacity + 1

LEMMA AdmitScan ==
  ASSUME PromptsWithinLimit, AdmitInv, ScanQueue
  PROVE  AdmitInv'
<1>1. QueueInv /\ LengthsInv /\ PoolInv
  BY DEF AdmitInv, PoolInv, LengthsInv
<1>2. PoolInv'
  BY <1>1, PoolStep DEF Next, Step
<1>3. req' = req /\ pc = "scan" /\ pc' \in {"scan", "prefill", "decode"}
  BY <1>1, ScanQueueOK
<1>4. PICK r \in Reqs, added \in BOOLEAN : ScanOutcome(r, added)
  BY <1>1, ScanStep
<1> DEFINE a == After(r, added)
<1>5. r \in Waiting
  BY <1>1, <1>3, <1>4, ScannedWaits DEF ScanOutcome
<1>6. /\ \A n \in a.can_run_list : TotalTokens(req[n]) < Capacity
      /\ ~a.has_deterministic => a.rem_total_token_offset >= 0
  <2>1. CASE added
    <3>1. Admits(r)
      BY <1>4, <2>1 DEF ScanOutcome
    <3> DEFINE b == WithRequest(adder, r)
               n == ExtendInputLen(req[r])
               m == Least(req[r].max_new_tokens, ClipMaxNew)
               o == adder.rem_total_token_offset
    <3>2. /\ b.can_run_list = adder.can_run_list \cup {r} /\ n \in Nat
          /\ b.rem_total_token_offset = o + n + m
          /\ b.has_deterministic = (r \in Deterministic)
      BY <1>1, <3>1, WithRequestOK, ZenonT(30) DEF Admits
    <3>3. o \in Int /\ o >= 0
      BY <1>1, <1>3, <3>1 DEF AdmitInv, Admits, QueueInv, Isolated, AdderType
    <3>4. TotalTokens(req[r]) < Capacity
      <4>1. TotalTokens(req[r]) \in Int
        BY <1>1, <1>5, TotalTokensBound
      <4>2. available \in 0..Capacity /\ Capacity \in Nat
        BY <1>1, ConstantTypes DEF QueueInv
      <4>3. ~(TotalTokens(req[r]) >= available - o)
        BY <3>1 DEF Admits, NoTokens, RemTotalTokens
      <4> HIDE DEF o
      <4> QED
        BY <3>3, <4>1, <4>2, <4>3
    <3>5. r \notin Deterministic => m >= 0 /\ m \in Int
      <4> SUFFICES ASSUME r \notin Deterministic PROVE m >= 0 /\ m \in Int
        OBVIOUS
      <4>1. req[r].max_new_tokens >= 0
        BY <1>1, <1>5, ReceivedType
        DEF LengthsInv, LengthsOK, Waiting, PromptsWithinLimit
      <4>2. req[r].max_new_tokens \in Int
        BY <1>1 DEF QueueInv, RequestType
      <4> QED
        BY <4>1, <4>2, PrefillQueueAssumption DEF Least
    <3> HIDE DEF b, n, m, o
    <3>6. ~b.has_deterministic => b.rem_total_token_offset >= 0
      <4>1. ~b.has_deterministic => r \notin Deterministic
        BY <3>2, Zenon
      <4>2. r \notin Deterministic => o + n + m >= 0
        BY <3>2, <3>3, <3>5
      <4> QED
        BY <3>2, <4>1, <4>2
    <3>7. \A x \in b.can_run_list : TotalTokens(req[x]) < Capacity
      BY <1>3, <3>2, <3>4 DEF AdmitInv
    <3> QED
      BY <2>1, <3>6, <3>7 DEF After, b
  <2>2. CASE ~added
    BY <1>3, <2>2 DEF After, AdmitInv
  <2> QED BY <2>1, <2>2
<1>7. pc' \in {"scan", "prefill"} =>
        a \in AdderType /\ (adder' = a \/ adder' = [a EXCEPT !.pos = @ + 1])
  BY <1>4 DEF ScanOutcome, Isolated
<1> HIDE DEF a
<1>8. pc' \in {"scan", "prefill"} =>
        /\ adder'.can_run_list = a.can_run_list
        /\ adder'.rem_total_token_offset = a.rem_total_token_offset
        /\ adder'.has_deterministic = a.has_deterministic
  BY <1>7 DEF AdderType
<1> QED
  BY <1>2, <1>3, <1>6, <1>8 DEF AdmitInv, Batched

\* What a prefill adds to the running requests fits in the pool by itself.
LEMMA AdmittedAloneFits ==
  ASSUME OutputsFit, LengthsInv, NEW r \in Waiting, TotalTokens(req[r]) < Capacity,
         NEW x \in Advanced(req[r]), x.status = "batched", x.out = req[r].out + 1
  PROVE  x.input_len + x.max_new_tokens <= Capacity + 1
<1> DEFINE q == req[r]
<1>1. r \in Reqs /\ q \in RequestType /\ LengthsOK(r, q) /\ q.status = "waiting"
  BY DEF LengthsInv, QueueInv, Waiting
<1>2. /\ q.out \in Nat /\ q.input_len \in Nat /\ q.max_new_tokens \in Int
      /\ Received(r).input_len = q.input_len
      /\ Received(r).max_new_tokens = q.max_new_tokens
  BY <1>1 DEF RequestType, LengthsOK
<1>3. /\ x.input_len = q.input_len /\ x.max_new_tokens = q.max_new_tokens
      /\ q.out + 1 < q.max_new_tokens
  BY DEF Advanced
<1>4. ClipMaxNew \in Nat /\ Capacity \in Nat
  BY PrefillQueueAssumption, ConstantTypes
<1>5. \/ q.max_new_tokens <= ClipMaxNew
      \/ q.input_len + q.max_new_tokens <= Capacity + 1
  BY <1>1, <1>2 DEF OutputsFit
<1>6. TotalTokens(q) < Capacity
  OBVIOUS
<1> HIDE DEF q
<1>7. CASE q.max_new_tokens <= ClipMaxNew
  <2>1. RemainingNew(q) = q.max_new_tokens - q.out
    BY <1>2, <1>3, <1>4, <1>7 DEF RemainingNew, Least, Most
  <2>2. TotalTokens(q) = q.input_len + q.max_new_tokens
    BY <1>2, <2>1 DEF TotalTokens, ExtendInputLen
  <2> QED
    BY <1>2, <1>3, <1>4, <1>6, <2>2
<1> QED
  BY <1>3, <1>5, <1>7

LEMMA AdmitStep ==
  ASSUME PromptsWithinLimit, OutputsFit, AdmitInv, [Next]_vars
  PROVE  AdmitInv'
<1>1. QueueInv /\ LengthsInv /\ PoolInv /\ PoolInv' /\ req \in [Reqs -> RequestType]
  BY PoolStep, ZenonT(30) DEF AdmitInv, PoolInv, LengthsInv, QueueInv
<1> DEFINE Fits(q) == q.input_len + q.max_new_tokens <= Capacity + 1
<1>2. ASSUME pc' \notin {"scan", "prefill"},
             \A r \in Batched' :
               \/ /\ r \in Batched /\ req'[r].input_len = req[r].input_len
                  /\ req'[r].max_new_tokens = req[r].max_new_tokens
               \/ Fits(req'[r])
      PROVE  AdmitInv'
  BY <1>1, <1>2 DEF AdmitInv
<1> HIDE DEF Fits
<1>3. CASE UNCHANGED vars
  BY <1>1, <1>3 DEF vars, AdmitInv, Batched
<1>4. ASSUME NEW n \in Reqs, HandleGenerateRequest(n) PROVE AdmitInv'
  <2>1. /\ pc' = "top" /\ \E q \in RequestType :
             /\ req' = [req EXCEPT ![n] = q]
             /\ q = [req[n] EXCEPT !.status = "aborted"] \/ q = Received(n)
    BY <1>1, <1>4, HandleGenerateRequestOK
  <2>2. /\ [req[n] EXCEPT !.status = "aborted"].status # "batched"
        /\ Received(n).status # "batched"
    BY <1>1 DEF Received, RequestType
  <2>3. \A r \in Batched' : r \in Batched /\ req'[r] = req[r]
    BY <1>1, <2>1, <2>2, Zenon DEF Batched
  <2> QED
    BY <1>2, <2>1, <2>3
<1>5. ASSUME NEW n \in Reqs, AbortRequest(n) PROVE AdmitInv'
  <2>1. /\ pc' = "top" /\ \E q \in RequestType :
             /\ req' = [req EXCEPT ![n] = q]
             /\ \/ req[n].status = "waiting" /\ q = [req[n] EXCEPT !.status = "aborted"]
                \/ req[n].status = "batched" /\ q = [req[n] EXCEPT !.to_finish = TRUE]
    BY <1>1, <1>5, AbortRequestOK
  <2>2. /\ [req[n] EXCEPT !.status = "aborted"].status = "aborted"
        /\ [req[n] EXCEPT !.to_finish = TRUE].input_len = req[n].input_len
        /\ [req[n] EXCEPT !.to_finish = TRUE].max_new_tokens = req[n].max_new_tokens
    BY <1>1 DEF RequestType
  <2>3. \A r \in Batched' :
          /\ r \in Batched /\ req'[r].input_len = req[r].input_len
          /\ req'[r].max_new_tokens = req[r].max_new_tokens
    BY <1>1, <2>1, <2>2, Zenon DEF Batched
  <2> QED
    BY <1>2, <2>1, <2>3
<1>6. CASE MergeLastBatch
  <2>1. /\ req' = req
        /\ \/ pc' = "decode"
           \/ pc' = "scan" /\ \E offset \in Nat : adder' = NewAdder(offset)
    BY <1>1, <1>6, MergeLastBatchOK, Zenon
  <2>2. ASSUME NEW offset \in Nat, adder' = NewAdder(offset)
        PROVE  adder'.can_run_list = {} /\ adder'.rem_total_token_offset >= 0
    BY <2>2 DEF NewAdder
  <2> QED
    BY <1>1, <2>1, <2>2 DEF AdmitInv, Batched
<1>7. CASE ScanQueue
  BY <1>7, AdmitScan
<1>8. CASE RunPrefill
  <2>1. /\ pc = "prefill" /\ pc' = "top"
        /\ \A r \in Reqs \ adder.can_run_list : req'[r] = req[r]
        /\ \A r \in adder.can_run_list :
             req'[r] \in Advanced(req[r]) /\ req'[r].out = req[r].out + 1
    BY <1>1, <1>8, RunPrefillOK
  <2>2. adder.can_run_list \subseteq Waiting
    BY <1>1, <2>1 DEF QueueInv
  <2>3. \A r \in Batched' \cap adder.can_run_list : Fits(req'[r])
    BY <1>1, <2>1, <2>2, AdmittedAloneFits DEF AdmitInv, Batched, Fits
  <2>4. \A r \in Batched' \ adder.can_run_list : r \in Batched /\ req'[r] = req[r]
    BY <2>1 DEF Batched
  <2> QED
    BY <1>2, <2>1, <2>3, <2>4
<1>9. CASE UpdateRunningBatch
  <2> DEFINE live == running \cap Batched
  <2>1. /\ pc' = "top"
        /\ \/ RunIdle
           \/ \E s \in Retractions(live) : Decoded(live, s)
    BY <1>1, <1>9, UpdateRunningBatchOK, ZenonT(30)
  <2>2. CASE RunIdle
    BY <1>2, <2>1, <2>2 DEF RunIdle, Batched
  <2>3. CASE \E s \in Retractions(live) : Decoded(live, s)
    <3>1. PICK s \in Retractions(live) : Decoded(live, s)
      BY <2>3
    <3>2. /\ \A r \in live \ Range(s) : req'[r] \in Advanced(req[r])
          /\ \A r \in Range(s) : \/ req'[r] = [req[r] EXCEPT !.status = "aborted"]
                                 \/ req'[r] = [req[r] EXCEPT !.status = "waiting"]
          /\ \A r \in Reqs \ live : req'[r] = req[r]
      BY <3>1 DEF Decoded
    <3>3. Range(s) \subseteq Reqs
      BY <1>1, RetractionsType DEF QueueInv
    <3>4. \A r \in Range(s) : r \notin Batched'
      BY <1>1, <3>2, <3>3, ZenonT(30) DEF Batched, RequestType
    <3>5. \A r \in Batched' : r \in Reqs
      BY DEF Batched
    <3>6. \A r \in Batched' \cap live : /\ r \in Batched
                                        /\ req'[r].input_len = req[r].input_len
                                        /\ req'[r].max_new_tokens = req[r].max_new_tokens
      BY <3>2, <3>4 DEF Advanced
    <3>7. \A r \in Batched' \ live : r \in Batched /\ req'[r] = req[r]
      BY <3>2 DEF Batched
    <3> QED
      BY <1>2, <2>1, <3>6, <3>7, ZenonT(30)
  <2> QED
    BY <2>1, <2>2, <2>3
<1> QED
  BY <1>3, <1>4, <1>5, <1>6, <1>7, <1>8, <1>9 DEF Next, Step

\* retract_decode never has to raise: when it has retracted all requests but one,
\* that one has a slot for its next token, for every pool, batch and order of
\* retraction.  No prompt may turn a max_new_tokens negative, and a request
\* with more output than admission counts has to fit in the pool by itself.
THEOREM LastRequestHasASlot ==
  ASSUME PromptsWithinLimit, OutputsFit
  PROVE  Spec => []LastRequestDecodes
<1>1. Init => AdmitInv
  <2> SUFFICES ASSUME Init PROVE AdmitInv
    OBVIOUS
  <2>1. PoolInv /\ pc = "top" /\ Batched = {}
    BY PoolInit DEF Init, Batched
  <2> QED
    BY <2>1 DEF AdmitInv
<1>2. AdmitInv /\ [Next]_vars => AdmitInv'
  BY AdmitStep
<1>3. AdmitInv => LastRequestDecodes
  <2> DEFINE live == running \cap Batched
  <2> SUFFICES ASSUME AdmitInv, pc = "decode", NEW s \in Retractions(live),
                      Cardinality(live \ Range(s)) = 1
               PROVE  DecodeFits(live \ Range(s), Range(s))
    BY DEF LastRequestDecodes, Retractions
  <2> DEFINE gone == Range(s)
  <2>1. /\ LengthsInv /\ Batched \subseteq running
        /\ available = Capacity - Cardinality(Entries(req, Reqs))
        /\ running \in SUBSET Reqs
    BY ZenonT(30) DEF AdmitInv, PoolInv, LengthsInv, QueueInv
  <2>2. live = Batched /\ gone \subseteq live /\ gone \subseteq Reqs /\ live \subseteq Reqs
    BY <2>1, RetractionsType
  <2>3. IsFiniteSet(live \ gone)
    BY <2>2, PrefillQueueAssumption, FS_Subset
  <2>4. PICK r : live \ gone = {r}
    BY <2>3, FS_Singleton, ZenonT(30)
  <2>5. r \in Batched /\ r \in Reqs /\ Batched \subseteq {r} \cup gone /\ {r} \cap gone = {}
    BY <2>2, <2>4
  <2>6. \A n \in Reqs : HeldSlots(req[n]) \in Int
    BY <2>1, HeldSlotsType
  <2> DEFINE h == HeldSlots(req[r])
             c == Cardinality(Entries(req, gone))
  <2>7. h \in Nat /\ h = req[r].input_len + req[r].out - 1
    BY <2>1, <2>5, HeldSlotsType
  <2>8. Cardinality(Entries(req, Reqs)) = h + c
    BY <2>2, <2>5, <2>6, <2>7, EntriesSplit, EntriesOfOne, ZenonT(30)
  <2>9. c \in Nat
    BY <2>2, <2>6, EntriesFinite
  <2>10. /\ req[r].out < req[r].max_new_tokens
         /\ req[r].input_len + req[r].max_new_tokens <= Capacity + 1
    BY <2>1, <2>5, ZenonT(30) DEF AdmitInv, LengthsInv, LengthsOK, Batched
  <2>11. /\ req[r].input_len \in Nat /\ req[r].out \in Nat
         /\ req[r].max_new_tokens \in Int
    BY <2>1, <2>5 DEF LengthsInv, QueueInv, RequestType
  <2>12. Capacity \in Nat
    BY ConstantTypes
  <2> HIDE DEF h, c
  <2>13. h + 1 <= Capacity
    BY <2>7, <2>10, <2>11, <2>12
  <2>14. available = Capacity - (h + c)
    BY <2>1, <2>8
  <2>15. 1 <= available + c
    BY <2>7, <2>9, <2>12, <2>13, <2>14
  <2> QED
    BY <2>15 DEF DecodeFits, c
<1> QED
  BY <1>1, <1>2, <1>3, PTL DEF Spec

-----------------------------------------------------------------------------
(* Pools that satisfy the hypotheses                                       *)

\* init_req_max_new_tokens and validate_input_length bound a request by the pool
\* before the reservation.
LEMMA ReceivedBound ==
  ASSUME NEW r \in Reqs, PoolSize >= 8
  PROVE  Received(r).input_len + Most(Received(r).max_new_tokens, 0) <= PoolSize - 2
<1>1. InputLen[r] \in Nat \ {0} /\ RequestedNew[r] \in Nat \ {0} /\ PoolSize \in Nat
  BY PrefillQueueAssumption
<1> DEFINE n == Least(RequestedNew[r], PoolSize - 1 - InputLen[r] - 1)
<1>2. Received(r).max_new_tokens = n
  BY DEF Received, MaxReqLen
<1>3. CASE InputLen[r] >= PoolSize - 6
  <2>1. Received(r).input_len = 1
    BY <1>1, <1>3 DEF Received, MaxReqLen, MaxReqInputLen
  <2>2. 1 + Most(n, 0) <= PoolSize - 2
    BY <1>1, <1>3 DEF Least, Most
  <2> QED
    BY <1>2, <2>1, <2>2
<1>4. CASE InputLen[r] < PoolSize - 6
  <2>1. Received(r).input_len = InputLen[r]
    BY <1>1, <1>4 DEF Received, MaxReqLen, MaxReqInputLen
  <2>2. InputLen[r] + Most(n, 0) <= PoolSize - 2
    BY <1>1, <1>4 DEF Least, Most
  <2> QED
    BY <1>2, <2>1, <2>2
<1> QED
  BY <1>1, <1>3, <1>4

\* Without the slots that FixedSizeVerificationPool takes, the limits on a
\* request already make it fit: batch_is_full cannot get stuck and
\* retract_decode cannot run out of memory.  With the reservation that depends
\* on the requests.
THEOREM UnreservedPoolServes ==
  ASSUME ReservedSlots = 0, PoolSize >= 8, PromptsWithinLimit
  PROVE  Spec => []FullBatchShrinks /\ []LastRequestDecodes
<1>1. Capacity = PoolSize /\ PoolSize \in Nat
  BY PrefillQueueAssumption DEF Capacity
<1>2. ASSUME NEW r \in Reqs
      PROVE  LET q == Received(r)
             IN  /\ q.input_len + Most(q.max_new_tokens, 0) < Capacity
                 /\ q.input_len + q.max_new_tokens <= Capacity + 1
  <2> DEFINE i == Received(r).input_len
             n == Received(r).max_new_tokens
  <2>1. i \in Nat /\ n \in Int
    BY ReceivedType DEF RequestType
  <2>2. i + Most(n, 0) <= PoolSize - 2
    BY ReceivedBound
  <2> HIDE DEF i, n
  <2>3. i + Most(n, 0) < PoolSize /\ i + n <= PoolSize + 1
    BY <1>1, <2>1, <2>2 DEF Most
  <2> QED
    BY <1>1, <2>3 DEF i, n
<1>3. RequestsFit /\ OutputsFit
  BY <1>2 DEF RequestsFit, OutputsFit
<1> QED
  BY <1>3, NeverStuckFull, LastRequestHasASlot, PTL
=============================================================================

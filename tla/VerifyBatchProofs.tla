------------------------- MODULE VerifyBatchProofs --------------------------
(***************************************************************************)
(* The theorems about VerifyBatch, for every batch of requests, window     *)
(* size and group size: the invariant of the loops, and what every pass of *)
(* the call does to the requests and to the KV cache.                      *)
(***************************************************************************)
EXTENDS VerifyBatchLemmas

-----------------------------------------------------------------------------
(* The invariant of the loops                                              *)

\* The first n elements of a list of requests.
Done(s, n) == {s[k] : k \in 1..n}

\* A list that the loops work through has requests that asked for determinism;
\* those from index idx on still have something to verify.
ListOK(s, idx) ==
  /\ s \in Seq(1..Len(reqs)) /\ NoRepeats(s) /\ idx \in 0..Len(s)
  /\ \A k \in 1..Len(s) : reqs[s[k]].is_deterministic /\ ~reqs[s[k]].is_retracted
  /\ \A k \in (idx + 1)..Len(s) : Pending(reqs[s[k]])

\* The places that the last group of the fixed size leaves free.
Room == (FixedSize - (Len(ready_reqs) % FixedSize)) % FixedSize

\* A group but the last has ready requests only.
Progress ==
  IF fixed_pool
  THEN \/ /\ ready_idx < Len(ready_reqs) /\ ready_idx % FixedSize = 0
          /\ not_ready_idx = 0
       \/ /\ ready_idx = Len(ready_reqs)
          /\ not_ready_idx = Min2(Room, Len(not_ready_reqs))
  ELSE not_ready_idx = 0

\* The passes took the requests before the two indices; the pass that raised
\* did not count.
TakenOK ==
  /\ taken \in Seq(1..Len(reqs)) /\ NoRepeats(taken)
  /\ LET done == Done(ready_reqs, ready_idx) \cup Done(not_ready_reqs, not_ready_idx)
     IN  Range(taken) \subseteq done /\ (pc # "raised" => Range(taken) = done)

LoopInv ==
  /\ fixed_pool \in BOOLEAN /\ pc \in {"collect", "loop", "returned", "raised"}
  /\ reqs \in Seq(RequestType) /\ \A i \in 1..Len(reqs) : RequestOK(reqs[i])
  /\ ListOK(ready_reqs, ready_idx) /\ ListOK(not_ready_reqs, not_ready_idx)
  /\ Range(ready_reqs) \cap Range(not_ready_reqs) = {}
  /\ TakenOK
  /\ pc # "raised" => Progress
  /\ pc = "returned" => ready_idx = Len(ready_reqs)
  /\ pc = "collect" => /\ ready_reqs = <<>> /\ not_ready_reqs = <<>>
                       /\ pass = NoPass /\ taken = <<>>

\* CachesIntact, with the slots that req_to_token holds.
CacheInv ==
  \A i \in 1..Len(reqs) : \A x \in 0..(CurrentSeqLen(reqs[i]) - 1) :
    /\ KVSlot(i, x) \in DOMAIN kv
    /\ \/ kv[KVSlot(i, x)] = TokenAt(i, reqs[i], x)
       \/ /\ reqs[i].is_deterministic /\ i \notin Range(taken)
          /\ x = ContextIdx(reqs[i])

-----------------------------------------------------------------------------
(* What a pass leaves in the KV cache                                      *)

\* The pass writes slot KVSlot(i, x).
Writes(group, i, x) ==
  \E k \in 1..Len(group) : group[k] = i /\ x - ContextIdx(reqs[i]) \in 0..(Unverified(reqs[i]) - 1)

\* A row of the batch is a row of one request's window or a dummy's.
LEMMA RowOwner ==
  ASSUME NEW group, NEW win, GroupOK(group, win), Whole(group, win), NEW d \in Nat, NEW b,
         BatchOK(group, win, d, b), NEW i \in 1..Len(reqs), NEW x \in Nat,
         NEW p \in 1..Len(b.input_ids), b.out_cache_loc[p] = KVSlot(i, x)
  PROVE  /\ Writes(group, i, x)
         /\ b.input_ids[p] = TokenAt(i, reqs[i], x)
<1> DEFINE n == Len(group)
           lens == Lens(win, n)
           O(k) == OffsetAfter(lens, k)
<1>1. /\ n \in Nat /\ lens \in [1..n -> Nat] /\ Len(reqs) \in Nat
      /\ \A k \in 1..n : lens[k] = win[k].padded_len /\ win[k].padded_len \in Nat
  BY GroupFacts
<1>2. lens \in Seq(Nat) /\ Len(lens) = n
  BY <1>1, TupleOK
<1>3. p <= O(n)
  <2>1. O(n) \in Nat
    BY <1>1, <1>2, OffsetOK
  <2>2. /\ p \in 1..(O(n) + d * WindowSize)
        /\ \A y \in (O(n) + 1)..(O(n) + d * WindowSize) :
             b.out_cache_loc[y] \in {"dummy"} \X Nat
    BY DEF BatchOK
  <2>3. KVSlot(i, x) \notin {"dummy"} \X Nat
    BY DEF KVSlot
  <2>4. d * WindowSize \in Nat
    BY VerifyBatchAssumption
  <2> HIDE DEF O
  <2>5. SUFFICES ASSUME p > O(n) PROVE FALSE
    BY <2>1, <2>2, <2>4
  <2>6. p \in (O(n) + 1)..(O(n) + d * WindowSize)
    BY <2>1, <2>2, <2>4, <2>5
  <2> QED
    BY <2>2, <2>3, <2>6
<1>4. PICK k \in 1..n : \E j \in 1..lens[k] : p = O(k - 1) + j
  <2>1. p \in 1..O(n)
    <3>1. p \in Nat \ {0} /\ O(n) \in Nat
      BY <1>1, <1>2, OffsetOK DEF BatchOK
    <3> HIDE DEF O
    <3> QED
      BY <1>3, <3>1
  <2> QED
    BY <1>2, <2>1, OffsetSplits
<1>5. PICK j \in 1..win[k].padded_len : p = O(k - 1) + j
  BY <1>1, <1>4
<1>6. OwnLoc(group[k], reqs[group[k]], j, KVSlot(i, x))
  BY <1>5 DEF BatchOK
<1>7. j <= Unverified(reqs[group[k]]) /\ KVSlot(i, x) = KVSlot(group[k], ContextIdx(reqs[group[k]]) + j - 1)
  <2>1. KVSlot(i, x) \notin {"pad"} \X Nat
    BY DEF KVSlot
  <2> QED
    BY <1>6, <2>1 DEF OwnLoc
<1>8. group[k] = i /\ x = ContextIdx(reqs[i]) + j - 1
  BY <1>7 DEF KVSlot
<1>9. b.input_ids[p] = TokenAt(i, reqs[i], x)
  BY <1>5, <1>7, <1>8, Zenon DEF BatchOK
<1>10. ContextIdx(reqs[i]) \in Nat /\ Unverified(reqs[i]) \in Nat
  <2>1. Pending(reqs[i])
    BY <1>8 DEF GroupOK
  <2> QED
    BY <2>1, UnverifiedOK
<1>11. x - ContextIdx(reqs[i]) \in 0..(Unverified(reqs[i]) - 1)
  <2>1. PICK c, u : c = ContextIdx(reqs[i]) /\ u = Unverified(reqs[i])
    OBVIOUS
  <2>2. c \in Nat /\ u \in Nat /\ x = c + j - 1 /\ j <= u
    BY ONLY <1>7, <1>8, <1>10, <2>1
  <2>3. j \in Nat /\ j >= 1
    BY <1>1
  <2>4. x - c \in 0..(u - 1)
    BY ONLY <2>2, <2>3
  <2> QED
    BY ONLY <2>1, <2>4
<1> QED
  BY <1>8, <1>9, <1>11 DEF Writes

\* Every slot that the pass writes gets the entry of its own request's token, and
\* no other entry changes: windows and padding of a group do not overlap.
LEMMA WrittenOK ==
  ASSUME NEW group, NEW win, GroupOK(group, win), Whole(group, win), NEW d \in Nat, NEW b,
         BatchOK(group, win, d, b), b.out_cache_loc \in Seq(Loc), b.input_ids \in Seq(Input),
         NEW i \in 1..Len(reqs), NEW x \in Nat, KVSlot(i, x) \in DOMAIN kv
  PROVE  Written(b)[KVSlot(i, x)] = IF Writes(group, i, x) THEN TokenAt(i, reqs[i], x)
                                    ELSE kv[KVSlot(i, x)]
<1> DEFINE s == KVSlot(i, x)
           n == Len(group)
           lens == Lens(win, n)
           O(k) == OffsetAfter(lens, k)
           rows == DOMAIN b.input_ids
           row == CHOOSE p \in rows : b.out_cache_loc[p] = s
<1>1. /\ rows = 1..Len(b.input_ids) /\ Len(b.input_ids) \in Nat
      /\ Len(b.out_cache_loc) = Len(b.input_ids)
  BY DEF BatchOK
<1>2. s \in Range(b.out_cache_loc) <=> \E p \in rows : b.out_cache_loc[p] = s
  BY <1>1, RangeOK
<1>3. Written(b)[s] = IF s \in Range(b.out_cache_loc) THEN b.input_ids[row] ELSE kv[s]
  BY DEF Written
<1>4. ASSUME NEW p \in rows, b.out_cache_loc[p] = s
      PROVE  Writes(group, i, x) /\ b.input_ids[p] = TokenAt(i, reqs[i], x)
  BY <1>1, <1>4, RowOwner
<1>5. CASE Writes(group, i, x)
  <2>1. PICK k \in 1..n : group[k] = i /\ x - ContextIdx(reqs[i]) \in 0..(Unverified(reqs[i]) - 1)
    BY <1>5 DEF Writes
  <2> DEFINE j == x - ContextIdx(reqs[i]) + 1
             c == ContextIdx(reqs[i])
             u == Unverified(reqs[i])
             w == win[k].padded_len
  <2>2. c \in Nat /\ u \in Nat /\ x - c \in 0..(u - 1)
    <3>1. Pending(reqs[i])
      BY <2>1 DEF GroupOK
    <3> QED
      BY <2>1, <3>1, UnverifiedOK
  <2>3. j \in Nat \ {0} /\ j <= u /\ c + j - 1 = x
    <3>1. j = x - c + 1
      OBVIOUS
    <3> HIDE DEF j, c, u
    <3> QED
      BY <2>2, <3>1
  <2>4. n \in Nat /\ lens \in Seq(Nat) /\ Len(lens) = n /\ lens[k] = w /\ w \in Nat
    <3>1. n \in Nat /\ lens \in [1..n -> Nat] /\ lens[k] = w /\ w \in Nat
      BY GroupFacts
    <3> HIDE DEF lens, n, w
    <3> QED
      BY <3>1, TupleOK
  <2>5. u <= w
    <3>1. ~(u > w)
      BY <2>1 DEF Whole
    <3> HIDE DEF u, w
    <3> QED
      BY <2>2, <2>4, <3>1
  <2>6. j \in 1..lens[k] /\ j \in 1..w
    <3> HIDE DEF j, lens, u, w, c
    <3> QED
      BY <2>2, <2>3, <2>4, <2>5
  <2>7. O(k - 1) + j \in 1..O(n)
    BY <2>4, <2>6, OffsetSplits
  <2>8. O(k - 1) + j \in rows
    <3>1. Len(b.input_ids) = O(n) + d * WindowSize
      BY DEF BatchOK
    <3>2. d * WindowSize \in Nat
      BY VerifyBatchAssumption
    <3>3. O(n) \in Nat
      BY <2>4, OffsetOK
    <3> HIDE DEF O, j
    <3> QED
      BY <1>1, <2>7, <3>1, <3>2, <3>3
  <2>9. b.out_cache_loc[O(k - 1) + j] = s
    <3>1. OwnLoc(i, reqs[i], j, b.out_cache_loc[O(k - 1) + j])
      BY <2>1, <2>6, ZenonT(30) DEF BatchOK
    <3> HIDE DEF O, j
    <3> QED
      BY <2>2, <2>3, <3>1 DEF OwnLoc
  <2>10. row \in rows /\ b.out_cache_loc[row] = s
    BY <2>8, <2>9
  <2> HIDE DEF row, rows, s
  <2> QED
    BY <1>2, <1>3, <1>4, <1>5, <2>10 DEF s
<1>6. CASE ~Writes(group, i, x)
  BY <1>2, <1>3, <1>4, <1>6
<1> QED
  BY <1>5, <1>6

-----------------------------------------------------------------------------
(* What a pass does to the requests                                        *)

AfterPass(group, win, pred) ==
  [i \in 1..Len(reqs) |->
     IF i \in Range(group)
     THEN LET k == CHOOSE k \in 1..Len(group) : group[k] = i
          IN  Compared(reqs[i], RowsAt(OrigRows(group, win), win, k),
                       RowsAt(PredRows(group, win, pred), win, k))
     ELSE reqs[i]]

\* Every request of the group gains verified tokens, the others stay as they are.
PassEffect(group, pred, new) ==
  /\ new \in Seq(RequestType) /\ Len(new) = Len(reqs)
  /\ \A i \in 1..Len(reqs) : i \notin Range(group) => new[i] = reqs[i]
  /\ \A k \in 1..Len(group) :
       \E g \in 1..Unverified(reqs[group[k]]) :
         Gained(reqs[group[k]], new[group[k]], pred[k], g)

LEMMA AfterPassOK ==
  ASSUME NEW group, NEW win, GroupOK(group, win), Whole(group, win), NEW m, NEW pred,
         pred = PredOf(group, win, m)
  PROVE  PassEffect(group, pred, AfterPass(group, win, pred))
<1> DEFINE n == Len(group)
           new == AfterPass(group, win, pred)
           orig(k) == RowsAt(OrigRows(group, win), win, k)
           rows(k) == RowsAt(PredRows(group, win, pred), win, k)
<1>1. /\ Len(reqs) \in Nat /\ n \in Nat /\ reqs \in Seq(RequestType)
      /\ \A k \in 1..n : group[k] \in 1..Len(reqs)
      /\ \A k, l \in 1..n : group[k] = group[l] => k = l
  BY GroupFacts DEF GroupOK, NoRepeats
<1>2. \A i : i \in Range(group) <=> \E k \in 1..n : group[k] = i
  <2>1. group \in Seq(1..Len(reqs))
    BY DEF GroupOK
  <2> QED
    BY <2>1, RangeOK
<1>3. ASSUME NEW k \in 1..n
      PROVE  new[group[k]] = Compared(reqs[group[k]], orig(k), rows(k))
  <2>1. group[k] \in Range(group) /\ group[k] \in 1..Len(reqs)
    BY <1>1, <1>2
  <2>2. (CHOOSE l \in 1..n : group[l] = group[k]) = k
    BY <1>1
  <2> QED
    BY <2>1, <2>2, ZenonT(30) DEF AfterPass
<1>4. ASSUME NEW k \in 1..n
      PROVE  \E g \in 1..Unverified(reqs[group[k]]) :
               Gained(reqs[group[k]], new[group[k]], pred[k], g)
  <2> DEFINE q == reqs[group[k]]
  <2>1. Pending(q)
    BY DEF GroupOK
  <2>2. /\ orig(k) \in Seq(Input) /\ Len(orig(k)) = Unverified(q)
        /\ \A j \in 1..Unverified(q) : orig(k)[j] = q.output_ids[q.verified + j]
    BY OrigRowsOK
  <2>3. pred[k] \in Seq(Token) /\ Len(pred[k]) = Unverified(q) /\ rows(k) = pred[k]
    BY PredRowsOK
  <2> HIDE DEF q
  <2>4. \E g \in 1..Unverified(q) : Gained(q, Compared(q, orig(k), pred[k]), pred[k], g)
    <3> HIDE DEF orig
    <3> QED
      BY <2>1, <2>2, <2>3, ComparedOK
  <2>5. new[group[k]] = Compared(q, orig(k), pred[k])
    BY <1>3, <2>3 DEF q
  <2> QED
    BY <2>4, <2>5 DEF q
<1>5. \A i \in 1..Len(reqs) : i \notin Range(group) => new[i] = reqs[i]
  BY DEF AfterPass
<1>6. \A i \in 1..Len(reqs) : new[i] \in RequestType
  <2> TAKE i \in 1..Len(reqs)
  <2>1. CASE i \in Range(group)
    <3>1. PICK k \in 1..n : group[k] = i
      BY <1>2, <2>1
    <3>2. PICK g \in 1..Unverified(reqs[i]) : Gained(reqs[i], new[i], pred[k], g)
      BY <1>4, <3>1
    <3> QED
      BY <3>2, Zenon DEF Gained, RequestOK
  <2>2. CASE i \notin Range(group)
    BY <1>1, <1>5, <2>2
  <2> QED
    BY <2>1, <2>2
<1>7. new \in Seq(RequestType) /\ Len(new) = Len(reqs)
  <2>1. new \in [1..Len(reqs) -> RequestType]
    <3>1. new = [i \in 1..Len(reqs) |-> new[i]]
      BY DEF AfterPass
    <3> HIDE DEF new
    <3> QED
      BY <1>6, <3>1
  <2> HIDE DEF new
  <2> QED
    BY <1>1, <2>1, TupleOK
<1> QED
  BY <1>4, <1>5, <1>7 DEF PassEffect

\* The step of a pass over a consistent batch.
LEMMA VerifyStep ==
  ASSUME NEW group, NEW win, NEW b, Verify(group, win, b)
  PROVE  \E m : LET pred == PredOf(group, win, m)
                IN  /\ reqs' = AfterPass(group, win, pred)
                    /\ kv' = Written(b) /\ taken' = taken \o group
                    /\ pass' = [group |-> group, before |-> reqs, batch |-> b,
                                attended |-> [k \in 1..Len(group) |->
                                  [j \in 1..win[k].actual_len |->
                                     Attends(b, k, ComparedRows(win, k)[j])]],
                                predicted |-> pred]
BY Zenon DEF Verify, PredOf, AfterPass, RowsAt, OrigRows, PredRows

-----------------------------------------------------------------------------
(* What the compared rows attend to                                        *)

\* The pass leaves in every position of request i the entry of its token.
OwnTokens(b, i) ==
  \A x \in 0..(CurrentSeqLen(reqs[i]) - 1) :
    Written(b)[KVSlot(i, x)] = TokenAt(i, reqs[i], x)

\* The requests of a group: the pass wrote the entries of the context and of the
\* window, decode all before.
LEMMA OwnEntries ==
  ASSUME NEW group, NEW win, GroupOK(group, win), Whole(group, win), NEW d \in Nat, NEW b,
         BatchOK(group, win, d, b), b.out_cache_loc \in Seq(Loc), b.input_ids \in Seq(Input),
         CacheInv, NEW i \in Range(group)
  PROVE  OwnTokens(b, i)
<1> SUFFICES ASSUME NEW x \in 0..(CurrentSeqLen(reqs[i]) - 1)
             PROVE  Written(b)[KVSlot(i, x)] = TokenAt(i, reqs[i], x)
  BY DEF OwnTokens
<1>0. PICK k \in 1..Len(group) : group[k] = i
  <2>1. group \in Seq(1..Len(reqs))
    BY DEF GroupOK
  <2> QED
    BY <2>1, RangeOK, ZenonT(30)
<1> DEFINE c == ContextIdx(reqs[i])
           u == Unverified(reqs[i])
<1>1. i \in 1..Len(reqs) /\ Pending(reqs[i])
  BY <1>0, GroupFacts DEF GroupOK
<1>2. c \in Nat /\ u \in Nat \ {0} /\ CurrentSeqLen(reqs[i]) = c + u
  BY <1>1, UnverifiedOK
<1>3. x \in Nat /\ x < c + u
  <2> HIDE DEF c, u
  <2> QED
    BY <1>2
<1>4. /\ KVSlot(i, x) \in DOMAIN kv
      /\ x # c => kv[KVSlot(i, x)] = TokenAt(i, reqs[i], x)
  BY <1>1 DEF CacheInv
<1>5. Written(b)[KVSlot(i, x)] = IF Writes(group, i, x) THEN TokenAt(i, reqs[i], x)
                                 ELSE kv[KVSlot(i, x)]
  BY <1>1, <1>3, <1>4, WrittenOK
<1>6. ~Writes(group, i, x) => x # c
  <2>1. SUFFICES ASSUME x = c PROVE Writes(group, i, x)
    OBVIOUS
  <2>2. x - c \in 0..(u - 1)
    <3> HIDE DEF c, u
    <3> QED
      BY <1>2, <2>1
  <2> QED
    BY <1>0, <2>2 DEF Writes
<1> QED
  BY <1>4, <1>5, <1>6

\* What one row of request i attends to: the j-th of its verification rows, with
\* the tokens of its positions up to its own.
OwnRow(a, i, q, j) ==
  a = [tokens |-> [x \in 0..(ContextIdx(q) + j - 1) |-> TokenAt(i, q, x)], params |-> i]

\* The row that predicts the j-th token of a window.
LEMMA AttendsOwn ==
  ASSUME NEW group, NEW win, GroupOK(group, win), Whole(group, win), NEW d \in Nat, NEW b,
         BatchOK(group, win, d, b), b.out_cache_loc \in Seq(Loc), b.input_ids \in Seq(Input),
         CacheInv, NEW k \in 1..Len(group), NEW i, i = group[k], NEW j \in 1..win[k].actual_len
  PROVE  OwnRow(Attends(b, k, ComparedRows(win, k)[j]), i, reqs[i], j)
<1> DEFINE n == Len(group)
           O(l) == OffsetAfter(Lens(win, n), l)
           c == ContextIdx(reqs[i])
           u == Unverified(reqs[i])
           row == ComparedRows(win, k)[j]
           first == OffsetAfter(b.extend_lens, k - 1) + 1
<1>1. i \in 1..Len(reqs) /\ i \in Nat /\ Pending(reqs[i]) /\ n \in Nat
  BY GroupFacts DEF GroupOK
<1>own. OwnTokens(b, i)
  <2>1. group \in Seq(1..Len(reqs))
    BY DEF GroupOK
  <2>2. i \in Range(group)
    BY <2>1, RangeOK
  <2> QED
    BY <2>2, OwnEntries
<1>2. c \in Nat /\ u \in Nat \ {0} /\ CurrentSeqLen(reqs[i]) = c + u
  BY <1>1, UnverifiedOK
<1>3. /\ win[k].actual_len = u /\ win[k].actual_len <= win[k].padded_len
      /\ row = O(k - 1) + j /\ win[k].padded_len \in Nat
  BY RowOffsetOK, GroupFacts
<1>4. j \in Nat \ {0} /\ j <= u /\ j \in 1..win[k].padded_len
  <2> HIDE DEF c, u
  <2> QED
    BY <1>2, <1>3
<1>5. /\ b.req_pool_indices[k] = i /\ b.prefix_lens[k] = c
      /\ b.sampling[O(k - 1) + j] = i
  BY <1>4 DEF BatchOK
<1>6. O(k - 1) \in Nat /\ first = O(k - 1) + 1
  <2>1. k - 1 \in 0..n
    BY <1>1
  <2>2. Lens(win, n) \in Seq(Nat) /\ Len(Lens(win, n)) = n
    BY <1>1, GroupFacts, TupleOK, Zenon
  <2>3. OffsetAfter(b.extend_lens, k - 1) = O(k - 1)
    BY <2>1 DEF BatchOK
  <2> QED
    BY <2>1, <2>2, <2>3, OffsetOK
<1>7. b.prefix_lens[k] + (row - first) = c + j - 1
  <2> HIDE DEF c, O, row, first
  <2> QED
    BY <1>2, <1>3, <1>4, <1>5, <1>6
<1>8. ASSUME NEW x \in 0..(c + j - 1)
      PROVE  (IF ReqToToken(i, x) = NoSlot THEN Junk ELSE Written(b)[ReqToToken(i, x)]) =
               TokenAt(i, reqs[i], x)
  <2>1. x \in 0..(CurrentSeqLen(reqs[i]) - 1) /\ x < CurrentSeqLen(reqs[i])
    <3> HIDE DEF c, u
    <3> QED
      BY <1>2, <1>4
  <2>2. ReqToToken(i, x) = KVSlot(i, x)
    BY <1>1, <2>1 DEF ReqToToken
  <2>3. KVSlot(i, x) # NoSlot
    BY DEF KVSlot, NoSlot
  <2>4. Written(b)[KVSlot(i, x)] = TokenAt(i, reqs[i], x)
    BY <1>own, <2>1 DEF OwnTokens
  <2> QED
    BY <2>2, <2>3, <2>4
<1>9. Attends(b, k, row) =
        [tokens |-> [x \in 0..(c + j - 1) |->
                       IF ReqToToken(i, x) = NoSlot THEN Junk
                       ELSE Written(b)[ReqToToken(i, x)]],
         params |-> i]
  BY <1>3, <1>5, <1>7, ZenonT(30) DEF Attends
<1>10. Attends(b, k, row) =
         [tokens |-> [x \in 0..(c + j - 1) |-> TokenAt(i, reqs[i], x)], params |-> i]
  BY <1>8, <1>9, ZenonT(30)
<1> QED
  BY ONLY <1>10, Zenon DEF OwnRow, c, row

-----------------------------------------------------------------------------
(* The KV cache after a pass                                               *)

\* A rollback drops positions from the end; those that stay keep their tokens,
\* since only the last output may be new and its entry is not yet written.
LEMMA KeptPositions ==
  ASSUME NEW q, Pending(q), NEW r, NEW pred, NEW g \in 1..Unverified(q),
         Gained(q, r, pred, g), NEW i, NEW x \in 0..(CurrentSeqLen(r) - 1)
  PROVE  x \in 0..(CurrentSeqLen(q) - 1) /\ TokenAt(i, r, x) = TokenAt(i, q, x)
<1> DEFINE p == q.prompt
           v == q.verified
           u == Unverified(q)
<1>1. /\ p \in Nat \ {0} /\ v \in Nat /\ u \in Nat \ {0}
      /\ ContextIdx(q) = p + v - 1 /\ CurrentSeqLen(q) = ContextIdx(q) + u
  BY UnverifiedOK
<1>2. r.prompt = p /\ Len(r.output_ids) = v + g
  BY DEF Gained
<1>3. CurrentSeqLen(r) = p + (v + g) - 1
  BY <1>2 DEF CurrentSeqLen
<1>4. x \in 0..(p + v + g - 2) /\ x \in 0..(CurrentSeqLen(q) - 1) /\ g \in Nat
  <2>1. g \in 1..u
    OBVIOUS
  <2> HIDE DEF p, v, u
  <2> QED
    BY <1>1, <1>3, <2>1
<1>5. CASE x < p
  BY <1>2, <1>4, <1>5 DEF TokenAt
<1>6. CASE ~(x < p)
  <2>1. x - p + 1 \in 1..(v + g - 1)
    <3> HIDE DEF p, v, u
    <3> QED
      BY <1>1, <1>4, <1>6
  <2>2. r.output_ids[x - p + 1] = q.output_ids[x - p + 1]
    <3>1. \A m \in 1..(v + g - 1) : r.output_ids[m] = q.output_ids[m]
      BY ZenonT(30) DEF Gained
    <3> HIDE DEF p, v
    <3> QED
      BY <2>1, <3>1
  <2> QED
    BY <1>2, <1>4, <1>6, <2>2 DEF TokenAt
<1> QED
  BY <1>4, <1>5, <1>6

LEMMA CacheKept ==
  ASSUME NEW group, NEW win, GroupOK(group, win), Whole(group, win), NEW d \in Nat, NEW b,
         BatchOK(group, win, d, b), b.out_cache_loc \in Seq(Loc), b.input_ids \in Seq(Input),
         CacheInv, taken \in Seq(1..Len(reqs)), NEW pred, PassEffect(group, pred, reqs'),
         kv' = Written(b), taken' = taken \o group,
         \A i \in 1..Len(reqs) : RequestOK(reqs[i])
  PROVE  CacheInv'
<1>1. /\ Len(reqs') = Len(reqs) /\ DOMAIN kv' = DOMAIN kv
      /\ group \in Seq(1..Len(reqs))
  BY DEF PassEffect, Written, GroupOK
<1>2. Range(taken') = Range(taken) \cup Range(group)
  BY <1>1, RangeOK
<1>3. \A i : i \in Range(group) <=> \E k \in 1..Len(group) : group[k] = i
  BY <1>1, RangeOK
<1>own. \A i \in Range(group) : OwnTokens(b, i)
  BY OwnEntries
<1> SUFFICES ASSUME NEW i \in 1..Len(reqs), NEW x \in 0..(CurrentSeqLen(reqs'[i]) - 1)
             PROVE  /\ KVSlot(i, x) \in DOMAIN kv
                    /\ \/ kv'[KVSlot(i, x)] = TokenAt(i, reqs'[i], x)
                       \/ /\ reqs'[i].is_deterministic /\ i \notin Range(taken')
                          /\ x = ContextIdx(reqs'[i])
  BY <1>1, ZenonT(30) DEF CacheInv, KVSlot, CurrentSeqLen, TokenAt, ContextIdx
<1>4. CASE i \in Range(group)
  <2>1. PICK k \in 1..Len(group) : group[k] = i
    BY <1>3, <1>4
  <2>2. PICK g \in 1..Unverified(reqs[i]) : Gained(reqs[i], reqs'[i], pred[k], g)
    BY <2>1, Zenon DEF PassEffect
  <2>3. Pending(reqs[i])
    BY <2>1 DEF GroupOK
  <2>4. x \in 0..(CurrentSeqLen(reqs[i]) - 1) /\ TokenAt(i, reqs'[i], x) = TokenAt(i, reqs[i], x)
    <3>1. g \in 1..Unverified(reqs[i]) /\ x \in 0..(CurrentSeqLen(reqs'[i]) - 1)
      OBVIOUS
    <3> QED
      BY ONLY <2>2, <2>3, <3>1, KeptPositions
  <2>5. Written(b)[KVSlot(i, x)] = TokenAt(i, reqs[i], x)
    BY <1>4, <1>own, <2>4 DEF OwnTokens
  <2> QED
    BY <2>4, <2>5 DEF CacheInv
<1>5. CASE i \notin Range(group)
  <2>1. reqs'[i] = reqs[i]
    BY <1>5 DEF PassEffect
  <2>2. x \in Nat /\ x \in 0..(CurrentSeqLen(reqs[i]) - 1)
    BY <2>1
  <2>3. ~Writes(group, i, x)
    BY <1>3, <1>5 DEF Writes
  <2>4. KVSlot(i, x) \in DOMAIN kv
    BY <2>2 DEF CacheInv
  <2>5. kv'[KVSlot(i, x)] = kv[KVSlot(i, x)]
    BY <2>2, <2>3, <2>4, WrittenOK
  <2> QED
    BY <1>2, <1>5, <2>1, <2>2, <2>4, <2>5 DEF CacheInv
<1> QED
  BY <1>4, <1>5

-----------------------------------------------------------------------------
(* The two outcomes of _run_verification                                   *)

Raises(group, win) ==
  /\ ~Whole(group, win) /\ pc' = "raised"
  /\ pass' = [NoPass EXCEPT !.group = group, !.before = reqs]
  /\ UNCHANGED <<reqs, kv, taken>>

Passes(group, win, d, b, pred) ==
  /\ Whole(group, win) /\ pc' = pc
  /\ b = PrepareVerifyBatch(group, win, d) /\ BatchOK(group, win, d, b)
  /\ b.out_cache_loc \in Seq(Loc) /\ b.input_ids \in Seq(Input)
  /\ \E m : pred = PredOf(group, win, m)
  /\ PassEffect(group, pred, reqs') /\ kv' = Written(b) /\ taken' = taken \o group
  /\ pass' = [group |-> group, before |-> reqs, batch |-> b,
              attended |-> [k \in 1..Len(group) |->
                [j \in 1..win[k].actual_len |-> Attends(b, k, ComparedRows(win, k)[j])]],
              predicted |-> pred]

\* prepare_verify_batch finds as many rows as cache locations, or raises.
Checked(group, win, b) ==
  /\ b.out_cache_loc \in Seq(Loc) /\ b.input_ids \in Seq(Input)
  /\ Len(b.out_cache_loc) # Len(b.input_ids) <=> ~Whole(group, win)

LEMMA RaisesUnlessWhole ==
  ASSUME NEW group, NEW win, GroupOK(group, win), NEW d \in Nat
  PROVE  Checked(group, win, PrepareVerifyBatch(group, win, d))
<1>1. PICK b, n : b = PrepareVerifyBatch(group, win, d) /\ n = Len(group)
  BY Zenon
<1>2. /\ b.out_cache_loc \in Seq(Loc) /\ b.input_ids \in Seq(Input)
      /\ Len(b.out_cache_loc) # Len(b.input_ids) <=>
           \E k \in 1..n : Unverified(reqs[group[k]]) > win[k].padded_len
  <2>1. GroupOK(group, win) /\ d \in Nat
    OBVIOUS
  <2> QED
    BY ONLY <1>1, <2>1, BatchLengths
<1> QED
  BY <1>1, <1>2 DEF Checked, Whole

LEMMA RunVerificationOK ==
  ASSUME NEW group, NEW win, GroupOK(group, win), NEW d \in Nat,
         RunVerification(group, win, d)
  PROVE  Raises(group, win) \/ \E b, pred : Passes(group, win, d, b, pred)
<1> DEFINE b == PrepareVerifyBatch(group, win, d)
<1>1. /\ b.out_cache_loc \in Seq(Loc) /\ b.input_ids \in Seq(Input)
      /\ Len(b.out_cache_loc) # Len(b.input_ids) <=> ~Whole(group, win)
  BY RaisesUnlessWhole DEF Checked
<1>2. IF Len(b.out_cache_loc) # Len(b.input_ids)
      THEN /\ pc' = "raised"
           /\ pass' = [NoPass EXCEPT !.group = group, !.before = reqs]
           /\ UNCHANGED <<reqs, kv, taken>>
      ELSE Verify(group, win, b) /\ UNCHANGED pc
  BY DEF RunVerification
<1>3. CASE ~Whole(group, win)
  <2> HIDE DEF b
  <2> QED
    BY <1>1, <1>2, <1>3 DEF Raises
<1>4. CASE Whole(group, win)
  <2>1. BatchOK(group, win, d, b)
    BY <1>1, <1>4, PreparedOK
  <2>2. Verify(group, win, b) /\ pc' = pc
    BY <1>1, <1>2, <1>4
  <2>3. PICK m : LET pred == PredOf(group, win, m)
                 IN  /\ reqs' = AfterPass(group, win, pred)
                     /\ kv' = Written(b) /\ taken' = taken \o group
                     /\ pass' = [group |-> group, before |-> reqs, batch |-> b,
                                 attended |-> [k \in 1..Len(group) |->
                                   [j \in 1..win[k].actual_len |->
                                      Attends(b, k, ComparedRows(win, k)[j])]],
                                 predicted |-> pred]
    <3> HIDE DEF b
    <3> QED
      BY <2>2, VerifyStep
  <2> DEFINE pred == PredOf(group, win, m)
  <2>4. PassEffect(group, pred, reqs')
    <3>1. PassEffect(group, pred, AfterPass(group, win, pred))
      BY <1>4, AfterPassOK
    <3> QED
      BY <2>3, <3>1
  <2>5. Passes(group, win, d, b, pred)
    <3>1. b = PrepareVerifyBatch(group, win, d) /\ pred = PredOf(group, win, m)
      OBVIOUS
    <3> HIDE DEF b
    <3> QED
      BY <1>1, <1>4, <2>1, <2>2, <2>3, <2>4, <3>1 DEF Passes
  <2> QED
    BY <2>5
<1> QED
  BY <1>3, <1>4

-----------------------------------------------------------------------------
(* The groups of the loops                                                 *)

\* from_requests, and allocate_padding_kv_cache when it finds no slots.
LEMMA WindowOK ==
  ASSUME NEW q, Pending(q), fixed_pool \in BOOLEAN
  PROVE  /\ WinOK(q, WindowOf(q))
         /\ ~fixed_pool =>
              WinOK(q, [WindowOf(q) EXCEPT !.padded_len = WindowOf(q).actual_len])
<1> DEFINE u == Unverified(q)
           w == WindowOf(q)
           c == [w EXCEPT !.padded_len = w.actual_len]
<1>1. u \in Nat \ {0} /\ WindowSize \in Nat \ {0}
  BY UnverifiedOK, VerifyBatchAssumption
<1>2. /\ w.actual_len = IF fixed_pool THEN Min2(u, WindowSize) ELSE u
      /\ w.padded_len = IF w.actual_len < WindowSize /\ (q.finished \/ fixed_pool)
                        THEN WindowSize ELSE w.actual_len
      /\ c.actual_len = w.actual_len /\ c.padded_len = w.actual_len
  BY DEF WindowOf
<1> HIDE DEF u, w, c
<1>3. CASE fixed_pool
  <2>1. w.padded_len = WindowSize /\ w.actual_len = Min2(u, WindowSize)
    BY <1>1, <1>2, <1>3 DEF Min2
  <2> QED
    BY <1>1, <1>3, <2>1 DEF WinOK, Min2, u, w
<1>4. CASE ~fixed_pool
  <2>1. w.actual_len = u /\ w.padded_len \in Nat \ {0} /\ u <= w.padded_len
    BY <1>1, <1>2, <1>4
  <2>2. WinOK(q, w)
    BY <1>1, <1>4, <2>1 DEF WinOK, u
  <2>3. WinOK(q, c)
    BY <1>1, <1>2, <1>4, <2>1 DEF WinOK, u
  <2> QED
    BY <2>2, <2>3 DEF w, c
<1> QED
  BY <1>3, <1>4

\* The next m requests of a list.
Segment(t, s, idx, m) ==
  /\ t \in Seq(1..Len(reqs)) /\ NoRepeats(t) /\ Len(t) = m
  /\ Range(t) \subseteq Range(s) /\ Range(t) \cap Done(s, idx) = {}
  /\ Done(s, idx + m) = Done(s, idx) \cup Range(t)
  /\ Done(s, idx) \subseteq Range(s)
  /\ \A i \in Range(t) : Pending(reqs[i])

LEMMA SegmentOK ==
  ASSUME NEW s, NEW idx, ListOK(s, idx), NEW m \in Nat, idx + m <= Len(s)
  PROVE  Segment(SubSeq(s, idx + 1, idx + m), s, idx, m)
<1> DEFINE t == SubSeq(s, idx + 1, idx + m)
<1>1. /\ s \in Seq(1..Len(reqs)) /\ NoRepeats(s) /\ idx \in Nat /\ Len(s) \in Nat
      /\ idx <= Len(s) /\ \A k \in (idx + 1)..Len(s) : Pending(reqs[s[k]])
  BY DEF ListOK
<1>2. idx + 1 \in Nat \ {0} /\ idx + m \in Nat
  BY <1>1
<1>3. /\ t \in Seq(1..Len(reqs))
      /\ Len(t) = IF idx + 1 <= idx + m THEN (idx + m) - (idx + 1) + 1 ELSE 0
      /\ Range(t) = {s[k] : k \in (idx + 1)..(idx + m)}
      /\ NoRepeats(t)
  <2>1. PICK a \in Nat \ {0}, b \in Nat : a = idx + 1 /\ b = idx + m
    BY <1>2
  <2>2. a \in Nat \ {0} /\ b \in Nat /\ b <= Len(s)
    BY <2>1
  <2>3. s \in Seq(1..Len(reqs)) /\ NoRepeats(s)
    BY <1>1
  <2>4. /\ SubSeq(s, a, b) \in Seq(1..Len(reqs))
        /\ Len(SubSeq(s, a, b)) = IF a <= b THEN b - a + 1 ELSE 0
    BY ONLY <2>2, <2>3, SubSeqOK
  <2>5. Range(SubSeq(s, a, b)) = {s[i] : i \in a..b}
    BY ONLY <2>2, <2>3, SubSeqOK
  <2>6. NoRepeats(SubSeq(s, a, b))
    BY ONLY <2>2, <2>3, SubSeqOK
  <2> QED
    BY <2>1, <2>4, <2>5, <2>6
<1> HIDE DEF t
<1>4. Len(t) = m
  BY <1>1, <1>3
<1>5. \A y : y \in Range(s) <=> \E k \in 1..Len(s) : s[k] = y
  BY <1>1, RangeOK
<1>6. \A k \in (idx + 1)..(idx + m) : k \in 1..Len(s) /\ k \in (idx + 1)..Len(s)
  BY <1>1
<1>7. \A k \in 1..idx : k \in 1..Len(s)
  BY <1>1
<1>8. Range(t) \subseteq Range(s) /\ Done(s, idx) \subseteq Range(s)
  BY <1>3, <1>5, <1>6, <1>7 DEF Done
<1>9. Range(t) \cap Done(s, idx) = {}
  <2>1. \A k \in (idx + 1)..(idx + m) : \A l \in 1..idx : s[k] # s[l]
    BY <1>1, <1>6, <1>7 DEF NoRepeats
  <2> QED
    BY <1>3, <2>1 DEF Done
<1>10. Done(s, idx + m) = Done(s, idx) \cup Range(t)
  <2>1. 1..(idx + m) = (1..idx) \cup ((idx + 1)..(idx + m))
    BY <1>1
  <2> QED
    BY <1>3, <2>1, Zenon DEF Done
<1>11. \A i \in Range(t) : Pending(reqs[i])
  BY <1>1, <1>3, <1>6
<1> QED
  BY <1>3, <1>4, <1>8, <1>9, <1>10, <1>11 DEF Segment, t

\* A group that continues the two lists up to the indices ri and ni.
Picked(group, ri, ni) ==
  /\ group \in Seq(1..Len(reqs)) /\ NoRepeats(group)
  /\ ri \in ready_idx..Len(ready_reqs) /\ ni \in not_ready_idx..Len(not_ready_reqs)
  /\ Range(group) \cap Range(taken) = {}
  /\ Range(taken) \cup Range(group) = Done(ready_reqs, ri) \cup Done(not_ready_reqs, ni)
  /\ \A k \in 1..Len(group) : Pending(reqs[group[k]])

LEMMA PickedOK ==
  ASSUME LoopInv, pc = "loop", NEW r \in Nat, NEW n \in Nat,
         ready_idx + r <= Len(ready_reqs), not_ready_idx + n <= Len(not_ready_reqs),
         NEW s, Segment(s, ready_reqs, ready_idx, r),
         NEW t, Segment(t, not_ready_reqs, not_ready_idx, n)
  PROVE  /\ Picked(s \o t, ready_idx + r, not_ready_idx + n)
         /\ Len(s \o t) = r + n /\ s \in Seq(1..Len(reqs)) /\ t \in Seq(1..Len(reqs))
         /\ Len(s) = r /\ Len(t) = n
<1>1. /\ ListOK(ready_reqs, ready_idx) /\ ListOK(not_ready_reqs, not_ready_idx)
      /\ Range(ready_reqs) \cap Range(not_ready_reqs) = {}
      /\ Range(taken) = Done(ready_reqs, ready_idx) \cup Done(not_ready_reqs, not_ready_idx)
  BY DEF LoopInv, TakenOK
<1>2. /\ Segment(s, ready_reqs, ready_idx, r)
      /\ Segment(t, not_ready_reqs, not_ready_idx, n)
  OBVIOUS
<1>3. /\ s \in Seq(1..Len(reqs)) /\ t \in Seq(1..Len(reqs)) /\ Len(s) = r /\ Len(t) = n
      /\ NoRepeats(s) /\ NoRepeats(t)
  BY <1>2 DEF Segment
<1>4. Range(s) \cap Range(t) = {}
  BY <1>1, <1>2 DEF Segment
<1>5. /\ s \o t \in Seq(1..Len(reqs)) /\ Len(s \o t) = r + n
      /\ Range(s \o t) = Range(s) \cup Range(t) /\ NoRepeats(s \o t)
  <2>1. Range(s \o t) = Range(s) \cup Range(t) /\ NoRepeats(s \o t)
    BY <1>3, <1>4, RangeOK
  <2>2. s \o t \in Seq(1..Len(reqs)) /\ Len(s \o t) = r + n
    BY <1>3, SMT
  <2> QED
    BY <2>1, <2>2
<1>6. Range(s \o t) \cap Range(taken) = {}
  BY <1>1, <1>2, <1>5 DEF Segment
<1>7. Range(taken) \cup Range(s \o t) =
        Done(ready_reqs, ready_idx + r) \cup Done(not_ready_reqs, not_ready_idx + n)
  BY <1>1, <1>2, <1>5 DEF Segment
<1>8. \A k \in 1..Len(s \o t) : Pending(reqs[(s \o t)[k]])
  <2> DEFINE g == s \o t
  <2>1. g \in Seq(1..Len(reqs)) /\ \A i \in Range(g) : Pending(reqs[i])
    BY <1>2, <1>5 DEF Segment
  <2> HIDE DEF g
  <2>2. \A k \in 1..Len(g) : g[k] \in Range(g)
    BY <2>1, RangeOK
  <2>3. \A k \in 1..Len(g) : Pending(reqs[g[k]])
    BY <2>1, <2>2
  <2> QED
    BY <2>3 DEF g
<1>9. /\ ready_idx + r \in ready_idx..Len(ready_reqs)
      /\ not_ready_idx + n \in not_ready_idx..Len(not_ready_reqs)
  BY <1>1 DEF ListOK
<1> QED
  BY <1>3, <1>5, <1>6, <1>7, <1>8, <1>9 DEF Picked

\* The requests ahead of the indices are not in the group.
LEMMA AheadOfGroup ==
  ASSUME LoopInv, NEW group, NEW ri, NEW ni, Picked(group, ri, ni)
  PROVE  /\ \A k \in (ri + 1)..Len(ready_reqs) : ready_reqs[k] \notin Range(group)
         /\ \A k \in (ni + 1)..Len(not_ready_reqs) : not_ready_reqs[k] \notin Range(group)
<1>1. /\ ready_reqs \in Seq(1..Len(reqs)) /\ not_ready_reqs \in Seq(1..Len(reqs))
      /\ NoRepeats(ready_reqs) /\ NoRepeats(not_ready_reqs)
      /\ ready_idx \in Nat /\ not_ready_idx \in Nat
      /\ Range(ready_reqs) \cap Range(not_ready_reqs) = {}
  BY DEF LoopInv, ListOK
<1>2. /\ ri \in ready_idx..Len(ready_reqs) /\ ni \in not_ready_idx..Len(not_ready_reqs)
      /\ Range(group) \subseteq Done(ready_reqs, ri) \cup Done(not_ready_reqs, ni)
  BY DEF Picked
<1>3. /\ \A y : y \in Range(ready_reqs) <=> \E k \in 1..Len(ready_reqs) : ready_reqs[k] = y
      /\ \A y : y \in Range(not_ready_reqs) <=>
                  \E k \in 1..Len(not_ready_reqs) : not_ready_reqs[k] = y
  BY <1>1, RangeOK
<1>4. /\ \A k \in 1..ri : k \in 1..Len(ready_reqs)
      /\ \A k \in (ri + 1)..Len(ready_reqs) : k \in 1..Len(ready_reqs) /\ k \notin 1..ri
      /\ \A k \in 1..ni : k \in 1..Len(not_ready_reqs)
      /\ \A k \in (ni + 1)..Len(not_ready_reqs) : k \in 1..Len(not_ready_reqs) /\ k \notin 1..ni
  BY <1>1, <1>2
<1>5. Done(ready_reqs, ri) \subseteq Range(ready_reqs) /\ Done(not_ready_reqs, ni) \subseteq Range(not_ready_reqs)
  BY <1>3, <1>4 DEF Done
<1>6. \A k \in (ri + 1)..Len(ready_reqs) : ready_reqs[k] \notin Done(ready_reqs, ri)
  BY <1>1, <1>4, ZenonT(30) DEF Done, NoRepeats
<1>7. \A k \in (ni + 1)..Len(not_ready_reqs) : not_ready_reqs[k] \notin Done(not_ready_reqs, ni)
  BY <1>1, <1>4 DEF Done, NoRepeats
<1> QED
  BY <1>1, <1>2, <1>3, <1>4, <1>5, <1>6, <1>7

-----------------------------------------------------------------------------
(* A pass keeps the invariant of the loops                                 *)

\* The requests of a list after a pass over a group without those ahead.
LEMMA ListKept ==
  ASSUME NEW s, NEW idx, ListOK(s, idx), NEW ri \in idx..Len(s), NEW group, NEW pred,
         NEW new, PassEffect(group, pred, new), group \in Seq(1..Len(reqs)),
         \A k \in (ri + 1)..Len(s) : s[k] \notin Range(group)
  PROVE  /\ s \in Seq(1..Len(new)) /\ ri \in 0..Len(s)
         /\ \A k \in 1..Len(s) : new[s[k]].is_deterministic /\ ~new[s[k]].is_retracted
         /\ \A k \in (ri + 1)..Len(s) : Pending(new[s[k]])
<1>1. /\ s \in Seq(1..Len(reqs)) /\ idx \in 0..Len(s) /\ Len(s) \in Nat
      /\ \A k \in 1..Len(s) : s[k] \in 1..Len(reqs)
      /\ \A k \in 1..Len(s) : reqs[s[k]].is_deterministic /\ ~reqs[s[k]].is_retracted
      /\ \A k \in (idx + 1)..Len(s) : Pending(reqs[s[k]])
  BY DEF ListOK
<1>2. /\ Len(new) = Len(reqs)
      /\ \A i \in 1..Len(reqs) : i \notin Range(group) => new[i] = reqs[i]
  BY DEF PassEffect
<1>3. \A k \in (ri + 1)..Len(s) : k \in 1..Len(s) /\ k \in (idx + 1)..Len(s)
  BY <1>1
<1>4. ASSUME NEW i \in 1..Len(reqs)
      PROVE  /\ new[i].is_deterministic = reqs[i].is_deterministic
             /\ new[i].is_retracted = reqs[i].is_retracted
  <2>1. CASE i \in Range(group)
    <3>1. PICK k \in 1..Len(group) : group[k] = i
      BY <2>1, RangeOK
    <3>2. PICK g \in 1..Unverified(reqs[i]) : Gained(reqs[i], new[i], pred[k], g)
      BY <3>1, Zenon DEF PassEffect
    <3> QED
      BY <3>2, ZenonT(30) DEF Gained
  <2>2. CASE i \notin Range(group)
    BY <1>2, <2>2
  <2> QED
    BY <2>1, <2>2
<1>5. \A k \in 1..Len(s) : new[s[k]].is_deterministic /\ ~new[s[k]].is_retracted
  BY <1>1, <1>4, ZenonT(30)
<1>6. \A k \in (ri + 1)..Len(s) : Pending(new[s[k]])
  BY <1>1, <1>2, <1>3
<1>7. ri \in 0..Len(s)
  BY <1>1
<1> QED
  BY <1>1, <1>2, <1>5, <1>6, <1>7

LEMMA LoopKept ==
  ASSUME LoopInv, pc = "loop", NEW group, NEW win, GroupOK(group, win), NEW d, NEW b, NEW pred,
         Picked(group, ready_idx', not_ready_idx'), Passes(group, win, d, b, pred),
         UNCHANGED <<fixed_pool, ready_reqs, not_ready_reqs>>, Progress'
  PROVE  LoopInv'
<1>1. /\ PassEffect(group, pred, reqs') /\ pc' = "loop" /\ taken' = taken \o group
  BY DEF Passes
<1>2. /\ group \in Seq(1..Len(reqs)) /\ NoRepeats(group)
      /\ ready_idx' \in ready_idx..Len(ready_reqs)
      /\ not_ready_idx' \in not_ready_idx..Len(not_ready_reqs)
      /\ Range(group) \cap Range(taken) = {}
      /\ Range(taken) \cup Range(group) =
           Done(ready_reqs, ready_idx') \cup Done(not_ready_reqs, not_ready_idx')
  BY DEF Picked
<1>3. /\ ListOK(ready_reqs, ready_idx) /\ ListOK(not_ready_reqs, not_ready_idx)
      /\ taken \in Seq(1..Len(reqs)) /\ NoRepeats(taken)
      /\ \A i \in 1..Len(reqs) : RequestOK(reqs[i])
      /\ Range(ready_reqs) \cap Range(not_ready_reqs) = {} /\ fixed_pool \in BOOLEAN
  BY DEF LoopInv, TakenOK
<1>4. /\ \A k \in (ready_idx' + 1)..Len(ready_reqs) : ready_reqs[k] \notin Range(group)
      /\ \A k \in (not_ready_idx' + 1)..Len(not_ready_reqs) :
           not_ready_reqs[k] \notin Range(group)
  BY AheadOfGroup
<1>5. /\ ready_reqs \in Seq(1..Len(reqs')) /\ ready_idx' \in 0..Len(ready_reqs)
      /\ \A k \in 1..Len(ready_reqs) : /\ reqs'[ready_reqs[k]].is_deterministic
                                       /\ ~reqs'[ready_reqs[k]].is_retracted
      /\ \A k \in (ready_idx' + 1)..Len(ready_reqs) : Pending(reqs'[ready_reqs[k]])
  BY <1>1, <1>2, <1>3, <1>4, ListKept, ZenonT(30)
<1>6. /\ not_ready_reqs \in Seq(1..Len(reqs')) /\ not_ready_idx' \in 0..Len(not_ready_reqs)
      /\ \A k \in 1..Len(not_ready_reqs) : /\ reqs'[not_ready_reqs[k]].is_deterministic
                                           /\ ~reqs'[not_ready_reqs[k]].is_retracted
      /\ \A k \in (not_ready_idx' + 1)..Len(not_ready_reqs) : Pending(reqs'[not_ready_reqs[k]])
  BY <1>1, <1>2, <1>3, <1>4, ListKept, ZenonT(30)
<1>7. NoRepeats(ready_reqs) /\ NoRepeats(not_ready_reqs)
  BY <1>3 DEF ListOK
<1>8. ListOK(ready_reqs, ready_idx)' /\ ListOK(not_ready_reqs, not_ready_idx)'
  BY <1>5, <1>6, <1>7, ZenonT(30) DEF ListOK
<1>9. /\ reqs' \in Seq(RequestType) /\ Len(reqs') = Len(reqs)
      /\ \A i \in 1..Len(reqs') : RequestOK(reqs'[i])
  <2>1. reqs' \in Seq(RequestType) /\ Len(reqs') = Len(reqs)
    BY <1>1 DEF PassEffect
  <2>2. ASSUME NEW i \in 1..Len(reqs), i \in Range(group) PROVE RequestOK(reqs'[i])
    <3>1. PICK k \in 1..Len(group) : group[k] = i
      BY <1>2, <2>2, RangeOK
    <3>2. PICK g \in 1..Unverified(reqs[i]) : Gained(reqs[i], reqs'[i], pred[k], g)
      BY <1>1, <3>1, ZenonT(30) DEF PassEffect
    <3> QED
      BY <3>2, ZenonT(30) DEF Gained
  <2>3. ASSUME NEW i \in 1..Len(reqs), i \notin Range(group) PROVE RequestOK(reqs'[i])
    BY <1>1, <1>3, <2>3, ZenonT(30) DEF PassEffect
  <2> QED
    BY <2>1, <2>2, <2>3
<1>10. TakenOK'
  <2>1. taken' \in Seq(1..Len(reqs)) /\ NoRepeats(taken')
        /\ Range(taken') = Range(taken) \cup Range(group)
    BY <1>1, <1>2, <1>3, RangeOK
  <2>2. Range(taken') = Done(ready_reqs', ready_idx') \cup Done(not_ready_reqs', not_ready_idx')
    BY <1>2, <2>1
  <2> QED
    BY <1>9, <2>1, <2>2 DEF TakenOK
<1> QED
  BY <1>1, <1>3, <1>8, <1>9, <1>10 DEF LoopInv

\* The exception leaves the requests, the cache and what was taken as they were.
LEMMA LoopRaised ==
  ASSUME LoopInv, pc = "loop", NEW group, NEW win,
         Picked(group, ready_idx', not_ready_idx'), Raises(group, win),
         UNCHANGED <<fixed_pool, ready_reqs, not_ready_reqs>>
  PROVE  LoopInv'
<1>1. pc' = "raised" /\ reqs' = reqs /\ taken' = taken
  BY DEF Raises
<1>2. /\ ready_idx' \in ready_idx..Len(ready_reqs)
      /\ not_ready_idx' \in not_ready_idx..Len(not_ready_reqs)
      /\ Range(taken) \subseteq Done(ready_reqs, ready_idx') \cup Done(not_ready_reqs, not_ready_idx')
  BY DEF Picked
<1>3. /\ ListOK(ready_reqs, ready_idx) /\ ListOK(not_ready_reqs, not_ready_idx)
      /\ taken \in Seq(1..Len(reqs)) /\ NoRepeats(taken)
      /\ reqs \in Seq(RequestType) /\ \A i \in 1..Len(reqs) : RequestOK(reqs[i])
      /\ Range(ready_reqs) \cap Range(not_ready_reqs) = {} /\ fixed_pool \in BOOLEAN
  BY DEF LoopInv, TakenOK
<1>4. ASSUME NEW s, NEW idx, ListOK(s, idx), NEW ri \in idx..Len(s) PROVE ListOK(s, ri)
  <2>1. idx \in Nat /\ Len(s) \in Nat
    BY <1>4 DEF ListOK
  <2>2. ri \in 0..Len(s) /\ \A k \in (ri + 1)..Len(s) : k \in (idx + 1)..Len(s)
    BY <2>1
  <2> QED
    BY <1>4, <2>2 DEF ListOK
<1>5. ListOK(ready_reqs, ready_idx') /\ ListOK(not_ready_reqs, not_ready_idx')
  BY <1>2, <1>3, <1>4
<1>6. ListOK(ready_reqs, ready_idx)' /\ ListOK(not_ready_reqs, not_ready_idx)'
  BY <1>1, <1>5, Zenon DEF ListOK
<1>7. TakenOK'
  BY <1>1, <1>2, <1>3 DEF TakenOK
<1> QED
  BY <1>1, <1>3, <1>6, <1>7 DEF LoopInv

-----------------------------------------------------------------------------
(* The sizes of the groups                                                 *)

LEMMA ModAdd ==
  ASSUME NEW n \in Nat \ {0}, NEW a \in Nat, a % n = 0
  PROVE  (a + n) % n = 0 /\ \A r \in 0..(n - 1) : (a + r) % n = r
<1>1. a = n * (a \div n) + (a % n) /\ a \div n \in Nat
  OBVIOUS
<1>2. PICK q \in Nat : a = n * q
  BY <1>1
<1>3. a + n = n * (q + 1) /\ q + 1 \in Nat
  BY <1>2
<1>4. PICK p \in Nat : a + n = n * p
  BY <1>3, ZenonT(30)
<1>5. (n * p) % n = 0
  OBVIOUS
<1>6. ASSUME NEW r \in 0..(n - 1) PROVE (a + r) % n = r
  <2> DEFINE s == (a + r) % n
             t == (a + r) \div n
  <2>1. a + r \in Nat
    OBVIOUS
  <2>2. s \in 0..(n - 1) /\ t \in Int /\ a + r = n * t + s
    BY <2>1
  <2> HIDE DEF s, t
  <2>3. n * q + r = n * t + s
    BY <1>2, <2>2
  <2>4. n * (q - t) = s - r /\ q - t \in Int
    BY <2>2, <2>3
  <2>5. CASE q - t >= 1
    <3>1. n * (q - t) >= n
      BY <2>4, <2>5
    <3> QED
      BY <2>2, <2>4, <3>1
  <2>6. CASE q - t <= -1
    <3>1. n * (q - t) <= -n
      BY <2>4, <2>6
    <3> QED
      BY <2>2, <2>4, <3>1
  <2>7. CASE q - t = 0
    <3>1. s - r = 0
      BY <2>4, <2>7
    <3> QED
      BY <2>2, <3>1 DEF s
  <2> QED
    BY <2>4, <2>5, <2>6, <2>7
<1> QED
  BY <1>4, <1>5, <1>6

\* A group of r ready requests and n others leads the loop to a full group or to
\* its end, where the others fill up the group.
GroupSize(r, n) ==
  /\ r \in Nat /\ n \in Nat /\ r + n <= FixedSize
  /\ ready_idx + r <= Len(ready_reqs) /\ not_ready_idx + n <= Len(not_ready_reqs)
  /\ \/ /\ ready_idx + r < Len(ready_reqs) /\ (ready_idx + r) % FixedSize = 0
        /\ not_ready_idx + n = 0
     \/ /\ ready_idx + r = Len(ready_reqs)
        /\ not_ready_idx + n = Min2(Room, Len(not_ready_reqs))

LEMMA FixedGroupSize ==
  ASSUME LoopInv, pc = "loop", fixed_pool, ready_idx < Len(ready_reqs)
  PROVE  LET r == Min2(FixedSize, Len(ready_reqs) - ready_idx)
             n == Min2(FixedSize - r, Len(not_ready_reqs) - not_ready_idx)
         IN  GroupSize(r, n)
<1> DEFINE L == Len(ready_reqs)
           M == Len(not_ready_reqs)
           F == FixedSize
           r == Min2(F, L - ready_idx)
           n == Min2(F - r, M - not_ready_idx)
<1>1. /\ L \in Nat /\ M \in Nat /\ F \in Nat \ {0} /\ ready_idx \in Nat /\ not_ready_idx = 0
      /\ ready_idx < L /\ ready_idx % F = 0
  BY VerifyBatchAssumption DEF LoopInv, ListOK, Progress
<1>2. 0 % F = 0 /\ 0 + F = F /\ \A x \in 0..(F - 1) : 0 + x = x
  BY <1>1
<1>3. Room = (F - (L % F)) % F
  BY DEF Room
<1>4. r = Min2(F, L - ready_idx) /\ n = Min2(F - r, M - not_ready_idx)
  OBVIOUS
<1>goal. SUFFICES /\ r \in Nat /\ n \in Nat /\ r + n <= F
                  /\ ready_idx + r <= L /\ not_ready_idx + n <= M
                  /\ \/ /\ ready_idx + r < L /\ (ready_idx + r) % F = 0
                        /\ not_ready_idx + n = 0
                     \/ ready_idx + r = L /\ not_ready_idx + n = Min2(Room, M)
  BY DEF GroupSize
<1> HIDE DEF L, M, F, r, n
<1>5. CASE F <= L - ready_idx
  <2>1. r = F /\ n = 0
    BY <1>1, <1>4, <1>5 DEF Min2
  <2>2. (ready_idx + F) % F = 0
    BY <1>1, ModAdd, Zenon
  <2>3. ready_idx + F = L => Room = 0
    <3>1. SUFFICES ASSUME ready_idx + F = L PROVE Room = 0
      OBVIOUS
    <3>2. L % F = 0
      BY <2>2, <3>1
    <3>3. F - (L % F) = 0 + F
      BY <1>1, <3>2
    <3>4. (0 + F) % F = 0
      BY <1>1, <1>2, ModAdd
    <3> QED
      BY <1>3, <3>3, <3>4
  <2>4. Min2(0, M) = 0
    BY <1>1 DEF Min2
  <2>5. ready_idx + r <= L /\ not_ready_idx + n = 0 /\ r + n <= F /\ not_ready_idx + n <= M
    BY <1>1, <1>5, <2>1
  <2>6. CASE ready_idx + F = L
    <3>1. Min2(Room, M) = 0
      BY <2>3, <2>4, <2>6
    <3> QED
      BY <1>1, <2>1, <2>5, <2>6, <3>1
  <2>7. CASE ready_idx + F # L
    <3>1. ready_idx + F < L
      BY <1>1, <1>5, <2>7
    <3> QED
      BY <1>1, <2>1, <2>2, <2>5, <3>1
  <2> QED
    BY <2>6, <2>7
<1>6. CASE ~(F <= L - ready_idx)
  <2>1. r = L - ready_idx /\ r \in 0..(F - 1) /\ ready_idx + r = L /\ r \in Nat \ {0}
    BY <1>1, <1>4, <1>6 DEF Min2
  <2>2. L % F = r
    <3>1. (ready_idx + r) % F = r
      BY <1>1, <2>1, ModAdd, ZenonT(30)
    <3> QED
      BY <2>1, <3>1
  <2>3. F - r \in 0..(F - 1)
    BY <1>1, <2>1
  <2>4. Room = F - r
    <3>1. (0 + (F - r)) % F = F - r
      BY <1>1, <1>2, <2>3, ModAdd
    <3>2. 0 + (F - r) = F - r
      BY <1>2, <2>3
    <3> QED
      BY <1>3, <2>2, <3>1, <3>2
  <2>5. n = Min2(F - r, M) /\ n \in Nat /\ n <= F - r /\ n <= M
    <3>1. M - not_ready_idx = M /\ F - r \in Nat /\ n = Min2(F - r, M - not_ready_idx)
      BY <1>1, <1>4, <2>3
    <3> QED
      BY <1>1, <3>1 DEF Min2
  <2>6. r + n <= F /\ not_ready_idx + n = n /\ ready_idx + r <= L
    BY <1>1, <2>1, <2>5
  <2> QED
    BY <1>1, <2>1, <2>4, <2>5, <2>6
<1> QED
  BY <1>5, <1>6

-----------------------------------------------------------------------------
(* What a pass shows                                                       *)

\* With the pool every group and its dummies make up the same shape.
LEMMA ShapeOfPass ==
  ASSUME NEW group, NEW win, GroupOK(group, win), NEW d \in Nat, NEW b, NEW pred,
         Passes(group, win, d, b, pred), fixed_pool, Len(group) + d = FixedSize
  PROVE  /\ b.extend_lens = Repeat(WindowSize, FixedSize)
         /\ Len(b.req_pool_indices) = FixedSize
         /\ Len(b.input_ids) = FixedSize * WindowSize
         /\ Len(b.sampling) = FixedSize * WindowSize
<1> DEFINE n == Len(group)
           lens == Lens(win, n)
           W == WindowSize
           F == FixedSize
<1>1. n \in Nat /\ W \in Nat \ {0} /\ F \in Nat \ {0} /\ lens \in [1..n -> Nat]
  BY GroupFacts, VerifyBatchAssumption
<1>2. \A k \in 1..n : win[k].padded_len = W
  BY DEF GroupOK, WinOK
<1>3. OffsetAfter(lens, n) = n * W
  <2>1. \A k \in 1..n : lens[k] = W
    BY <1>2 DEF Lens
  <2> HIDE DEF lens, n, W
  <2> QED
    BY <1>1, <2>1, OffsetOfEqual
<1>4. /\ Len(b.input_ids) = OffsetAfter(lens, n) + d * W
      /\ Len(b.sampling) = OffsetAfter(lens, n) + d * W
      /\ Len(b.req_pool_indices) = n + d /\ Len(b.extend_lens) = n + d
      /\ \A k \in 1..n : b.extend_lens[k] = win[k].padded_len
      /\ \A k \in (n + 1)..(n + d) : b.extend_lens[k] = W
  BY Zenon DEF Passes, BatchOK
<1>5. n * W + d * W = F * W
  <2>1. n + d = F
    OBVIOUS
  <2> HIDE DEF n, W, F
  <2>2. n * W + d * W = (n + d) * W
    BY <1>1
  <2> QED
    BY <2>1, <2>2
<1>6. b.extend_lens \in Seq(Nat)
  <2> DEFINE own == [k \in 1..n |-> win[k].padded_len]
             rest == Repeat(W, d)
  <2>1. b.extend_lens = own \o rest
    BY Zenon DEF Passes, PrepareVerifyBatch
  <2>2. own \in Seq(Nat)
    <3>1. own \in [1..n -> Nat]
      BY <1>1, <1>2
    <3> HIDE DEF own
    <3> QED
      BY <1>1, <3>1, TupleOK
  <2>3. rest \in Seq(Nat)
    <3>1. WindowSize \in Nat /\ d \in Int
      BY <1>1
    <3> QED
      BY <3>1, RepeatOK, ZenonT(30)
  <2> HIDE DEF own, rest
  <2> QED
    BY <2>1, <2>2, <2>3
<1>7. b.extend_lens = Repeat(W, F)
  <2>1. /\ Repeat(W, F) \in Seq(Nat) /\ Len(Repeat(W, F)) = F
        /\ \A k \in 1..F : Repeat(W, F)[k] = W
    <3>1. WindowSize \in Nat /\ FixedSize \in Int /\ FixedSize > 0
      BY <1>1
    <3> QED
      BY <3>1, RepeatOK, ZenonT(30)
  <2>2. n + d = F
    OBVIOUS
  <2> HIDE DEF W, F, n
  <2>3. \A k \in 1..F : b.extend_lens[k] = W
    <3> TAKE k \in 1..F
    <3>1. CASE k <= n
      <4>1. k \in 1..n
        BY <1>1, <3>1
      <4> QED
        BY <1>2, <1>4, <4>1
    <3>2. CASE k > n
      <4>1. k \in (n + 1)..(n + d)
        BY <1>1, <2>2, <3>2
      <4> QED
        BY <1>4, <4>1
    <3> QED
      BY <1>1, <3>1, <3>2
  <2>4. Len(b.extend_lens) = F
    BY <1>4, <2>2
  <2> DEFINE s == b.extend_lens
             t == Repeat(W, F)
  <2>5. /\ s \in Seq(Nat) /\ t \in Seq(Nat) /\ Len(s) = Len(t)
        /\ \A k \in 1..Len(s) : s[k] = t[k]
    BY <1>6, <2>1, <2>3, <2>4
  <2> HIDE DEF s, t
  <2>6. s = t
    BY <2>5, SameList
  <2> QED
    BY <2>6 DEF s, t
<1> QED
  BY <1>3, <1>4, <1>5, <1>7

LEMMA ShapeKept ==
  ASSUME NEW group, NEW win, GroupOK(group, win), NEW d \in Nat, NEW b, NEW pred,
         Passes(group, win, d, b, pred), fixed_pool => Len(group) + d = FixedSize,
         fixed_pool' = fixed_pool
  PROVE  FixedShape'
<1>1. pass'.batch = b
  BY DEF Passes
<1> SUFFICES ASSUME fixed_pool
             PROVE  /\ b.extend_lens = Repeat(WindowSize, FixedSize)
                    /\ Len(b.req_pool_indices) = FixedSize
                    /\ Len(b.input_ids) = FixedSize * WindowSize
                    /\ Len(b.sampling) = FixedSize * WindowSize
  BY <1>1 DEF FixedShape, Repeat
<1> QED
  BY ShapeOfPass

LEMMA ContextsKept ==
  ASSUME NEW group, NEW win, GroupOK(group, win), NEW d \in Nat, NEW b, NEW pred,
         Passes(group, win, d, b, pred), CacheInv
  PROVE  ContextsAreOwn'
<1> DEFINE rows == [k \in 1..Len(group) |->
                      [j \in 1..win[k].actual_len |-> Attends(b, k, ComparedRows(win, k)[j])]]
<1>1. pass'.attended = rows /\ pass'.group = group /\ pass'.before = reqs
  BY DEF Passes
<1>2. /\ Whole(group, win) /\ BatchOK(group, win, d, b)
      /\ b.out_cache_loc \in Seq(Loc) /\ b.input_ids \in Seq(Input)
  BY DEF Passes
<1>3. ASSUME NEW k \in 1..Len(group), NEW j \in 1..win[k].actual_len
      PROVE  OwnRow(Attends(b, k, ComparedRows(win, k)[j]), group[k], reqs[group[k]], j)
  <2>1. /\ GroupOK(group, win) /\ d \in Nat /\ CacheInv
        /\ k \in 1..Len(group) /\ j \in 1..win[k].actual_len
    BY <1>3
  <2> QED
    BY ONLY <1>2, <2>1, AttendsOwn
<1>4. ASSUME NEW k \in DOMAIN rows, NEW j \in DOMAIN rows[k]
      PROVE  OwnRow(rows[k][j], group[k], reqs[group[k]], j)
  <2>1. k \in 1..Len(group) /\ j \in 1..win[k].actual_len
    OBVIOUS
  <2>2. rows[k][j] = Attends(b, k, ComparedRows(win, k)[j])
    BY <2>1
  <2> HIDE DEF rows
  <2> QED
    BY <1>3, <2>1, <2>2, Zenon
<1> HIDE DEF rows
<1>5. \A k \in DOMAIN pass'.attended : \A j \in DOMAIN pass'.attended[k] :
        OwnRow(pass'.attended[k][j], pass'.group[k], pass'.before[pass'.group[k]], j)
  BY ONLY <1>1, <1>4, Zenon
<1> QED
  BY ONLY <1>5, Zenon DEF OwnRow, ContextsAreOwn, ContextIdx, TokenAt

\* A list is its own first Len(s) elements.
LEMMA WholeList ==
  ASSUME NEW X, NEW s \in Seq(X)
  PROVE  SubSeq(s, 1, Len(s)) = s
<1> DEFINE t == SubSeq(s, 1, Len(s))
<1>1. Len(s) \in Nat
  OBVIOUS
<1>2. /\ t \in Seq(X) /\ Len(t) = IF 1 <= Len(s) THEN Len(s) - 1 + 1 ELSE 0
      /\ \A j \in 1..Len(t) : t[j] = s[1 + j - 1]
  BY <1>1, SubSeqOK
<1> HIDE DEF t
<1>3. Len(t) = Len(s) /\ \A j \in 1..Len(t) : t[j] = s[j]
  BY <1>1, <1>2
<1>4. t = s
  BY <1>2, <1>3, SameList
<1> QED
  BY <1>4 DEF t

LEMMA GainsKept ==
  ASSUME NEW group, NEW win, GroupOK(group, win), NEW d \in Nat, NEW b, NEW pred,
         Passes(group, win, d, b, pred)
  PROVE  GainsVerifierTokens'
<1>1. pass'.predicted = pred /\ pass'.group = group /\ pass'.before = reqs
  BY DEF Passes
<1>2. DOMAIN pred = 1..Len(group) /\ PassEffect(group, pred, reqs')
  BY ZenonT(30) DEF Passes, PredOf
<1>3. ASSUME NEW k \in 1..Len(group), NEW i, i = group[k]
      PROVE  LET old == reqs[i].verified
                 new == reqs'[i].verified
             IN  /\ old < new /\ new <= Len(reqs'[i].output_ids)
                 /\ SubSeq(reqs'[i].output_ids, 1, new) =
                      SubSeq(reqs[i].output_ids, 1, old) \o SubSeq(pred[k], 1, new - old)
  <2> DEFINE q == reqs[i]
             r == reqs'[i]
             v == q.verified
  <2>1. Pending(q)
    BY <1>3 DEF GroupOK
  <2>2. PICK g \in 1..Unverified(q) : Gained(q, r, pred[k], g)
    BY <1>2, <1>3 DEF PassEffect
  <2>3. /\ r.verified = v + g /\ Len(r.output_ids) = v + g
        /\ r.output_ids = SubSeq(q.output_ids, 1, v) \o SubSeq(pred[k], 1, g)
        /\ r.output_ids \in Seq(Token)
    BY <2>2, ZenonT(30) DEF Gained, RequestOK, RequestType
  <2>4. v \in Nat /\ g \in Nat \ {0}
    BY <2>1, UnverifiedOK
  <2>5. SubSeq(r.output_ids, 1, v + g) = r.output_ids
    BY <2>3, WholeList, ZenonT(30)
  <2> HIDE DEF q, r, v
  <2>6. v < v + g /\ (v + g) - v = g
    BY <2>4
  <2>7. /\ v < r.verified /\ r.verified <= Len(r.output_ids)
        /\ SubSeq(r.output_ids, 1, r.verified) =
             SubSeq(q.output_ids, 1, v) \o SubSeq(pred[k], 1, r.verified - v)
    <3>1. r.verified - v = g
      BY <2>3, <2>6
    <3>2. r.verified <= Len(r.output_ids) /\ v < r.verified
      BY <2>3, <2>4
    <3> QED
      BY <2>3, <2>5, <3>1, <3>2, ZenonT(30)
  <2> QED
    BY <2>7, ZenonT(30) DEF q, r, v
<1> QED
  BY <1>1, <1>2, <1>3, ZenonT(30) DEF GainsVerifierTokens

LEMMA OverrunKept ==
  ASSUME NEW group, NEW win, GroupOK(group, win), pc = "loop", fixed_pool' = fixed_pool,
         Raises(group, win) \/ \E d, b, pred : Passes(group, win, d, b, pred)
  PROVE  RaisesOnOverrun'
<1>1. /\ pass'.group = group /\ pass'.before = reqs
      /\ pc' = "raised" <=> ~Whole(group, win)
  <2>1. CASE Raises(group, win)
    BY <2>1 DEF Raises, NoPass
  <2>2. ASSUME NEW d, NEW b, NEW pred, Passes(group, win, d, b, pred)
        PROVE  /\ pass'.group = group /\ pass'.before = reqs
               /\ pc' = "raised" <=> ~Whole(group, win)
    BY <2>2, ZenonT(30) DEF Passes
  <2> QED
    BY <2>1, <2>2
<1>2. \A i : i \in Range(group) <=> \E k \in 1..Len(group) : group[k] = i
  <2>1. group \in Seq(1..Len(reqs))
    BY DEF GroupOK
  <2> QED
    BY <2>1, RangeOK
<1>3. \A k \in 1..Len(group) : Unverified(reqs[group[k]]) > win[k].padded_len <=>
                                 fixed_pool /\ Unverified(reqs[group[k]]) > WindowSize
  BY DEF GroupOK, WinOK
<1>4. ~Whole(group, win) <=>
        fixed_pool /\ \E i \in Range(group) : Unverified(reqs[i]) > WindowSize
  BY <1>2, <1>3 DEF Whole
<1> QED
  BY <1>1, <1>4 DEF RaisesOnOverrun, Unverified

-----------------------------------------------------------------------------
(* The invariant of the call                                               *)

PassInv == FixedShape /\ ContextsAreOwn /\ GainsVerifierTokens /\ RaisesOnOverrun

CallInv == LoopInv /\ CacheInv /\ PassInv

\* One iteration of either loop.
LEMMA GroupStep ==
  ASSUME CallInv, pc = "loop", NEW group, NEW win, GroupOK(group, win), NEW d \in Nat,
         RunVerification(group, win, d), Picked(group, ready_idx', not_ready_idx'),
         UNCHANGED <<fixed_pool, ready_reqs, not_ready_reqs>>, Progress',
         fixed_pool => Len(group) + d = FixedSize
  PROVE  CallInv'
<1>1. Raises(group, win) \/ \E b, pred : Passes(group, win, d, b, pred)
  BY RunVerificationOK
<1>2. LoopInv /\ CacheInv
  BY DEF CallInv
<1>3. RaisesOnOverrun'
  BY <1>1, OverrunKept
<1>4. CASE Raises(group, win)
  <2>1. LoopInv'
    BY <1>2, <1>4, LoopRaised
  <2>2. CacheInv'
    BY <1>2, <1>4, ZenonT(30) DEF Raises, CacheInv, KVSlot, CurrentSeqLen, TokenAt, ContextIdx
  <2>3. pass'.batch = <<>> /\ pass'.attended = <<>> /\ pass'.predicted = <<>>
    BY <1>4 DEF Raises, NoPass
  <2>4. FixedShape'
    BY <2>3 DEF FixedShape
  <2>5. ContextsAreOwn'
    BY <2>3 DEF ContextsAreOwn
  <2>6. GainsVerifierTokens'
    <3>1. DOMAIN pass'.predicted = {}
      BY <2>3
    <3> QED
      BY <3>1, Zenon DEF GainsVerifierTokens
  <2> QED
    BY <1>3, <2>1, <2>2, <2>4, <2>5, <2>6 DEF CallInv, PassInv
<1>5. ASSUME NEW b, NEW pred, Passes(group, win, d, b, pred) PROVE CallInv'
  <2>1. LoopInv'
    BY <1>2, <1>5, LoopKept
  <2>2. CacheInv'
    <3>1. /\ Whole(group, win) /\ BatchOK(group, win, d, b)
          /\ b.out_cache_loc \in Seq(Loc) /\ b.input_ids \in Seq(Input)
          /\ PassEffect(group, pred, reqs') /\ kv' = Written(b) /\ taken' = taken \o group
      BY <1>5 DEF Passes
    <3>2. taken \in Seq(1..Len(reqs)) /\ \A i \in 1..Len(reqs) : RequestOK(reqs[i])
      BY <1>2 DEF LoopInv, TakenOK
    <3> QED
      BY <1>2, <3>1, <3>2, CacheKept, ZenonT(30)
  <2>3. FixedShape'
    BY <1>5, ShapeKept
  <2>4. ContextsAreOwn'
    BY <1>2, <1>5, ContextsKept
  <2>5. GainsVerifierTokens'
    BY <1>5, GainsKept
  <2> QED
    BY <1>3, <2>1, <2>2, <2>3, <2>4, <2>5 DEF CallInv, PassInv
<1> QED
  BY <1>1, <1>4, <1>5

\* A group of the fixed size.
LEMMA FixedBatchStep ==
  ASSUME CallInv, VerifyFixedBatch
  PROVE  CallInv'
<1> DEFINE r == Min2(FixedSize, Len(ready_reqs) - ready_idx)
           n == Min2(FixedSize - r, Len(not_ready_reqs) - not_ready_idx)
           s == SubSeq(ready_reqs, ready_idx + 1, ready_idx + r)
           t == SubSeq(not_ready_reqs, not_ready_idx + 1, not_ready_idx + n)
           group == s \o t
           win == [k \in 1..Len(group) |-> WindowOf(reqs[group[k]])]
           d == FixedSize - Len(group)
<1>1. /\ pc = "loop" /\ fixed_pool /\ ready_idx < Len(ready_reqs)
      /\ ready_idx' = ready_idx + r /\ not_ready_idx' = not_ready_idx + n
      /\ RunVerification(group, win, d)
      /\ UNCHANGED <<fixed_pool, ready_reqs, not_ready_reqs>>
  BY Zenon DEF VerifyFixedBatch
<1> HIDE DEF s, t, group, win, d
<1>2. LoopInv
  BY DEF CallInv
<1>3. GroupSize(r, n)
  BY <1>1, <1>2, FixedGroupSize, ZenonT(30)
<1> HIDE DEF r, n
<1>4. /\ r \in Nat /\ n \in Nat /\ r + n <= FixedSize
      /\ ready_idx + r <= Len(ready_reqs) /\ not_ready_idx + n <= Len(not_ready_reqs)
  BY <1>3 DEF GroupSize
<1>5. /\ Segment(s, ready_reqs, ready_idx, r)
      /\ Segment(t, not_ready_reqs, not_ready_idx, n)
  <2>1. ListOK(ready_reqs, ready_idx) /\ ListOK(not_ready_reqs, not_ready_idx)
    BY <1>2 DEF LoopInv
  <2> QED
    BY <1>4, <2>1, SegmentOK DEF s, t
<1>6. Picked(group, ready_idx + r, not_ready_idx + n) /\ Len(group) = r + n
  <2>1. /\ LoopInv /\ pc = "loop" /\ r \in Nat /\ n \in Nat
        /\ ready_idx + r <= Len(ready_reqs) /\ not_ready_idx + n <= Len(not_ready_reqs)
    BY <1>1, <1>2, <1>4
  <2>2. Picked(s \o t, ready_idx + r, not_ready_idx + n) /\ Len(s \o t) = r + n
    BY ONLY <1>5, <2>1, PickedOK
  <2> QED
    BY <2>2 DEF group
<1>7. GroupOK(group, win)
  <2>1. /\ group \in Seq(1..Len(reqs)) /\ NoRepeats(group)
        /\ \A k \in 1..Len(group) : Pending(reqs[group[k]])
    BY <1>6 DEF Picked
  <2>2. reqs \in Seq(RequestType) /\ fixed_pool \in BOOLEAN
    BY <1>2 DEF LoopInv
  <2>3. \A k \in 1..Len(group) : WinOK(reqs[group[k]], win[k])
    BY <2>1, <2>2, WindowOK, ZenonT(30) DEF win
  <2>4. win = [k \in 1..Len(group) |-> win[k]]
    BY DEF win
  <2> QED
    BY ONLY <2>1, <2>2, <2>3, <2>4 DEF GroupOK
<1>8. d \in Nat /\ Len(group) + d = FixedSize
  BY <1>4, <1>6, VerifyBatchAssumption DEF d
<1>9. Progress'
  BY <1>1, <1>3 DEF GroupSize, Progress, Room
<1> QED
  BY <1>1, <1>6, <1>7, <1>8, <1>9, GroupStep

\* A chunk of ready requests, padded or not.
LEMMA ChunkStep ==
  ASSUME CallInv, VerifyChunk
  PROVE  CallInv'
<1> DEFINE s == SubSeq(ready_reqs, ready_idx + 1,
                       Min2(ready_idx + FixedSize, Len(ready_reqs)))
           padded == [k \in 1..Len(s) |-> WindowOf(reqs[s[k]])]
           unpadded == [k \in 1..Len(s) |->
                          [padded[k] EXCEPT !.padded_len = padded[k].actual_len]]
           r == Min2(FixedSize, Len(ready_reqs) - ready_idx)
           t == SubSeq(not_ready_reqs, not_ready_idx + 1, not_ready_idx + 0)
<1>1. /\ pc = "loop" /\ ~fixed_pool /\ ready_idx < Len(ready_reqs)
      /\ ready_idx' = ready_idx + Len(s)
      /\ \E win \in {padded, unpadded} : RunVerification(s, win, 0)
      /\ UNCHANGED <<fixed_pool, ready_reqs, not_ready_reqs, not_ready_idx>>
  BY ZenonT(30) DEF VerifyChunk
<1> HIDE DEF s, padded, unpadded, r, t
<1>2. LoopInv
  BY DEF CallInv
<1>3. /\ ListOK(ready_reqs, ready_idx) /\ ListOK(not_ready_reqs, not_ready_idx)
      /\ ready_idx \in Nat /\ Len(ready_reqs) \in Nat /\ FixedSize \in Nat \ {0}
      /\ ready_idx <= Len(ready_reqs)
      /\ not_ready_idx \in Nat /\ not_ready_idx <= Len(not_ready_reqs)
      /\ Len(not_ready_reqs) \in Nat /\ not_ready_idx = 0
  <2>1. ListOK(ready_reqs, ready_idx) /\ ListOK(not_ready_reqs, not_ready_idx) /\ Progress
    BY <1>1, <1>2, ZenonT(30) DEF LoopInv
  <2>2. /\ ready_idx \in 0..Len(ready_reqs) /\ Len(ready_reqs) \in Nat
        /\ not_ready_idx \in 0..Len(not_ready_reqs) /\ Len(not_ready_reqs) \in Nat
    BY <2>1 DEF ListOK
  <2>3. not_ready_idx = 0
    BY <1>1, <2>1, ZenonT(30) DEF Progress
  <2> QED
    BY <2>1, <2>2, <2>3, VerifyBatchAssumption
<1>4. /\ r \in Nat /\ ready_idx + r <= Len(ready_reqs)
      /\ Min2(ready_idx + FixedSize, Len(ready_reqs)) = ready_idx + r
  <2>1. /\ ready_idx \in Nat /\ Len(ready_reqs) \in Nat /\ FixedSize \in Nat
        /\ ready_idx <= Len(ready_reqs)
    BY ONLY <1>3
  <2>2. r = IF FixedSize <= Len(ready_reqs) - ready_idx
            THEN FixedSize ELSE Len(ready_reqs) - ready_idx
    BY DEF Min2, r
  <2> QED
    BY ONLY <2>1, <2>2 DEF Min2
<1>5. s = SubSeq(ready_reqs, ready_idx + 1, ready_idx + r)
  BY <1>4, Zenon DEF s
<1>6. Segment(s, ready_reqs, ready_idx, r) /\ Segment(t, not_ready_reqs, not_ready_idx, 0)
  <2>1. not_ready_idx + 0 <= Len(not_ready_reqs) /\ 0 \in Nat
    BY <1>3
  <2>2. Segment(t, not_ready_reqs, not_ready_idx, 0)
    BY ONLY <1>3, <2>1, SegmentOK DEF t
  <2>3. Segment(SubSeq(ready_reqs, ready_idx + 1, ready_idx + r), ready_reqs, ready_idx, r)
    BY ONLY <1>3, <1>4, SegmentOK
  <2> QED
    BY <1>5, <2>2, <2>3, Zenon
<1>7. /\ Picked(s \o t, ready_idx + r, not_ready_idx + 0)
      /\ s \in Seq(1..Len(reqs)) /\ t \in Seq(1..Len(reqs)) /\ Len(s) = r /\ Len(t) = 0
  <2>1. not_ready_idx + 0 <= Len(not_ready_reqs) /\ 0 \in Nat
    BY <1>3
  <2> QED
    BY ONLY <1>1, <1>2, <1>4, <1>6, <2>1, PickedOK
<1>8. Picked(s, ready_idx', not_ready_idx')
  <2>1. s \o t = s
    BY <1>7
  <2>2. not_ready_idx + 0 = not_ready_idx'
    BY <1>1, <1>3
  <2> QED
    BY <1>1, <1>7, <2>1, <2>2
<1>9. /\ s \in Seq(1..Len(reqs)) /\ NoRepeats(s)
      /\ \A k \in 1..Len(s) : Pending(reqs[s[k]])
      /\ reqs \in Seq(RequestType) /\ fixed_pool \in BOOLEAN
  BY <1>2, <1>8 DEF Picked, LoopInv
<1>10. GroupOK(s, padded) /\ GroupOK(s, unpadded)
  <2>1. ASSUME NEW k \in 1..Len(s)
        PROVE  WinOK(reqs[s[k]], padded[k]) /\ WinOK(reqs[s[k]], unpadded[k])
    <3> DEFINE q == reqs[s[k]]
    <3>1. /\ WinOK(q, WindowOf(q))
          /\ WinOK(q, [WindowOf(q) EXCEPT !.padded_len = WindowOf(q).actual_len])
      BY <1>1, <1>9, WindowOK
    <3> QED
      BY <3>1 DEF padded, unpadded
  <2>2. /\ padded = [k \in 1..Len(s) |-> padded[k]]
        /\ unpadded = [k \in 1..Len(s) |-> unpadded[k]]
    BY DEF padded, unpadded
  <2> QED
    BY ONLY <1>9, <2>1, <2>2 DEF GroupOK
<1>11. PICK win \in {padded, unpadded} : RunVerification(s, win, 0)
  BY <1>1
<1>12. Progress'
  BY <1>1, <1>3 DEF Progress
<1>13. GroupOK(s, win) /\ 0 \in Nat
  BY <1>10, <1>11
<1> QED
  BY <1>1, <1>8, <1>11, <1>12, <1>13, GroupStep

\* The two lists that the call begins with.
LEMMA IndicesOK ==
  ASSUME reqs \in Seq(RequestType), NEW I \in SUBSET (1..Len(reqs))
  PROVE  Indices(I) \in Seq(1..Len(reqs)) /\ NoRepeats(Indices(I)) /\ Range(Indices(I)) = I
<1> DEFINE all == [i \in 1..Len(reqs) |-> i]
<1>1. Len(reqs) \in Nat
  OBVIOUS
<1>2. all \in [1..Len(reqs) -> 1..Len(reqs)] /\ \A i \in 1..Len(reqs) : all[i] = i
  OBVIOUS
<1>3. Indices(I) = Filtered(all, I)
  BY DEF Indices
<1> HIDE DEF all
<1>4. all \in Seq(1..Len(reqs)) /\ Len(all) = Len(reqs)
  BY <1>1, <1>2, TupleOK
<1>5. NoRepeats(all)
  BY <1>2, <1>4 DEF NoRepeats
<1>6. Range(all) = 1..Len(reqs)
  <2>1. \A x : x \in Range(all) <=> \E j \in 1..Len(all) : all[j] = x
    BY <1>4, RangeOK
  <2> QED
    BY <1>2, <1>4, <2>1, ZenonT(30)
<1>7. /\ Filtered(all, I) \in Seq(1..Len(reqs)) /\ NoRepeats(Filtered(all, I))
      /\ Range(Filtered(all, I)) = Range(all) \cap I
  BY <1>4, <1>5, FilteredOK
<1> QED
  BY <1>3, <1>6, <1>7, Zenon

LEMMA ListStart ==
  ASSUME LoopInv, NEW I \in SUBSET {i \in 1..Len(reqs) : IsCandidate(reqs[i])}
  PROVE  ListOK(Indices(I), 0) /\ Range(Indices(I)) = I
<1> DEFINE s == Indices(I)
<1>1. reqs \in Seq(RequestType) /\ \A i \in 1..Len(reqs) : RequestOK(reqs[i])
  BY DEF LoopInv
<1>2. s \in Seq(1..Len(reqs)) /\ NoRepeats(s) /\ Range(s) = I
  BY <1>1, IndicesOK
<1> HIDE DEF s
<1>3. \A k \in 1..Len(s) : s[k] \in I
  BY ONLY <1>2, RangeOK
<1>4. \A i \in I : /\ reqs[i].is_deterministic /\ ~reqs[i].is_retracted
                   /\ Pending(reqs[i])
  BY <1>1 DEF IsCandidate, Pending
<1>5. 0 \in 0..Len(s)
  BY <1>2
<1>6. \A k \in (0 + 1)..Len(s) : k \in 1..Len(s)
  BY <1>2
<1> QED
  BY <1>2, <1>3, <1>4, <1>5, <1>6 DEF ListOK, s

LEMMA CollectStep ==
  ASSUME CallInv, Collect
  PROVE  CallInv'
<1> DEFINE A == {i \in DOMAIN reqs : IsCandidate(reqs[i]) /\ IsReady(reqs[i])}
           B == {i \in DOMAIN reqs : IsCandidate(reqs[i]) /\ ~IsReady(reqs[i])}
<1>1. /\ pc = "collect" /\ ready_reqs' = Indices(A) /\ not_ready_reqs' = Indices(B)
      /\ pc' = IF ready_reqs' = <<>> THEN "returned" ELSE "loop"
      /\ UNCHANGED <<fixed_pool, reqs, kv, ready_idx, not_ready_idx, pass, taken>>
  BY DEF Collect
<1> HIDE DEF A, B
<1>2. LoopInv /\ CacheInv /\ PassInv
  BY DEF CallInv
<1>3. /\ reqs \in Seq(RequestType) /\ \A i \in 1..Len(reqs) : RequestOK(reqs[i])
      /\ ready_reqs = <<>> /\ not_ready_reqs = <<>> /\ pass = NoPass /\ taken = <<>>
      /\ fixed_pool \in BOOLEAN
      /\ ListOK(ready_reqs, ready_idx) /\ ListOK(not_ready_reqs, not_ready_idx)
  BY ONLY <1>1, <1>2 DEF LoopInv
<1>4. ready_idx = 0 /\ not_ready_idx = 0
  BY <1>3 DEF ListOK
<1>5. /\ A \in SUBSET {i \in 1..Len(reqs) : IsCandidate(reqs[i])}
      /\ B \in SUBSET {i \in 1..Len(reqs) : IsCandidate(reqs[i])}
      /\ A \cap B = {}
  BY <1>3 DEF A, B
<1>6. /\ ListOK(ready_reqs', 0) /\ ListOK(not_ready_reqs', 0)
      /\ Range(ready_reqs') = A /\ Range(not_ready_reqs') = B
  <2>1. ListOK(Indices(A), 0) /\ Range(Indices(A)) = A
    BY ONLY <1>2, <1>5, ListStart
  <2>2. ListOK(Indices(B), 0) /\ Range(Indices(B)) = B
    BY ONLY <1>2, <1>5, ListStart
  <2> QED
    BY <1>1, <2>1, <2>2
<1>7. ListOK(ready_reqs, ready_idx)' /\ ListOK(not_ready_reqs, not_ready_idx)'
  BY <1>1, <1>4, <1>6 DEF ListOK
<1>8. TakenOK'
  <2>1. Done(ready_reqs', 0) = {} /\ Done(not_ready_reqs', 0) = {}
    BY DEF Done
  <2>2. taken' = <<>> /\ Range(<<>>) = {} /\ NoRepeats(<<>>)
    BY <1>1, <1>3 DEF Range, NoRepeats
  <2> QED
    BY <1>1, <1>4, <2>1, <2>2 DEF TakenOK
<1>9. /\ Len(ready_reqs') \in Nat /\ Len(not_ready_reqs') \in Nat
      /\ ready_reqs' = <<>> <=> Len(ready_reqs') = 0
  BY <1>6 DEF ListOK
<1>10. Progress'
  <2>1. FixedSize \in Nat \ {0} /\ 0 % FixedSize = 0 /\ FixedSize - 0 = 0 + FixedSize
    BY VerifyBatchAssumption
  <2>2. (0 + FixedSize) % FixedSize = 0
    BY <2>1, ModAdd
  <2>3. CASE Len(ready_reqs') = 0
    <3>1. Room' = 0
      BY <2>1, <2>2, <2>3 DEF Room
    <3>2. Min2(0, Len(not_ready_reqs')) = 0
      BY <1>9 DEF Min2
    <3> QED
      BY <1>1, <1>4, <2>3, <3>1, <3>2 DEF Progress
  <2>4. CASE Len(ready_reqs') # 0
    <3>1. 0 < Len(ready_reqs')
      BY <1>9, <2>4
    <3> QED
      BY <1>1, <1>4, <2>1, <3>1 DEF Progress
  <2> QED
    BY <2>3, <2>4
<1>11. LoopInv'
  <2>1. pc' \in {"returned", "loop"} /\ (pc' = "returned" => ready_idx' = Len(ready_reqs'))
    BY <1>1, <1>4, <1>9
  <2>2. Range(ready_reqs') \cap Range(not_ready_reqs') = {}
    BY <1>5, <1>6
  <2> QED
    BY <1>1, <1>3, <1>7, <1>8, <1>10, <2>1, <2>2 DEF LoopInv
<1>12. CacheInv'
  BY <1>1, <1>2, ZenonT(30) DEF CacheInv, KVSlot, CurrentSeqLen, TokenAt, ContextIdx
<1>13. PassInv'
  <2>0. /\ pass' = pass /\ pass.batch = <<>> /\ DOMAIN pass.attended = {}
        /\ DOMAIN pass.predicted = {} /\ Range(pass.group) = {}
    BY <1>1, <1>3 DEF NoPass, Range
  <2>1. FixedShape' /\ ContextsAreOwn' /\ GainsVerifierTokens'
    BY <2>0 DEF FixedShape, ContextsAreOwn, GainsVerifierTokens
  <2>2. Range(pass'.group) = {} /\ pc' # "raised"
    BY <1>1, <2>0
  <2>3. RaisesOnOverrun'
    BY <2>2 DEF RaisesOnOverrun
  <2> QED
    BY <2>1, <2>3 DEF PassInv
<1> QED
  BY <1>11, <1>12, <1>13 DEF CallInv

\* Leaving the loop, and a step that changes nothing.
LEMMA ReturnStep ==
  ASSUME CallInv, Return
  PROVE  CallInv'
<1>1. /\ pc = "loop" /\ ready_idx >= Len(ready_reqs) /\ pc' = "returned"
      /\ fixed_pool' = fixed_pool /\ reqs' = reqs /\ kv' = kv
      /\ ready_reqs' = ready_reqs /\ not_ready_reqs' = not_ready_reqs
      /\ ready_idx' = ready_idx /\ not_ready_idx' = not_ready_idx
      /\ pass' = pass /\ taken' = taken
  BY DEF Return
<1>2. LoopInv /\ CacheInv /\ PassInv
  BY DEF CallInv
<1>3. ready_idx = Len(ready_reqs)
  <2>1. ListOK(ready_reqs, ready_idx)
    BY <1>2 DEF LoopInv
  <2>2. ready_idx \in 0..Len(ready_reqs) /\ Len(ready_reqs) \in Nat
    BY <2>1 DEF ListOK
  <2> QED
    BY <1>1, <2>2
<1>4. LoopInv'
  <2>1. Progress' /\ TakenOK'
    BY <1>1, <1>2, ZenonT(30) DEF LoopInv, Progress, Room, TakenOK, Done
  <2>2. ListOK(ready_reqs, ready_idx)' /\ ListOK(not_ready_reqs, not_ready_idx)'
    BY <1>1, <1>2, ZenonT(30) DEF LoopInv, ListOK
  <2> QED
    BY <1>1, <1>2, <1>3, <2>1, <2>2 DEF LoopInv
<1>5. CacheInv'
  BY <1>1, <1>2 DEF CacheInv
<1>6. PassInv'
  <2>1. FixedShape' /\ GainsVerifierTokens'
    BY <1>1, <1>2, ZenonT(30) DEF PassInv, FixedShape, GainsVerifierTokens
  <2>3. ContextsAreOwn'
    <3>1. ContextsAreOwn /\ pass' = pass
      BY <1>1, <1>2 DEF PassInv
    <3> QED
      BY ONLY <3>1, ZenonT(30) DEF ContextsAreOwn
  <2>2. RaisesOnOverrun'
    BY <1>1, <1>2 DEF PassInv, RaisesOnOverrun
  <2> QED
    BY <2>1, <2>2, <2>3 DEF PassInv
<1> QED
  BY <1>4, <1>5, <1>6 DEF CallInv

LEMMA NoStep ==
  ASSUME CallInv, UNCHANGED vars
  PROVE  CallInv'
<1>1. /\ pc' = pc /\ fixed_pool' = fixed_pool /\ reqs' = reqs /\ kv' = kv
      /\ ready_reqs' = ready_reqs /\ not_ready_reqs' = not_ready_reqs
      /\ ready_idx' = ready_idx /\ not_ready_idx' = not_ready_idx
      /\ pass' = pass /\ taken' = taken
  BY DEF vars
<1>2. LoopInv /\ CacheInv /\ PassInv
  BY DEF CallInv
<1>3. LoopInv'
  BY <1>1, <1>2, ZenonT(30) DEF LoopInv, Progress, Room, TakenOK, Done, ListOK
<1>4. CacheInv'
  BY <1>1, <1>2 DEF CacheInv
<1>5. PassInv'
  <2>1. FixedShape' /\ GainsVerifierTokens'
    BY <1>1, <1>2, ZenonT(30) DEF PassInv, FixedShape, GainsVerifierTokens
  <2>3. ContextsAreOwn'
    <3>1. ContextsAreOwn /\ pass' = pass
      BY <1>1, <1>2 DEF PassInv
    <3> QED
      BY ONLY <3>1 DEF ContextsAreOwn
  <2>2. RaisesOnOverrun'
    BY <1>1, <1>2 DEF PassInv, RaisesOnOverrun
  <2> QED
    BY <2>1, <2>2, <2>3 DEF PassInv
<1> QED
  BY <1>3, <1>4, <1>5 DEF CallInv

\* What decode leaves in the KV cache.
LEMMA DecodedOK ==
  ASSUME NEW batch \in Seq(RequestType), NEW stale,
         NEW i \in 1..Len(batch), NEW x \in 0..(CurrentSeqLen(batch[i]) - 1)
  PROVE  /\ KVSlot(i, x) \in DOMAIN DecodedKV(batch, stale)
         /\ \/ DecodedKV(batch, stale)[KVSlot(i, x)] = TokenAt(i, batch[i], x)
            \/ i \in stale /\ x = ContextIdx(batch[i])
<1> DEFINE s == KVSlot(i, x)
<1>1. s[1] = "kv" /\ s[2] = i /\ s[3] = x
  BY DEF KVSlot
<1>2. s \in Slots(batch)
  BY DEF Slots
<1> HIDE DEF s
<1>3. DOMAIN DecodedKV(batch, stale) = Slots(batch)
  BY DEF DecodedKV
<1>4. DecodedKV(batch, stale)[s] =
        IF i \in stale /\ x = ContextIdx(batch[i]) THEN Junk ELSE TokenAt(i, batch[i], x)
  BY <1>1, <1>2 DEF DecodedKV
<1> QED
  BY <1>2, <1>3, <1>4 DEF s

LEMMA CallInit ==
  ASSUME Init
  PROVE  CallInv
<1>1. /\ fixed_pool \in BOOLEAN /\ reqs \in Batches
      /\ ready_reqs = <<>> /\ not_ready_reqs = <<>> /\ ready_idx = 0 /\ not_ready_idx = 0
      /\ pass = NoPass /\ taken = <<>> /\ pc = "collect"
  BY DEF Init
<1>2. PICK stale \in {{}, {i \in 1..Len(reqs) : reqs[i].is_deterministic}} :
        kv = DecodedKV(reqs, stale)
  BY ZenonT(30) DEF Init
<1>3. reqs \in Seq(RequestType)
  BY <1>1, VerifyBatchAssumption
<1>4. \A i \in 1..Len(reqs) : RequestOK(reqs[i])
  BY <1>1, <1>3, VerifyBatchAssumption DEF RequestOK
<1>5. Range(<<>>) = {} /\ NoRepeats(<<>>) /\ Len(<<>>) = 0 /\ <<>> \in Seq(1..Len(reqs))
  BY DEF Range, NoRepeats
<1>6. ListOK(ready_reqs, ready_idx) /\ ListOK(not_ready_reqs, not_ready_idx)
  BY <1>1, <1>5 DEF ListOK
<1>7. TakenOK
  <2>1. Done(<<>>, 0) = {}
    BY DEF Done
  <2> QED
    BY <1>1, <1>5, <2>1 DEF TakenOK
<1>8. Progress
  <2>1. FixedSize \in Nat \ {0} /\ 0 % FixedSize = 0 /\ FixedSize - 0 = 0 + FixedSize
    BY VerifyBatchAssumption
  <2>2. (0 + FixedSize) % FixedSize = 0
    BY <2>1, ModAdd
  <2>3. Room = 0 /\ Min2(0, 0) = 0
    BY <1>1, <1>5, <2>1, <2>2 DEF Room, Min2
  <2> QED
    BY <1>1, <1>5, <2>3 DEF Progress
<1>9. LoopInv
  BY <1>1, <1>3, <1>4, <1>5, <1>6, <1>7, <1>8 DEF LoopInv
<1>10. CacheInv
  <2>1. SUFFICES ASSUME NEW i \in 1..Len(reqs), NEW x \in 0..(CurrentSeqLen(reqs[i]) - 1)
                 PROVE  /\ KVSlot(i, x) \in DOMAIN kv
                        /\ \/ kv[KVSlot(i, x)] = TokenAt(i, reqs[i], x)
                           \/ /\ reqs[i].is_deterministic /\ i \notin Range(taken)
                              /\ x = ContextIdx(reqs[i])
    BY DEF CacheInv
  <2>2. /\ KVSlot(i, x) \in DOMAIN kv
        /\ \/ kv[KVSlot(i, x)] = TokenAt(i, reqs[i], x)
           \/ i \in stale /\ x = ContextIdx(reqs[i])
    BY <1>2, <1>3, DecodedOK
  <2>3. i \in stale => reqs[i].is_deterministic
    BY <1>2
  <2>4. i \notin Range(taken)
    BY <1>1, <1>5
  <2> QED
    BY <2>2, <2>3, <2>4
<1>11. PassInv
  <2>1. /\ pass.batch = <<>> /\ DOMAIN pass.attended = {}
        /\ DOMAIN pass.predicted = {} /\ Range(pass.group) = {}
    BY <1>1 DEF NoPass, Range
  <2> QED
    BY <1>1, <2>1, ZenonT(30) DEF PassInv, FixedShape, ContextsAreOwn, GainsVerifierTokens, RaisesOnOverrun
<1> QED
  BY <1>9, <1>10, <1>11 DEF CallInv

-----------------------------------------------------------------------------
(* The theorems                                                            *)

LEMMA CallNext ==
  ASSUME CallInv, [Next]_vars
  PROVE  CallInv'
<1>1. CASE Collect
  BY <1>1, CollectStep
<1>2. CASE VerifyFixedBatch
  BY <1>2, FixedBatchStep
<1>3. CASE VerifyChunk
  BY <1>3, ChunkStep
<1>4. CASE Return
  BY <1>4, ReturnStep
<1>5. CASE UNCHANGED vars
  BY <1>5, NoStep
<1> QED
  BY <1>1, <1>2, <1>3, <1>4, <1>5 DEF Next

\* The invariant of a whole call of check_and_verify_deterministic_requests: its
\* lists and indices (LoopInv), the KV cache (CacheInv) and its last pass (PassInv).
THEOREM CallInvariant == Spec => []CallInv
<1>1. Init => CallInv
  BY CallInit
<1>2. CallInv /\ [Next]_vars => CallInv'
  BY CallNext
<1> QED
  BY <1>1, <1>2, PTL DEF Spec

\* The first n elements of a list without repeats are n.
LEMMA DoneCardinality ==
  ASSUME NEW s, NEW n, ListOK(s, n)
  PROVE  /\ Done(s, n) \subseteq Range(s) /\ Cardinality(Done(s, n)) = n
         /\ n = Len(s) => Done(s, n) = Range(s)
<1>1. s \in Seq(1..Len(reqs)) /\ NoRepeats(s) /\ n \in 0..Len(s) /\ Len(s) \in Nat
  BY DEF ListOK
<1>2. \A x : x \in Range(s) <=> \E j \in 1..Len(s) : s[j] = x
  BY <1>1, RangeOK
<1> DEFINE t == [k \in 1..n |-> s[k]]
<1>3. n \in Nat /\ t \in [1..n -> 1..Len(reqs)] /\ \A k \in 1..n : t[k] = s[k]
  BY <1>1
<1> HIDE DEF t
<1>4. t \in Seq(1..Len(reqs)) /\ Len(t) = n
  BY <1>3, TupleOK
<1>5. NoRepeats(t)
  <2>1. \A i \in 1..n : i \in 1..Len(s)
    BY <1>1
  <2>2. \A i, j \in 1..n : t[i] = t[j] => i = j
    BY <1>1, <1>3, <2>1, ZenonT(30) DEF NoRepeats
  <2> QED
    BY <1>4, <2>2 DEF NoRepeats
<1>6. \A x : x \in Range(t) <=> \E j \in 1..Len(t) : t[j] = x
  BY <1>4, RangeOK
<1>7. Range(t) = Done(s, n)
  BY <1>3, <1>4, <1>6 DEF Done
<1>8. Cardinality(Range(t)) = n
  BY <1>4, <1>5, NoRepeatsCardinality
<1>9. Done(s, n) \subseteq Range(s)
  BY <1>1, <1>2 DEF Done
<1>10. n = Len(s) => Done(s, n) = Range(s)
  BY <1>2 DEF Done
<1> QED
  BY <1>7, <1>8, <1>9, <1>10

LEMMA TakesInv ==
  ASSUME LoopInv
  PROVE  TakesVerifySet
<1> DEFINE all == Range(ready_reqs \o not_ready_reqs)
           ready == Range(ready_reqs)
           rest == Range(not_ready_reqs)
           fill == Done(not_ready_reqs, not_ready_idx)
<1>1. /\ ListOK(ready_reqs, ready_idx) /\ ListOK(not_ready_reqs, not_ready_idx)
      /\ ready \cap rest = {} /\ TakenOK /\ fixed_pool \in BOOLEAN
  BY DEF LoopInv
<1>2. /\ ready_reqs \in Seq(1..Len(reqs)) /\ not_ready_reqs \in Seq(1..Len(reqs))
      /\ NoRepeats(ready_reqs) /\ NoRepeats(not_ready_reqs)
  BY <1>1 DEF ListOK
<1>3. /\ \A x : x \in ready <=> \E j \in 1..Len(ready_reqs) : ready_reqs[j] = x
      /\ \A x : x \in rest <=> \E j \in 1..Len(not_ready_reqs) : not_ready_reqs[j] = x
  BY <1>2, RangeOK
<1>4. all = ready \cup rest
  <2>1. ready_reqs \o not_ready_reqs \in Seq(1..Len(reqs))
    BY <1>2
  <2> DEFINE c == ready_reqs \o not_ready_reqs
  <2>2. /\ Len(c) = Len(ready_reqs) + Len(not_ready_reqs)
        /\ Len(ready_reqs) \in Nat /\ Len(not_ready_reqs) \in Nat
        /\ \A j \in 1..Len(ready_reqs) : c[j] = ready_reqs[j]
        /\ \A j \in 1..Len(not_ready_reqs) : c[Len(ready_reqs) + j] = not_ready_reqs[j]
    BY <1>2
  <2>3. c \in Seq(1..Len(reqs)) /\ all = Range(c)
    BY <2>1
  <2> HIDE DEF c, all, ready, rest
  <2>4. \A x : x \in all <=> \E j \in 1..Len(c) : c[j] = x
    BY <2>3, RangeOK
  <2>5. ASSUME NEW x \in all
        PROVE  x \in ready \cup rest
    <3>1. PICK j \in 1..Len(c) : c[j] = x
      BY <2>4, <2>5
    <3>2. CASE j <= Len(ready_reqs)
      <4>1. j \in 1..Len(ready_reqs)
        BY <2>2, <3>2
      <4> QED
        BY <1>3, <2>2, <3>1, <4>1
    <3>3. CASE j > Len(ready_reqs)
      <4>1. PICK l \in 1..Len(not_ready_reqs) : j = Len(ready_reqs) + l
        <5>1. j - Len(ready_reqs) \in 1..Len(not_ready_reqs)
              /\ j = Len(ready_reqs) + (j - Len(ready_reqs))
          BY <2>2, <3>3
        <5> QED
          BY <5>1, ZenonT(30)
      <4> QED
        BY <1>3, <2>2, <3>1, <4>1
    <3> QED
      BY <2>2, <3>2, <3>3
  <2>6. ASSUME NEW x \in ready
        PROVE  x \in all
    <3>1. PICK j \in 1..Len(ready_reqs) : ready_reqs[j] = x
      BY <1>3, <2>6
    <3>2. j \in 1..Len(c) /\ c[j] = x
      BY <2>2, <3>1
    <3> QED
      BY <2>4, <3>2
  <2>7. ASSUME NEW x \in rest
        PROVE  x \in all
    <3>1. PICK j \in 1..Len(not_ready_reqs) : not_ready_reqs[j] = x
      BY <1>3, <2>7
    <3>2. Len(ready_reqs) + j \in 1..Len(c) /\ c[Len(ready_reqs) + j] = x
      BY <2>2, <3>1
    <3> QED
      BY <2>4, <3>2
  <2> QED
    BY <2>5, <2>6, <2>7
<1>5. all \ ready = rest
  BY <1>1, <1>4
<1>6. Cardinality(ready) = Len(ready_reqs) /\ Cardinality(rest) = Len(not_ready_reqs)
  BY <1>2, NoRepeatsCardinality
<1>7. Len(taken) = Cardinality(Range(taken))
  BY <1>1, NoRepeatsCardinality DEF TakenOK
<1>8. /\ Done(ready_reqs, ready_idx) \subseteq ready
      /\ ready_idx = Len(ready_reqs) => Done(ready_reqs, ready_idx) = ready
      /\ fill \subseteq rest /\ Cardinality(fill) = not_ready_idx
  BY <1>1, DoneCardinality
<1> HIDE DEF all, ready, rest, fill
<1>9. \A i \in ready \cup rest : reqs[i].is_deterministic /\ ~reqs[i].is_retracted
  BY <1>1, <1>3, ZenonT(30) DEF ListOK
<1>10. \A i \in Range(taken) : reqs[i].is_deterministic /\ ~reqs[i].is_retracted
  BY <1>1, <1>8, <1>9 DEF TakenOK, fill
<1>11. ASSUME pc = "returned"
       PROVE  Range(taken) \in IF fixed_pool THEN FixedGroupSets(all, ready, FixedSize)
                                             ELSE {ready}
  <2>1. Progress /\ ready_idx = Len(ready_reqs)
    BY <1>11 DEF LoopInv
  <2>2. Range(taken) = ready \cup fill
    BY <1>1, <1>8, <1>11, <2>1 DEF TakenOK, fill
  <2>3. CASE fixed_pool
    <3>1. not_ready_idx = Min2(Room, Len(not_ready_reqs))
      BY <1>2, <2>1, <2>3 DEF Progress
    <3>2. Cardinality(fill) =
            Min2((FixedSize - (Cardinality(ready) % FixedSize)) % FixedSize,
                 Cardinality(all \ ready))
      BY <1>5, <1>6, <1>8, <3>1, ZenonT(30) DEF Room
    <3>3. fill \in SUBSET (all \ ready)
      BY <1>5, <1>8
    <3>4. ready \cup fill \in FixedGroupSets(all, ready, FixedSize)
      BY <3>2, <3>3 DEF FixedGroupSets
    <3> QED
      BY <2>2, <2>3, <3>4
  <2>4. CASE ~fixed_pool
    <3>1. not_ready_idx = 0
      BY <2>1, <2>4 DEF Progress
    <3>2. fill = {}
      BY <3>1 DEF Done, fill
    <3> QED
      BY <2>2, <2>4, <3>2
  <2> QED
    BY <2>3, <2>4
<1> QED
  BY <1>7, <1>10, <1>11 DEF TakesVerifySet, all, ready

\* Whatever the batch, the window size and the group size, the loops of
\* check_and_verify_deterministic_requests take every ready request exactly once,
\* fill the last group of the fixed pool as far as there are requests to fill it
\* with, and take no request that was retracted or did not ask for determinism.
THEOREM LoopTakesVerifySet == Spec => []TakesVerifySet
<1>1. CallInv => TakesVerifySet
  BY TakesInv DEF CallInv
<1> QED
  BY <1>1, CallInvariant, PTL

\* With FixedSizeVerificationPool every forward pass has the same shape: FixedSize
\* requests, dummies included, of WindowSize tokens, padding included.
THEOREM PassHasFixedShape == Spec => []FixedShape
<1>1. CallInv => FixedShape
  BY DEF CallInv, PassInv
<1> QED
  BY <1>1, CallInvariant, PTL

\* verify_and_compare compares each token of a window with one sampled from the
\* request's own tokens before it, with its own parameters, although a pass lays
\* the windows, padding and dummies of a group in one flat batch.
THEOREM PassContextsAreOwn == Spec => []ContextsAreOwn
<1>1. CallInv => ContextsAreOwn
  BY DEF CallInv, PassInv
<1> QED
  BY <1>1, CallInvariant, PTL

\* No pass writes an entry of the KV cache with another token than the one that
\* the rolled back request has there: the entry of every position is its token's,
\* save one that decode left stale in a request not yet verified.
THEOREM PassKeepsCaches == Spec => []CachesIntact
<1>1. CallInv => CachesIntact
  BY DEF CallInv, CacheInv, CachesIntact
<1> QED
  BY <1>1, CallInvariant, PTL

\* Each request of a pass gains at least one verified token, those it gains are
\* the verifier's, and those it had stay.
THEOREM PassGainsVerifierTokens == Spec => []GainsVerifierTokens
<1>1. CallInv => GainsVerifierTokens
  BY DEF CallInv, PassInv
<1> QED
  BY <1>1, CallInvariant, PTL

\* Comparison and rollback keep output_token_logprobs_idx in step with output_ids.
THEOREM RollbackKeepsLogprobs == Spec => []LogprobsFollowOutput
<1>1. CallInv => LogprobsFollowOutput
  BY DEF CallInv, LoopInv, RequestOK, LogprobsFollowOutput
<1> QED
  BY <1>1, CallInvariant, PTL

\* prepare_verify_batch raises for a group of the fixed pool in which a request has
\* more than a window to verify, and for no other.
THEOREM RaisesOnlyOnOverrun == Spec => []RaisesOnOverrun
<1>1. CallInv => RaisesOnOverrun
  BY DEF CallInv, PassInv
<1> QED
  BY <1>1, CallInvariant, PTL
=============================================================================

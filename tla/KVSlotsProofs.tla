--------------------------- MODULE KVSlotsProofs ---------------------------
(***************************************************************************)
(* For every number of requests, slots and rows: the KV slots and rows of  *)
(* the requests are never shared, lost or freed twice.  The lemmas for the *)
(* steps other than DecodeStep, the initial states, and the theorems.      *)
(***************************************************************************)
EXTENDS KVSlotsDecode

-----------------------------------------------------------------------------
(* The other steps                                                          *)

\* A step that only moves requests that do not run between queues.
LEMMA QueueStep ==
  ASSUME SlotInv, NEW r \in Reqs, req[r].status \in {"new", "waiting"},
         NEW status \in {"waiting", "done"}, req' = [req EXCEPT ![r].status = status],
         UNCHANGED <<free_pages, double_freed, free_slots, req_to_token, pool, crashed>>
  PROVE  SlotInv' /\ Stays
<1>1. req \in [Reqs -> RequestType] /\ RequestOK(r, req[r])
      /\ \A s \in Reqs : req[s].status = "running" <=> req[s].req_pool_idx # NoRow
  BY DEF SlotInv, TypeOK
<1>2. \A s \in Reqs \ {r} : req'[s] = req[s]
  BY <1>1
<1>3. req'[r] = [req[r] EXCEPT !.status = status]
  BY <1>1
<1>4. /\ req'[r] \in RequestType /\ RequestOK(r, req'[r])
      /\ req'[r].status = status /\ req'[r].req_pool_idx = req[r].req_pool_idx
  BY <1>1, <1>3 DEF RequestType, RequestOK
<1>5. TypeOK'
  <2>1. req' \in [Reqs -> RequestType]
    BY <1>1, <1>2, <1>4
  <2>2. \A s \in Reqs : req'[s].status = "running" <=> req'[s].req_pool_idx # NoRow
    BY <1>1, <1>2, <1>4
  <2> QED BY <2>1, <2>2 DEF SlotInv, TypeOK
<1>6. Running' = Running /\ r \notin Running
  BY <1>2, <1>4 DEF Running
<1>7. \A s \in Running : req'[s] = req[s]
  BY <1>2, <1>6 DEF Running
<1>8. RunningBatch' = RunningBatch
  BY <1>6, <1>7 DEF RunningBatch, RestrictTo
<1>9. \A x \in Held(RunningBatch) : SlotOf(req_to_token, req, x)' = SlotOf(req_to_token, req, x)
  BY <1>7 DEF SlotOf, Held, RunningBatch, RestrictTo
<1>10. Held(RunningBatch)' = Held(RunningBatch)
  BY <1>8
<1>11. SlotsPartitioned'
  BY <1>9, <1>10, ZenonT(30) DEF SlotInv, SlotsPartitioned
<1>12. RowsPartitioned' /\ NoDoubleFree' /\ LengthsAgree'
  BY <1>6, <1>7 DEF SlotInv, RowsPartitioned, NoDoubleFree, LengthsAgree
<1>13. \A s \in Reqs : RequestOK(s, req'[s])
  BY <1>2, <1>4 DEF SlotInv
<1>14. Stays
  BY <1>7 DEF Stays, SlotOf
<1> QED BY <1>5, <1>11, <1>12, <1>13, <1>14 DEF SlotInv

\* A request after its prefill.
LEMMA ExtendedOK ==
  ASSUME SlotInv, NEW r \in Reqs, req[r].status = "waiting", NEW row \in Rows,
         NEW q, q = Extended(r, req[r], row)
  PROVE  /\ q \in RequestType /\ q.status = "running" /\ q.req_pool_idx = row
         /\ q.verified <= q.out /\ q.out >= 1
         /\ q.kv_committed_len = Prompt[r] + q.out - 1
         /\ q.kv_allocated_len = Prompt[r] + q.out - 1 /\ q.seq_len = Prompt[r] + q.out - 1
         /\ q.kv_committed_len = Prompt[r] + req[r].out
         /\ q.kv_committed_len \in Nat /\ q.kv_committed_len < MaxLen /\ MaxLen \in Nat
<1> DEFINE p == req[r]
           k == Prompt[r] + p.out
           v == IF r \in Deterministic /\ p.out = 0 THEN 1 ELSE p.verified
<1>1. p \in RequestType /\ p.verified <= p.out /\ p.out < MaxNewTokens[r]
  BY DEF SlotInv, TypeOK, RequestOK
<1>2. /\ Prompt[r] \in Nat /\ MaxNewTokens[r] \in Nat /\ MaxLen \in Nat
      /\ Prompt[r] + MaxNewTokens[r] <= MaxLen
  BY KVSlotsAssumption
<1>3. p.out \in Nat /\ p.verified \in Nat
  BY <1>1 DEF RequestType
<1>4. q = [p EXCEPT !.status = "running", !.req_pool_idx = row, !.out = p.out + 1,
             !.verified = v, !.kv_committed_len = k, !.kv_allocated_len = k, !.seq_len = k]
  BY DEF Extended
<1> HIDE DEF p
<1>5. k \in Nat /\ k < MaxLen /\ p.out + 1 \in Nat /\ v \in Nat /\ v <= p.out + 1
      /\ k = Prompt[r] + (p.out + 1) - 1 /\ p.out + 1 >= 1
  BY <1>1, <1>2, <1>3
<1> HIDE DEF k, v
<1>6. /\ q.status = "running" /\ q.req_pool_idx = row /\ q.out = p.out + 1 /\ q.verified = v
      /\ q.kv_committed_len = k /\ q.kv_allocated_len = k /\ q.seq_len = k
  BY <1>1, <1>4 DEF RequestType
<1>7. q \in RequestType
  BY <1>1, <1>4, <1>5 DEF RequestType
<1>8. k = Prompt[r] + req[r].out
  BY DEF k, p
<1> QED BY <1>2, <1>5, <1>6, <1>7, <1>8

\* A prefill of r into a row: all are the requests that run then.
Prefilling(r, row, q, all, slots, table) ==
  /\ r \in Reqs /\ req[r].status = "waiting" /\ row \in free_slots
  /\ q = Extended(r, req[r], row)
  /\ all = [s \in Running \cup {r} |-> IF s = r THEN q ELSE req[s]]
  /\ slots \in Allocations({r} \X (0..(Prompt[r] + req[r].out - 1)), free_pages)
  /\ table = WriteSlots(req_to_token, all, slots)

PrefillAllocated(r, row, all, slots, table) ==
  /\ table \in Tables
  /\ Divides(Slots \ pool.taken, SlotMap(table, all), free_pages \ RangeOf(slots))
  /\ Divides(Rows \ pool.rows, RowMap(all), free_slots \ {row})
  /\ \A s \in Running, p \in Positions :
       SlotOf(table, all, <<s, p>>) = SlotOf(req_to_token, req, <<s, p>>)

\* alloc_for_extend: the request gets a row, and a slot for each of its tokens.
LEMMA PrefillAllocOK ==
  ASSUME SlotInv, NEW r, NEW row, NEW q, NEW all, NEW slots, NEW table,
         Prefilling(r, row, q, all, slots, table)
  PROVE  PrefillAllocated(r, row, all, slots, table)
<1> DEFINE U == Slots \ pool.taken
           k == Prompt[r] + req[r].out
           D == {r} \X (0..(k - 1))
           m == SlotMap(req_to_token, RunningBatch)
           n == SlotMap(table, all)
           G == free_pages \ RangeOf(slots)
<1>0. /\ r \in Reqs /\ req[r].status = "waiting" /\ row \in free_slots
      /\ q = Extended(r, req[r], row) /\ slots \in Allocations(D, free_pages)
      /\ table = WriteSlots(req_to_token, all, slots)
  <2>1. slots \in Allocations(D, free_pages)
    <3>1. D = {r} \X (0..(Prompt[r] + req[r].out - 1))
      <4>1. r \in Reqs
        BY DEF Prefilling
      <4>2. Prompt[r] \in Nat /\ req[r].out \in Nat
        BY <4>1, KVSlotsAssumption DEF SlotInv, TypeOK, RequestType
      <4>3. k - 1 = Prompt[r] + req[r].out - 1
        BY <4>2
      <4> HIDE DEF k
      <4> QED BY <4>3
    <3> HIDE DEF D
    <3> QED BY <3>1 DEF Prefilling
  <2> QED BY <2>1, Zenon DEF Prefilling
<1>1. r \notin Running /\ row \in Rows /\ free_pages \subseteq Slots /\ req_to_token \in Tables
  BY <1>0 DEF Running, SlotInv, TypeOK, Tables, Positions
<1>2. /\ q.req_pool_idx = row /\ q.kv_committed_len = k /\ k \in Nat /\ k < MaxLen
      /\ MaxLen \in Nat
  BY <1>0, <1>1, ExtendedOK
<1>3. slots \in [D -> free_pages] /\ DOMAIN slots = D
      /\ \A x, y \in D : slots[x] = slots[y] => x = y
  BY <1>0, AllocationsOK
<1>4. /\ DOMAIN all = Running \cup {r} /\ all[r] = q
      /\ \A s \in Running : all[s] = req[s]
      /\ DOMAIN RunningBatch = Running /\ \A s \in Running : RunningBatch[s] = req[s]
  BY <1>1 DEF Prefilling, RunningBatch, RestrictTo
<1>5. RowsApart(RunningBatch) /\ Divides(Rows \ pool.rows, RowMap(RunningBatch), free_slots)
  BY RowsDivide DEF SlotInv
<1>6. RowsApart(all)
  <2>1. \A s \in Running : req[s].req_pool_idx # row
    BY <1>0 DEF SlotInv, RowsPartitioned
  <2> QED BY <1>1, <1>2, <1>4, <1>5, <2>1 DEF RowsApart
<1>7. InRows(D, all)
  BY <1>2, <1>4 DEF InRows, Positions
<1>8. /\ table \in Tables
      /\ \A x \in D : SlotOf(table, all, x) = slots[x]
      /\ \A x \in (DOMAIN all) \X Positions :
           x \notin D => SlotOf(table, all, x) = SlotOf(req_to_token, all, x)
  <2> HIDE DEF D
  <2> QED BY ONLY <1>0, <1>1, <1>3, <1>6, <1>7, WriteSlotsOK
<1>9. \A s \in Running, p \in Positions :
        SlotOf(table, all, <<s, p>>) = SlotOf(req_to_token, req, <<s, p>>)
  <2> TAKE s \in Running, p \in Positions
  <2>1. <<s, p>> \in (DOMAIN all) \X Positions /\ <<s, p>> \notin D
    BY <1>1, <1>4
  <2>2. SlotOf(table, all, <<s, p>>) = SlotOf(req_to_token, all, <<s, p>>)
    BY <1>8, <2>1
  <2> QED BY <2>2, <1>4 DEF SlotOf
<1>10. Held(all) = Held(RunningBatch) \cup D
  <2>1. \A x \in Held(RunningBatch) : x \in Held(all)
    BY <1>4 DEF Held
  <2>2. \A x \in D : x \in Held(all)
    BY <1>2, <1>4 DEF Held
  <2>3. \A x \in Held(all) : x \in Held(RunningBatch) \/ x \in D
    BY <1>2, <1>4 DEF Held
  <2> QED BY <2>1, <2>2, <2>3
<1>11. \A x \in D : x \notin Held(RunningBatch)
  BY <1>1, <1>4 DEF Held
<1>12. \A x \in Held(RunningBatch) :
         SlotOf(table, all, x) = SlotOf(req_to_token, RunningBatch, x)
  <2> TAKE x \in Held(RunningBatch)
  <2>1. x = <<x[1], x[2]>> /\ x[1] \in Running /\ x[2] \in Positions
    BY <1>4 DEF Held, Positions
  <2>2. SlotOf(table, all, x) = SlotOf(req_to_token, req, x)
    BY <1>9, <2>1
  <2> QED BY <1>4, <2>1, <2>2 DEF SlotOf
<1>13. /\ DOMAIN m = Held(RunningBatch) /\ DOMAIN n = Held(all)
       /\ \A x \in D : n[x] = slots[x]
       /\ \A x \in Held(RunningBatch) : n[x] = m[x]
  BY <1>8, <1>10, <1>12 DEF SlotMap
<1>14. Divides(U, n, G)
  <2>1. Divides(U, m, free_pages)
    BY PartitionDivides DEF SlotInv
  <2>2. G = free_pages \ {slots[x] : x \in D}
    BY <1>3 DEF RangeOf
  <2> HIDE DEF U, D, m, n, G
  <2>3. DOMAIN n = (DOMAIN m) \cup D /\ \A x \in D : x \notin DOMAIN m
    BY <1>10, <1>11, <1>13
  <2>4. \A x \in DOMAIN m : n[x] = m[x]
    BY <1>13
  <2>5. \A x \in D : n[x] = slots[x]
    BY <1>13
  <2>6. slots \in [D -> free_pages] /\ \A x, y \in D : slots[x] = slots[y] => x = y
    BY <1>3
  <2> QED BY ONLY <2>1, <2>2, <2>3, <2>4, <2>5, <2>6, AllocDivides
<1>15. Divides(Rows \ pool.rows, RowMap(all), free_slots \ {row})
  <2> DEFINE mm == RowMap(RunningBatch)
             nn == RowMap(all)
  <2>1. /\ DOMAIN mm = Running /\ DOMAIN nn = Running \cup {r} /\ nn[r] = row
        /\ \A s \in Running : nn[s] = mm[s]
    BY <1>2, <1>4 DEF RowMap
  <2>2. Divides(Rows \ pool.rows, mm, free_slots)
    BY <1>5
  <2> HIDE DEF mm, nn
  <2>3. Divides(Rows \ pool.rows, nn, free_slots \ {row})
    BY <1>0, <1>1, <2>1, <2>2 DEF Divides
  <2> QED BY <2>3 DEF nn
<1> QED BY <1>8, <1>9, <1>14, <1>15 DEF PrefillAllocated

LEMMA PrefillStep ==
  ASSUME SlotInv, NEW r \in Reqs, Prefill(r)
  PROVE  SlotInv' /\ Stays
<1>1. req[r].status = "waiting" /\ pool' = pool /\ crashed' = crashed
  BY DEF Prefill
<1>2. PICK row \in free_slots :
      \E slots \in Allocations({r} \X (0..(Prompt[r] + req[r].out - 1)), free_pages) :
      \E batch \in {[x \in {r} |-> Extended(r, req[r], row)]} :
      \E done \in FinishSets(batch) :
        /\ req' = [req EXCEPT ![r] = AfterSettle(batch, done)[r]]
        /\ Settle(WriteSlots(req_to_token, batch, slots), batch,
                  free_pages \ RangeOf(slots), free_slots \ {row}, {}, done, double_freed)
  BY DEF Prefill, Lowest
<1> DEFINE q == Extended(r, req[r], row)
           one == [x \in {r} |-> q]
           all == [s \in Running \cup {r} |-> IF s = r THEN q ELSE req[s]]
           rows == free_slots \ {row}
<1>3. PICK slots \in Allocations({r} \X (0..(Prompt[r] + req[r].out - 1)), free_pages) :
      \E done \in FinishSets(one) :
        /\ req' = [req EXCEPT ![r] = AfterSettle(one, done)[r]]
        /\ Settle(WriteSlots(req_to_token, one, slots), one,
                  free_pages \ RangeOf(slots), rows, {}, done, double_freed)
  BY <1>2
<1> DEFINE table == WriteSlots(req_to_token, all, slots)
           free == free_pages \ RangeOf(slots)
<1>4. PICK done \in FinishSets(one) :
        /\ req' = [req EXCEPT ![r] = AfterSettle(one, done)[r]]
        /\ Settle(WriteSlots(req_to_token, one, slots), one, free, rows, {}, done, double_freed)
  BY <1>3
<1>5. Prefilling(r, row, q, all, slots, table)
  BY <1>1 DEF Prefilling
<1>6. DOMAIN one = {r} /\ one[r] = q /\ DOMAIN all = Running \cup {r} /\ all[r] = q
      /\ \A s \in Running : s # r /\ all[s] = req[s]
  BY <1>1 DEF Running
<1>7. WriteSlots(req_to_token, one, slots) = table
  <2>1. \A x \in DOMAIN slots : x[1] = r
    BY AllocationsOK
  <2>2. \A x \in DOMAIN slots : one[x[1]] = all[x[1]]
    BY <1>6, <2>1
  <2> DEFINE At(b, i, p) == {x \in DOMAIN slots : b[x[1]].req_pool_idx = i /\ x[2] = p}
  <2> HIDE DEF one, all
  <2>3. \A i \in Rows, p \in 0..(MaxLen - 1) : At(one, i, p) = At(all, i, p)
    BY <2>2
  <2> DEFINE E(b, i, p) == IF At(b, i, p) # {} THEN slots[CHOOSE x \in At(b, i, p) : TRUE]
                           ELSE req_to_token[i][p]
             W(b) == [i \in Rows |-> [p \in 0..(MaxLen - 1) |-> E(b, i, p)]]
  <2>4. W(one) = W(all)
    <3>1. ASSUME NEW i \in Rows, NEW p \in 0..(MaxLen - 1) PROVE E(one, i, p) = E(all, i, p)
      <4>1. At(one, i, p) = At(all, i, p)
        BY <2>3
      <4> HIDE DEF At
      <4> QED BY <4>1
    <3> HIDE DEF E
    <3> QED BY <3>1
  <2> QED BY <2>4 DEF WriteSlots, table
<1>8. row \in Rows
  BY DEF SlotInv, TypeOK
<1>9. /\ q \in RequestType /\ q.status = "running" /\ q.req_pool_idx = row
      /\ q.verified <= q.out /\ q.out >= 1
      /\ q.kv_committed_len = Prompt[r] + q.out - 1
      /\ q.kv_allocated_len = Prompt[r] + q.out - 1 /\ q.seq_len = Prompt[r] + q.out - 1
  <2>1. q = Extended(r, req[r], row)
    OBVIOUS
  <2> HIDE DEF q
  <2>2. SlotInv /\ r \in Reqs /\ req[r].status = "waiting"
    BY <1>1
  <2> QED BY ONLY <1>8, <2>1, <2>2, ExtendedOK
<1>10. PrefillAllocated(r, row, all, slots, table)
  <2> HIDE DEF q, all, table
  <2> QED BY <1>5, PrefillAllocOK
<1>11. done \subseteq {r} /\ (r \notin done => ~(q.out >= MaxNewTokens[r]))
  <2> HIDE DEF one, q
  <2> QED BY <1>4, <1>6 DEF FinishSets
<1>12. /\ req'[r] = (IF r \in done THEN Released(q) ELSE q)
       /\ \A s \in Reqs \ {r} : req'[s] = req[s]
       /\ DOMAIN req' = Reqs
  <2>1. req \in [Reqs -> RequestType]
    BY DEF SlotInv, TypeOK
  <2>2. AfterSettle(one, done)[r] = (IF r \in done THEN Released(q) ELSE q)
    BY <1>6 DEF AfterSettle
  <2> QED BY <1>4, <2>1, <2>2
<1> HIDE DEF q, one, all, table, free, rows
<1>13. /\ req'[r] \in RequestType /\ RequestOK(r, req'[r])
       /\ req'[r].status = "running" <=> req'[r].req_pool_idx # NoRow
       /\ req'[r].status = "running" <=> r \notin done
  <2>1. q.out \in Nat /\ MaxNewTokens[r] \in Nat /\ row # NoRow
    BY <1>8, <1>9, KVSlotsAssumption DEF RequestType, Rows, NoRow
  <2>2. CASE r \in done
    BY <1>9, <1>12, <2>2 DEF Released, RequestType, RequestOK
  <2>3. CASE r \notin done
    <3>1. q.out < MaxNewTokens[r] /\ q.out > 0
      BY <1>9, <1>11, <2>1, <2>3
    <3> QED BY <1>9, <1>12, <2>1, <2>3, <3>1 DEF RequestOK
  <2> QED BY <2>2, <2>3
<1>14. Running' = (DOMAIN all) \ done
  <2>1. \A s \in Reqs \ {r} : s \notin done /\ (req'[s].status = "running" <=> s \in Running)
    BY <1>11, <1>12 DEF Running
  <2>2. DOMAIN all \subseteq Reqs
    BY <1>6 DEF Running
  <2> QED BY <1>6, <1>13, <2>1, <2>2 DEF Running
<1>15. \A s \in Running' : req'[s] = all[s]
  <2>1. \A s \in Running : req'[s] = all[s]
    BY <1>6, <1>12 DEF Running
  <2>2. r \notin done => req'[r] = all[r]
    BY <1>6, <1>12
  <2> QED BY <1>6, <1>14, <2>1, <2>2
<1>16. Settle(table, all, free, rows, {}, done, double_freed)
  <2> DEFINE ys == {} \cup ByRelease(RestrictTo(all, done))
  <2>1. RestrictTo(one, done) = RestrictTo(all, done)
    BY <1>6, <1>11 DEF RestrictTo
  <2>2. \A y \in ys : y[1] \in done
    <3>1. \A x \in Held(RestrictTo(all, done)) : x[1] \in done
      BY DEF Held, RestrictTo
    <3> QED BY <3>1 DEF ByRelease
  <2>3. \A y \in ys : SlotOf(table, one, y) = SlotOf(table, all, y)
    BY <1>6, <1>11, <2>2 DEF SlotOf
  <2>4. Settle(table, one, free, rows, {}, done, double_freed)
    BY <1>4, <1>7
  <2>5. /\ req_to_token' = table
        /\ free_pages' = free \cup SlotsOf(table, one, ys)
        /\ double_freed' = (double_freed \/ DoubleFree(table, one, free, ys))
        /\ free_slots' = rows \cup RowsOf(RestrictTo(all, done))
    BY <2>1, <2>4, Zenon DEF Settle
  <2> HIDE DEF ys
  <2>6. SlotsOf(table, one, ys) = SlotsOf(table, all, ys)
    BY <2>3 DEF SlotsOf
  <2>7. DoubleFree(table, one, free, ys) = DoubleFree(table, all, free, ys)
    BY <2>3 DEF DoubleFree
  <2> QED BY <2>5, <2>6, <2>7, Zenon DEF Settle, ys
<1>17. /\ SlotsPartitioned' /\ RowsPartitioned' /\ NoDoubleFree' /\ double_freed' \in BOOLEAN
       /\ req_to_token' \in Tables /\ free_pages' \subseteq Slots /\ free_slots' \subseteq Rows
  <2>1. TypeOK /\ double_freed = FALSE
    BY DEF SlotInv, TypeOK, NoDoubleFree
  <2>2. {} = {<<x[1], x[2], "rollback">> : x \in Held(all) \ Held(all)}
    OBVIOUS
  <2>3. done \subseteq DOMAIN all
    BY <1>6, <1>11
  <2>4. /\ table \in Tables /\ Divides(Slots \ pool.taken, SlotMap(table, all), free)
        /\ Divides(Rows \ pool.rows, RowMap(all), rows)
    BY <1>10 DEF PrefillAllocated, free, rows
  <2>5. Settles(table, all, all, free, rows, {}, done, double_freed)
    BY <1>1, <1>14, <1>15, <1>16, <2>1, <2>2, <2>3, <2>4 DEF Settles
  <2> QED BY ONLY <2>1, <2>5, SettleStep
<1>18. TypeOK'
  <2>1. /\ \A s \in Reqs : req'[s] \in RequestType
        /\ \A s \in Reqs : req'[s].status = "running" <=> req'[s].req_pool_idx # NoRow
    BY <1>12, <1>13 DEF SlotInv, TypeOK
  <2>2. req' \in [Reqs -> RequestType]
    <3>1. req' = [s \in Reqs |-> req'[s]]
      BY <1>4, <1>12 DEF SlotInv, TypeOK
    <3> QED BY <2>1, <3>1
  <2> QED BY <1>1, <1>17, <2>1, <2>2 DEF SlotInv, TypeOK, Tables, Positions
<1>19. LengthsAgree'
  <2>1. \A s \in Running' : s \in Running \/ s = r
    BY <1>6, <1>14
  <2> QED BY <1>6, <1>9, <1>15, <2>1 DEF SlotInv, LengthsAgree
<1>20. \A s \in Reqs : RequestOK(s, req'[s])
  BY <1>12, <1>13 DEF SlotInv
<1>21. Stays
  <2> SUFFICES ASSUME NEW s \in Running, NEW p \in 0..(Prompt[s] + req[s].verified - 2)
               PROVE  SlotOf(req_to_token', req', <<s, p>>) = SlotOf(req_to_token, req, <<s, p>>)
    BY DEF Stays
  <2>1. p \in Positions
    <3>1. /\ req[s].out \in Nat /\ req[s].verified \in Nat /\ req[s].verified <= req[s].out
          /\ Prompt[s] \in Nat /\ MaxLen \in Nat /\ Prompt[s] + req[s].out < MaxLen
      BY RunningOK
    <3> QED BY <3>1 DEF Positions
  <2>2. SlotOf(table, all, <<s, p>>) = SlotOf(req_to_token, req, <<s, p>>)
    BY <1>10, <2>1 DEF PrefillAllocated
  <2>3. req'[s] = all[s] /\ req_to_token' = table
    BY <1>6, <1>12, <1>16 DEF Settle, Running
  <2> QED BY <2>2, <2>3 DEF SlotOf
<1> QED BY <1>17, <1>18, <1>19, <1>20, <1>21 DEF SlotInv

-----------------------------------------------------------------------------
(* The initial states                                                       *)

\* The dummies' slots are slots.
LEMMA DummyEntry ==
  ASSUME NEW row \in 0..(FixedSize - 1), NEW p \in Nat, p < WindowSize
  PROVE  row * WindowSize + p + 1 \in 1..DummySlots
<1>1. FixedSize \in Nat /\ WindowSize \in Nat /\ row \in Nat /\ row <= FixedSize - 1
  BY KVSlotsAssumption
<1> DEFINE a == row * WindowSize
           b == (FixedSize - 1 - row) * WindowSize
<1>2. a \in Nat /\ b \in Nat
  <2>1. FixedSize - 1 - row \in Nat
    BY <1>1
  <2> QED BY <1>1, <2>1
<1>3. DummySlots = a + b + WindowSize
  BY <1>1 DEF DummySlots
<1> HIDE DEF a, b
<1>4. a + p + 1 \in 1..(a + b + WindowSize)
  BY <1>1, <1>2
<1> QED BY <1>3, <1>4 DEF a

LEMMA InitialPool ==
  ASSUME pool \in InitFixedPool
  PROVE  /\ pool \in [ok : BOOLEAN, taken : SUBSET Slots, rows : SUBSET Rows]
         /\ \A row \in pool.rows, p \in Nat :
              p < WindowSize => row * WindowSize + p + 1 \in 0..Size
<1>1. FixedSize \in Nat /\ WindowSize \in Nat /\ WindowSize >= 1 /\ Size \in Nat /\ NumRows \in Nat
  BY KVSlotsAssumption
<1>2. DummySlots \in Nat /\ PaddingSlots \in Nat
  <2>1. WindowSize - 1 \in Nat
    BY <1>1
  <2> QED BY <1>1, <2>1 DEF DummySlots, PaddingSlots
<1>3. \/ pool.taken = {} /\ pool.rows = {}
      \/ DummySlots <= Size /\ pool.taken = 1..DummySlots /\ pool.rows = {}
      \/ /\ DummySlots <= Size /\ FixedSize <= NumRows
         /\ pool.taken = 1..DummySlots /\ pool.rows = 0..(FixedSize - 1)
      \/ /\ DummySlots + PaddingSlots <= Size /\ FixedSize <= NumRows
         /\ pool.taken = 1..(DummySlots + PaddingSlots) /\ pool.rows = 0..(FixedSize - 1)
  BY <1>1, <1>2 DEF InitFixedPool
<1>4. pool \in [ok : BOOLEAN, taken : SUBSET Slots, rows : SUBSET Rows]
  <2>1. pool.taken \subseteq Slots /\ pool.rows \subseteq Rows
    BY <1>1, <1>2, <1>3 DEF Slots, Rows
  <2>2. \E ok \in BOOLEAN : \E taken, rows : pool = [ok |-> ok, taken |-> taken, rows |-> rows]
    <3> DEFINE Is(ok, taken, rows) == pool = [ok |-> ok, taken |-> taken, rows |-> rows]
    <3>1. \/ Is(FALSE, {}, {}) \/ Is(FALSE, 1..DummySlots, {})
          \/ Is(FALSE, 1..DummySlots, 0..(FixedSize - 1))
          \/ Is(TRUE, 1..(DummySlots + PaddingSlots), 0..(FixedSize - 1))
      BY DEF InitFixedPool
    <3>2. FALSE \in BOOLEAN /\ TRUE \in BOOLEAN
      OBVIOUS
    <3> HIDE DEF Is
    <3>3. \E ok \in BOOLEAN : \E taken, rows : Is(ok, taken, rows)
      BY <3>1, <3>2, Zenon
    <3> QED BY <3>3 DEF Is
  <2>3. PICK ok \in BOOLEAN : \E taken, rows : pool = [ok |-> ok, taken |-> taken, rows |-> rows]
    BY <2>2
  <2>4. PICK taken, rows : pool = [ok |-> ok, taken |-> taken, rows |-> rows]
    BY <2>3
  <2> QED BY <2>1, <2>4
<1>5. ASSUME NEW row \in pool.rows, NEW p \in Nat, p < WindowSize
      PROVE  row * WindowSize + p + 1 \in 0..Size
  <2>1. row \in 0..(FixedSize - 1) /\ DummySlots <= Size
    BY <1>1, <1>2, <1>3
  <2>2. row * WindowSize + p + 1 \in 1..DummySlots
    BY <1>5, <2>1, DummyEntry
  <2> QED BY <1>1, <1>2, <2>1, <2>2
<1> QED BY <1>4, <1>5

LEMMA InitialState == Init => SlotInv
<1> SUFFICES ASSUME Init PROVE SlotInv
  OBVIOUS
<1>1. /\ pool \in [ok : BOOLEAN, taken : SUBSET Slots, rows : SUBSET Rows]
      /\ \A row \in pool.rows, p \in Nat :
           p < WindowSize => row * WindowSize + p + 1 \in 0..Size
  BY InitialPool DEF Init
<1>2. \A r \in Reqs : req[r] = NewRequest
  BY DEF Init
<1>3. NewRequest \in RequestType /\ NewRequest.status = "new" /\ NewRequest.req_pool_idx = NoRow
  BY DEF NewRequest, RequestType
<1>4. \A r \in Reqs : RequestOK(r, req[r])
  <2>1. \A r \in Reqs : MaxNewTokens[r] \in Nat /\ MaxNewTokens[r] > 0
    BY KVSlotsAssumption
  <2> QED BY <1>2, <2>1 DEF NewRequest, RequestOK
<1>5. Running = {}
  BY <1>2, <1>3 DEF Running
<1>6. Held(RunningBatch) = {}
  BY <1>5 DEF Held, RunningBatch, RestrictTo
<1>7. req_to_token \in [Rows -> [0..(MaxLen - 1) -> 0..Size]]
  <2> DEFINE E(row, p) == IF row \in pool.rows /\ p < WindowSize
                          THEN row * WindowSize + p + 1 ELSE 0
  <2>1. ASSUME NEW row \in Rows, NEW p \in 0..(MaxLen - 1) PROVE E(row, p) \in 0..Size
    <3>1. p \in Nat /\ Size \in Nat
      BY KVSlotsAssumption
    <3> QED BY <1>1, <3>1
  <2>2. req_to_token = [row \in Rows |-> [p \in 0..(MaxLen - 1) |-> E(row, p)]]
    BY DEF Init
  <2> HIDE DEF E
  <2> QED BY <2>1, <2>2
<1>8. TypeOK
  BY <1>1, <1>2, <1>3, <1>7 DEF Init, TypeOK
<1>9. SlotsPartitioned /\ RowsPartitioned /\ NoDoubleFree /\ LengthsAgree
  BY <1>5, <1>6 DEF Init, SlotsPartitioned, RowsPartitioned, NoDoubleFree, LengthsAgree
<1> QED BY <1>4, <1>8, <1>9 DEF SlotInv

-----------------------------------------------------------------------------
(* The theorems                                                             *)

\* One step, of whatever operation, keeps the invariant and the verified slots.
LEMMA OneStep ==
  ASSUME SlotInv, [Next]_vars
  PROVE  SlotInv' /\ (Next => Stays)
<1>1. ASSUME NEW r \in Reqs, Arrive(r) PROVE SlotInv' /\ Stays
  BY <1>1, QueueStep DEF Arrive
<1>2. ASSUME NEW r \in Reqs, Prefill(r) PROVE SlotInv' /\ Stays
  BY <1>2, PrefillStep
<1>3. ASSUME NEW r \in Reqs, AbortWaiting(r) PROVE SlotInv' /\ Stays
  BY <1>3, QueueStep DEF AbortWaiting
<1>4. CASE DecodeStep
  BY <1>4, DecodeStepOK
<1>5. CASE PauseRetract
  <2>1. \A r \in Running : req'[r].status # "running"
    BY <1>5, RetractedOK DEF PauseRetract, Running
  <2> QED BY <1>5, <2>1, PauseRetractStep DEF Stays
<1>6. CASE FlushCache
  <2>1. Running = {} /\ Running' = {}
    BY <1>6 DEF FlushCache, Running
  <2>2. Held(RunningBatch)' = {}
    BY <2>1 DEF Held, RunningBatch, RestrictTo
  <2>3. pool'.taken = {} /\ pool'.rows = {} /\ pool' \in [ok : BOOLEAN, taken : SUBSET Slots, rows : SUBSET Rows]
    BY <1>6 DEF FlushCache, SlotInv, TypeOK
  <2>4. TypeOK'
    BY <1>6, <2>3 DEF FlushCache, SlotInv, TypeOK
  <2>5. SlotsPartitioned' /\ RowsPartitioned' /\ NoDoubleFree' /\ LengthsAgree' /\ Stays
    BY <1>6, <2>1, <2>2, <2>3
    DEF FlushCache, SlotInv, SlotsPartitioned, RowsPartitioned, NoDoubleFree, LengthsAgree, Stays
  <2> QED BY <1>6, <2>4, <2>5 DEF FlushCache, SlotInv
<1>7. CASE UNCHANGED vars
  <2>1. Running' = Running /\ RunningBatch' = RunningBatch
    BY <1>7 DEF vars, Running, RunningBatch
  <2>2. TypeOK'
    BY <1>7 DEF vars, SlotInv, TypeOK
  <2>3. SlotsPartitioned' /\ RowsPartitioned' /\ NoDoubleFree' /\ LengthsAgree'
    BY <1>7, <2>1 DEF vars, SlotInv, SlotsPartitioned, RowsPartitioned, NoDoubleFree, LengthsAgree
  <2>4. Stays
    BY <1>7 DEF vars, Stays
  <2> QED BY <1>7, <2>2, <2>3, <2>4 DEF vars, SlotInv
<1> QED BY <1>1, <1>2, <1>3, <1>4, <1>5, <1>6, <1>7 DEF Next

\* The inductive invariant holds in every reachable state, whatever the order of
\* prefills, decodes, rollbacks, retractions, releases and flushes.
THEOREM SlotsInductive ==
  Spec => []SlotInv
<1>1. Init => SlotInv
  BY InitialState
<1>2. SlotInv /\ [Next]_vars => SlotInv'
  BY OneStep
<1> QED BY <1>1, <1>2, PTL DEF Spec

\* Fields and free lists keep their types, and only running requests have rows.
THEOREM SlotTypes ==
  Spec => []TypeOK
<1>1. SlotInv => TypeOK
  BY DEF SlotInv
<1> QED BY <1>1, SlotsInductive, PTL

\* Every slot outside the fixed pool is free or belongs to one position of one
\* running request: what process_batch_result_decode frees after a rollback is
\* what the request gave up, no more and no less.
THEOREM SlotsSafe ==
  Spec => []SlotsPartitioned
<1>1. SlotInv => SlotsPartitioned
  BY DEF SlotInv
<1> QED BY <1>1, SlotsInductive, PTL

\* Rows of ReqToTokenPool are neither shared nor lost.
THEOREM RowsSafe ==
  Spec => []RowsPartitioned
<1>1. SlotInv => RowsPartitioned
  BY DEF SlotInv
<1> QED BY <1>1, SlotsInductive, PTL

\* The allocator never gets a slot back that it has already, not even from a
\* request that is rolled back and released in one step.
THEOREM NothingFreedTwice ==
  Spec => []NoDoubleFree
<1>1. SlotInv => NoDoubleFree
  BY DEF SlotInv
<1> QED BY <1>1, SlotsInductive, PTL

\* kv_allocated_len, kv_committed_len and seq_len of a running request agree with
\* its tokens after any number of rollbacks: release_kv_cache never asserts.
THEOREM CountersAgree ==
  Spec => []LengthsAgree
<1>1. SlotInv => LengthsAgree
  BY DEF SlotInv
<1> QED BY <1>1, SlotsInductive, PTL

\* No step of a running request moves the KV entry of a verified token.
THEOREM VerifiedSlotsSafe ==
  Spec => VerifiedSlotsStay
<1>1. SlotInv /\ [Next]_vars => [Stays]_vars
  BY OneStep
<1>2. Spec => [][Stays]_vars
  BY <1>1, SlotsInductive, PTL DEF Spec
<1> QED BY <1>2 DEF VerifiedSlotsStay, Stays
=============================================================================

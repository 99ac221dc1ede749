--------------------------- MODULE KVSlotsDecode ---------------------------
(***************************************************************************)
(* The lemmas under KVSlotsProofs: what freeing, allocating and writing    *)
(* req_to_token do to the owners of KV slots, and the iteration that       *)
(* decodes, verifies, rolls back and releases.                             *)
(*                                                                         *)
(* The argument follows the one function that matters, from the positions  *)
(* a batch holds to their slots (SlotMap).  Together with the free list it *)
(* divides up the slots outside the pool (Divides).  Freeing some of the   *)
(* positions (FreeDivides) and allocating for new ones (AllocDivides) keep *)
(* it so; every step of KVSlots is a sequence of these two.  In a decode   *)
(* iteration, the positions a rollback frees are those between the new and *)
(* the old committed length, and a release frees what is left.             *)
(***************************************************************************)
EXTENDS KVSlots, TLAPS

SlotMap(table, batch) == [x \in Held(batch) |-> SlotOf(table, batch, x)]

\* The range of m and F are disjoint, make up U, and m is one to one.
Divides(U, m, F) ==
  /\ F \subseteq U
  /\ \A x \in DOMAIN m : m[x] \in U /\ m[x] \notin F
  /\ \A x, y \in DOMAIN m : m[x] = m[y] => x = y
  /\ \A s \in U : s \in F \/ \E x \in DOMAIN m : m[x] = s

\* Freeing the positions X.
LEMMA FreeDivides ==
  ASSUME NEW U, NEW m, NEW F, NEW X, Divides(U, m, F), X \subseteq DOMAIN m,
         NEW n, DOMAIN n = (DOMAIN m) \ X, \A x \in DOMAIN n : n[x] = m[x],
         NEW G, G = F \cup {m[x] : x \in X}
  PROVE  Divides(U, n, G)
BY DEF Divides

\* Allocating slots f for the new positions D.
LEMMA AllocDivides ==
  ASSUME NEW U, NEW m, NEW F, NEW D, NEW f \in [D -> F], Divides(U, m, F),
         \A x \in D : x \notin DOMAIN m,
         \A x, y \in D : f[x] = f[y] => x = y,
         NEW n, DOMAIN n = (DOMAIN m) \cup D,
         \A x \in D : n[x] = f[x], \A x \in DOMAIN m : n[x] = m[x],
         NEW G, G = F \ {f[x] : x \in D}
  PROVE  Divides(U, n, G)
<1>1. G \subseteq U
  BY DEF Divides
<1>2. \A x \in DOMAIN n : n[x] \in U /\ n[x] \notin G
  BY DEF Divides
<1>3. \A x, y \in DOMAIN n : n[x] = n[y] => x = y
  BY DEF Divides
<1>4. \A s \in U : s \in G \/ \E x \in DOMAIN n : n[x] = s
  <2> TAKE s \in U
  <2>1. CASE s \in F /\ s \notin G
    <3>1. PICK x \in D : f[x] = s
      BY <2>1
    <3> QED BY <3>1
  <2>2. CASE s \notin F
    <3>1. PICK x \in DOMAIN m : m[x] = s
      BY <2>2 DEF Divides
    <3> QED BY <3>1
  <2> QED BY <2>1, <2>2
<1> QED BY <1>1, <1>2, <1>3, <1>4 DEF Divides

\* What alloc hands out are different members of the free list.
LEMMA AllocationsOK ==
  ASSUME NEW D, NEW F, NEW f \in Allocations(D, F)
  PROVE  f \in [D -> F] /\ \A x, y \in D : f[x] = f[y] => x = y
<1> DEFINE low == Injections(D, Lowest(F, Cardinality(D)))
<1>1. \A g \in low : g \in [D -> F] /\ \A x, y \in D : g[x] = g[y] => x = y
  <2>1. Lowest(F, Cardinality(D)) \subseteq F
    BY DEF Lowest
  <2> QED BY <2>1 DEF Injections
<1>2. CASE LowestFirst /\ low # {}
  <2>1. f = CHOOSE g \in low : TRUE
    BY <1>2 DEF Allocations
  <2>2. f \in low
    BY <1>2, <2>1
  <2> QED BY <2>2, <1>1
<1>3. CASE ~(LowestFirst /\ low # {})
  <2> HIDE DEF low
  <2>1. f \in Injections(D, F)
    BY <1>3 DEF Allocations, low
  <2> QED BY <2>1 DEF Injections
<1> QED BY <1>2, <1>3

-----------------------------------------------------------------------------
(* The table                                                                *)

Positions == 0..(MaxLen - 1)
Tables == [Rows -> [Positions -> 0..Size]]

\* Different requests of the batch have different rows.
RowsApart(batch) ==
  /\ \A r \in DOMAIN batch : batch[r].req_pool_idx \in Rows
  /\ \A r, s \in DOMAIN batch :
       batch[r].req_pool_idx = batch[s].req_pool_idx => r = s

\* D is a set of positions in the rows of the batch.
InRows(D, batch) == D \subseteq (DOMAIN batch) \X Positions

\* WriteSlots writes the slots where they belong and leaves the rest alone.
LEMMA WriteSlotsOK ==
  ASSUME NEW table \in Tables, NEW batch, RowsApart(batch), NEW D, NEW F, NEW slots \in [D -> F],
         F \subseteq Slots, InRows(D, batch),
         NEW new, new = WriteSlots(table, batch, slots)
  PROVE  /\ new \in Tables
         /\ \A x \in D : SlotOf(new, batch, x) = slots[x]
         /\ \A x \in (DOMAIN batch) \X Positions :
              x \notin D => SlotOf(new, batch, x) = SlotOf(table, batch, x)
<1> DEFINE At(row, p) == {x \in D : batch[x[1]].req_pool_idx = row /\ x[2] = p}
           Entry(row, p) == IF At(row, p) # {} THEN slots[CHOOSE x \in At(row, p) : TRUE]
                            ELSE table[row][p]
           written == [row \in Rows |-> [p \in Positions |-> Entry(row, p)]]
<1>0. new = written
  BY DEF WriteSlots, Positions
<1>1. \A x \in D : /\ batch[x[1]].req_pool_idx \in Rows /\ x[2] \in Positions
                    /\ x[1] \in DOMAIN batch /\ x = <<x[1], x[2]>>
  BY DEF RowsApart, InRows
<1>2. \A x \in D : At(batch[x[1]].req_pool_idx, x[2]) = {x}
  <2> TAKE x \in D
  <2>1. ASSUME NEW y \in At(batch[x[1]].req_pool_idx, x[2]) PROVE y = x
    <3>1. y \in D /\ batch[y[1]].req_pool_idx = batch[x[1]].req_pool_idx /\ y[2] = x[2]
      OBVIOUS
    <3>2. y[1] = x[1]
      BY <3>1, <1>1 DEF RowsApart
    <3> QED BY <3>1, <3>2, <1>1
  <2>2. x \in At(batch[x[1]].req_pool_idx, x[2])
    OBVIOUS
  <2> QED BY <2>1, <2>2
<1>3. \A row \in Rows, p \in Positions : Entry(row, p) \in 0..Size
  <2> TAKE row \in Rows, p \in Positions
  <2>1. CASE At(row, p) # {}
    <3>1. (CHOOSE x \in At(row, p) : TRUE) \in D
      BY <2>1
    <3>2. Entry(row, p) \in F
      BY <2>1, <3>1
    <3>3. F \subseteq 0..Size
      <4>1. Size \in Nat
        BY KVSlotsAssumption
      <4> QED BY <4>1 DEF Slots
    <3> HIDE DEF Entry
    <3> QED BY <3>2, <3>3, Zenon
  <2>2. CASE At(row, p) = {}
    BY <2>2 DEF Tables
  <2> QED BY <2>1, <2>2
<1>4. written \in Tables
  <2> HIDE DEF Entry
  <2> QED BY <1>3 DEF Tables
<1>5. \A x \in D : SlotOf(written, batch, x) = slots[x]
  <2> TAKE x \in D
  <2>1. SlotOf(written, batch, x) = Entry(batch[x[1]].req_pool_idx, x[2])
    BY <1>1, Zenon DEF SlotOf
  <2>2. (CHOOSE y \in {x} : TRUE) = x
    OBVIOUS
  <2>3. Entry(batch[x[1]].req_pool_idx, x[2]) = slots[x]
    BY <1>2, <2>2
  <2> QED BY <2>1, <2>3
<1>6. ASSUME NEW x \in (DOMAIN batch) \X Positions, x \notin D
      PROVE  SlotOf(written, batch, x) = SlotOf(table, batch, x)
  <2>1. At(batch[x[1]].req_pool_idx, x[2]) = {}
    BY <1>6, <1>1 DEF RowsApart
  <2>2. batch[x[1]].req_pool_idx \in Rows /\ x[2] \in Positions
    BY <1>6 DEF RowsApart
  <2> QED BY <2>1, <2>2 DEF SlotOf
<1> HIDE DEF written
<1> QED BY <1>0, <1>4, <1>5, <1>6

-----------------------------------------------------------------------------
(* The invariant in terms of SlotMap                                        *)

\* What the partition says of the running batch, and what it takes to have it
\* again after a step.
LEMMA PartitionDivides ==
  SlotsPartitioned /\ TypeOK =>
    Divides(Slots \ pool.taken, SlotMap(req_to_token, RunningBatch), free_pages)
<1> SUFFICES ASSUME SlotsPartitioned, TypeOK
             PROVE  Divides(Slots \ pool.taken, SlotMap(req_to_token, RunningBatch), free_pages)
  OBVIOUS
<1>1. \A x \in Held(RunningBatch) :
        SlotOf(req_to_token, RunningBatch, x) = SlotOf(req_to_token, req, x)
  BY DEF Held, SlotOf, RunningBatch, RestrictTo
<1>2. free_pages \subseteq Slots \ pool.taken
  BY DEF SlotsPartitioned, TypeOK
<1> DEFINE m == SlotMap(req_to_token, RunningBatch)
<1>3. DOMAIN m = Held(RunningBatch) /\ \A x \in DOMAIN m : m[x] = SlotOf(req_to_token, req, x)
  BY <1>1 DEF SlotMap
<1> HIDE DEF m
<1>4. Divides(Slots \ pool.taken, m, free_pages)
  BY <1>2, <1>3 DEF Divides, SlotsPartitioned
<1> QED BY <1>4 DEF m

LEMMA DividesPartition ==
  ASSUME NEW m, Divides(Slots \ pool'.taken, m, free_pages'), DOMAIN m = Held(RunningBatch)',
         \A x \in DOMAIN m : m[x] = SlotOf(req_to_token, req, x)'
  PROVE  SlotsPartitioned'
BY DEF Divides, SlotsPartitioned

\* The running batch has its rows apart.
LEMMA RunningApart ==
  RowsPartitioned /\ TypeOK => RowsApart(RunningBatch)
BY DEF RowsPartitioned, RowsApart, RunningBatch, RestrictTo, Running, TypeOK, RequestType

-----------------------------------------------------------------------------
(* Settling a batch                                                         *)

LEMMA HeldRestrict ==
  ASSUME NEW batch, NEW S, S \subseteq DOMAIN batch
  PROVE  /\ Held(RestrictTo(batch, S)) = {x \in Held(batch) : x[1] \in S}
         /\ \A table : \A x \in Held(batch) :
              x[1] \in S => SlotOf(table, RestrictTo(batch, S), x) = SlotOf(table, batch, x)
BY DEF Held, RestrictTo, SlotOf

\* A batch that gives up the positions it holds in all but not in after, and
\* then all the positions of the requests in done, frees no slot twice.
LEMMA SettleDivides ==
  ASSUME NEW U, NEW table, NEW all, NEW after, NEW free, NEW done, NEW xs,
         0 \notin U, Divides(U, SlotMap(table, all), free),
         DOMAIN after = DOMAIN all,
         \A r \in DOMAIN all : after[r].req_pool_idx = all[r].req_pool_idx,
         Held(after) \subseteq Held(all), done \subseteq DOMAIN all,
         xs = {<<x[1], x[2], "rollback">> : x \in Held(all) \ Held(after)}
  PROVE  LET ys == xs \cup ByRelease(RestrictTo(after, done))
         IN  /\ Divides(U, SlotMap(table, RestrictTo(after, (DOMAIN after) \ done)),
                        free \cup SlotsOf(table, after, ys))
             /\ ~DoubleFree(table, after, free, ys)
<1> DEFINE m == SlotMap(table, all)
           keep == (DOMAIN after) \ done
           ys == xs \cup ByRelease(RestrictTo(after, done))
           X == (Held(all) \ Held(after)) \cup Held(RestrictTo(after, done))
<1>1. DOMAIN m = Held(all) /\ \A x \in Held(all) : m[x] = SlotOf(table, after, x)
  BY DEF SlotMap, SlotOf, Held
<1>2. /\ Held(RestrictTo(after, done)) = {x \in Held(after) : x[1] \in done}
      /\ Held(RestrictTo(after, keep)) = {x \in Held(after) : x[1] \in keep}
  BY HeldRestrict
<1>3. \A x \in Held(after) :
        x[1] \in keep => SlotOf(table, RestrictTo(after, keep), x) = SlotOf(table, after, x)
  BY HeldRestrict
<1>4. X \subseteq DOMAIN m
  BY <1>1, <1>2
<1>5. (DOMAIN m) \ X = Held(RestrictTo(after, keep))
  <2>1. \A x \in Held(after) : x[1] \in DOMAIN after
    BY DEF Held
  <2> QED BY <1>1, <1>2, <2>1, Zenon
<1>6. [x \in (DOMAIN m) \ X |-> m[x]] = SlotMap(table, RestrictTo(after, keep))
  BY <1>1, <1>2, <1>3, <1>5, Zenon DEF SlotMap
<1>7. \A y \in ys : \E x \in X :
        /\ y[1] = x[1] /\ y[2] = x[2] /\ m[x] = SlotOf(table, after, y)
        /\ y = IF x \in Held(after) THEN <<x[1], x[2], "release">>
                                    ELSE <<x[1], x[2], "rollback">>
  <2> TAKE y \in ys
  <2>1. CASE y \in xs
    <3>1. PICK x \in Held(all) \ Held(after) : y = <<x[1], x[2], "rollback">>
      BY <2>1
    <3>2. SlotOf(table, after, y) = SlotOf(table, after, x)
      BY <3>1 DEF SlotOf
    <3> QED BY <3>1, <3>2, <1>1, Zenon
  <2>2. CASE y \in ByRelease(RestrictTo(after, done))
    <3>1. PICK x \in Held(RestrictTo(after, done)) : y = <<x[1], x[2], "release">>
      BY <2>2 DEF ByRelease
    <3>2. SlotOf(table, after, y) = SlotOf(table, after, x)
      BY <3>1 DEF SlotOf
    <3> QED BY <3>1, <3>2, <1>1, <1>2, Zenon
  <2> QED BY <2>1, <2>2
<1>8. \A x \in X : \E y \in ys : m[x] = SlotOf(table, after, y)
  <2> TAKE x \in X
  <2>1. CASE x \in Held(all) \ Held(after)
    <3>1. <<x[1], x[2], "rollback">> \in ys
      BY <2>1
    <3>2. SlotOf(table, after, <<x[1], x[2], "rollback">>) = m[x]
      BY <2>1, <1>1 DEF SlotOf
    <3> QED BY <3>1, <3>2
  <2>2. CASE x \in Held(RestrictTo(after, done))
    <3>1. <<x[1], x[2], "release">> \in ys
      BY <2>2 DEF ByRelease
    <3>2. SlotOf(table, after, <<x[1], x[2], "release">>) = m[x]
      BY <2>2, <1>1, <1>2 DEF SlotOf
    <3> QED BY <3>1, <3>2
  <2> QED BY <2>1, <2>2
<1>9. \A x \in X : m[x] \in U /\ m[x] \notin free
  BY <1>4 DEF Divides
<1>10. \A x, y \in X : m[x] = m[y] => x = y
  BY <1>4 DEF Divides
<1> HIDE DEF X, ys, m
<1>11. {m[x] : x \in X} = SlotsOf(table, after, ys)
  BY <1>7, <1>8, <1>9 DEF SlotsOf
<1>12. Divides(U, m, free)
  BY DEF m
<1>13. Divides(U, SlotMap(table, RestrictTo(after, keep)), free \cup SlotsOf(table, after, ys))
  <2>1. Divides(U, [x \in (DOMAIN m) \ X |-> m[x]], free \cup {m[x] : x \in X})
    BY <1>4, <1>12 DEF Divides
  <2> QED BY <2>1, <1>6, <1>11, Zenon
<1>14. ~DoubleFree(table, after, free, ys)
  <2>1. ASSUME NEW y \in ys PROVE SlotOf(table, after, y) \notin free
    BY <1>7, <1>9
  <2>2. ASSUME NEW y \in ys, NEW z \in ys, SlotOf(table, after, y) = SlotOf(table, after, z)
        PROVE  y = z
    <3>1. PICK a \in X :
            /\ m[a] = SlotOf(table, after, y)
            /\ y = IF a \in Held(after) THEN <<a[1], a[2], "release">>
                                        ELSE <<a[1], a[2], "rollback">>
      BY <1>7
    <3>2. PICK b \in X :
            /\ m[b] = SlotOf(table, after, z)
            /\ z = IF b \in Held(after) THEN <<b[1], b[2], "release">>
                                        ELSE <<b[1], b[2], "rollback">>
      BY <1>7
    <3>3. a = b
      BY <2>2, <3>1, <3>2, <1>10
    <3> QED BY <3>1, <3>2, <3>3
  <2> QED BY <2>1, <2>2 DEF DoubleFree
<1> QED BY <1>13, <1>14 DEF ys

\* The same for rows.
RowMap(batch) == [r \in DOMAIN batch |-> batch[r].req_pool_idx]

LEMMA RowsDivide ==
  RowsPartitioned /\ TypeOK =>
    /\ Divides(Rows \ pool.rows, RowMap(RunningBatch), free_slots)
    /\ RowsApart(RunningBatch)
<1> SUFFICES ASSUME RowsPartitioned, TypeOK
             PROVE  Divides(Rows \ pool.rows, RowMap(RunningBatch), free_slots)
  BY RunningApart
<1> DEFINE m == RowMap(RunningBatch)
<1>1. DOMAIN m = Running /\ \A r \in Running : m[r] = req[r].req_pool_idx
  BY DEF RowMap, RunningBatch, RestrictTo
<1> HIDE DEF m
<1>2. Divides(Rows \ pool.rows, m, free_slots)
  BY <1>1 DEF Divides, RowsPartitioned, TypeOK
<1> QED BY <1>2 DEF m

\* A step that ends by settling a batch: all is the batch before, and after the
\* batch after its rollbacks.
Settles(table, all, after, free, rows, xs, done, before) ==
  /\ table \in Tables /\ before = FALSE
  /\ Divides(Slots \ pool.taken, SlotMap(table, all), free)
  /\ Divides(Rows \ pool.rows, RowMap(all), rows)
  /\ DOMAIN after = DOMAIN all
  /\ \A r \in DOMAIN all : after[r].req_pool_idx = all[r].req_pool_idx
  /\ Held(after) \subseteq Held(all) /\ done \subseteq DOMAIN all
  /\ xs = {<<x[1], x[2], "rollback">> : x \in Held(all) \ Held(after)}
  /\ Settle(table, after, free, rows, xs, done, before)
  /\ pool' = pool /\ Running' = (DOMAIN after) \ done
  /\ \A r \in Running' : req'[r] = after[r]

\* Such a step restores the partitions.
LEMMA SettleStep ==
  ASSUME TypeOK, NEW table, NEW all, NEW after, NEW free, NEW rows, NEW xs, NEW done,
         NEW before, Settles(table, all, after, free, rows, xs, done, before)
  PROVE  /\ SlotsPartitioned' /\ RowsPartitioned' /\ NoDoubleFree' /\ double_freed' \in BOOLEAN
         /\ req_to_token' \in Tables /\ free_pages' \subseteq Slots /\ free_slots' \subseteq Rows
<1> DEFINE U == Slots \ pool.taken
           keep == (DOMAIN after) \ done
           ys == xs \cup ByRelease(RestrictTo(after, done))
           m == SlotMap(table, RestrictTo(after, keep))
<1> USE DEF Settles
<1>1. /\ Divides(U, m, free \cup SlotsOf(table, after, ys))
      /\ ~DoubleFree(table, after, free, ys)
  <2>1. 0 \notin U
    BY KVSlotsAssumption DEF Slots
  <2> HIDE DEF U
  <2>2. Divides(U, SlotMap(table, all), free)
    BY DEF U
  <2> QED BY <2>1, <2>2, SettleDivides, Zenon
<1>2. Divides(U, m, free_pages') /\ double_freed' = FALSE /\ req_to_token' = table
  BY <1>1, Zenon DEF Settle
<1>3. RunningBatch' = RestrictTo(after, keep)
  BY DEF RunningBatch, RestrictTo
<1>4. DOMAIN m = Held(RunningBatch)' /\ \A x \in DOMAIN m : m[x] = SlotOf(req_to_token, req, x)'
  BY <1>2, <1>3, ZenonT(30) DEF SlotMap, SlotOf, RestrictTo, Held
<1>5. SlotsPartitioned' /\ free_pages' \subseteq Slots
  <2> HIDE DEF m
  <2>1. free_pages' \subseteq Slots
    BY <1>2 DEF Divides
  <2> QED BY <2>1, <1>2, <1>4, DividesPartition, Zenon
<1>6. free_slots' = rows \cup {RowMap(all)[r] : r \in done}
  BY DEF Settle, RowsOf, RestrictTo, RowMap
<1>7. Divides(Rows \ pool.rows, [r \in keep |-> RowMap(all)[r]], free_slots')
  <2>1. done \subseteq DOMAIN RowMap(all) /\ keep = (DOMAIN RowMap(all)) \ done
    BY DEF RowMap
  <2> QED BY <1>6, <2>1, FreeDivides, ZenonT(30)
<1>8. \A r \in keep : req'[r].req_pool_idx = RowMap(all)[r]
  BY DEF RowMap
<1>9. RowsPartitioned' /\ free_slots' \subseteq Rows
  BY <1>7, <1>8 DEF Divides, RowsPartitioned
<1> QED BY <1>2, <1>5, <1>9, Zenon DEF NoDoubleFree

-----------------------------------------------------------------------------
(* Retraction                                                               *)

\* Retracting the requests in V frees what they hold, and nothing twice.
LEMMA RetractOK ==
  ASSUME SlotInv, NEW V, V \subseteq Running
  PROVE  /\ Divides(Slots \ pool.taken, SlotMap(req_to_token, RestrictTo(req, Running \ V)),
                    free_pages \cup SlotsBack(V))
         /\ ~RetractFreesTwice(V)
         /\ Divides(Rows \ pool.rows, RowMap(RestrictTo(req, Running \ V)),
                    free_slots \cup RowsOf(RestrictTo(req, V)))
<1> DEFINE U == Slots \ pool.taken
           ys == ByRelease(RestrictTo(req, V))
<1>1. 0 \notin U
  BY KVSlotsAssumption DEF Slots
<1>2. /\ DOMAIN RunningBatch = Running
      /\ RestrictTo(RunningBatch, V) = RestrictTo(req, V)
      /\ RestrictTo(RunningBatch, Running \ V) = RestrictTo(req, Running \ V)
  BY DEF RunningBatch, RestrictTo
<1>3. \A x : x[1] \in Running =>
        SlotOf(req_to_token, RunningBatch, x) = SlotOf(req_to_token, req, x)
  BY DEF RunningBatch, RestrictTo, SlotOf
<1>4. \A x : x[1] \in V =>
        SlotOf(req_to_token, RestrictTo(req, V), x) = SlotOf(req_to_token, req, x)
  BY DEF RestrictTo, SlotOf
<1>5. \A x \in Held(RestrictTo(req, V)) : x[1] \in V
  BY DEF Held, RestrictTo
<1>6. \A y \in ys : y[1] \in V
  BY <1>5 DEF ByRelease
<1>7. Divides(U, SlotMap(req_to_token, RunningBatch), free_pages)
  BY PartitionDivides DEF SlotInv
<1>8. /\ Divides(U, SlotMap(req_to_token, RestrictTo(RunningBatch, (DOMAIN RunningBatch) \ V)),
                 free_pages \cup SlotsOf(req_to_token, RunningBatch,
                                         {} \cup ByRelease(RestrictTo(RunningBatch, V))))
      /\ ~DoubleFree(req_to_token, RunningBatch, free_pages,
                     {} \cup ByRelease(RestrictTo(RunningBatch, V)))
  <2>1. {} = {<<x[1], x[2], "rollback">> : x \in Held(RunningBatch) \ Held(RunningBatch)}
    OBVIOUS
  <2> HIDE DEF U
  <2> QED BY <1>1, <1>2, <1>7, <2>1, SettleDivides, Zenon
<1>9. /\ Divides(U, SlotMap(req_to_token, RestrictTo(req, Running \ V)),
                 free_pages \cup SlotsOf(req_to_token, RunningBatch, ys))
      /\ ~DoubleFree(req_to_token, RunningBatch, free_pages, ys)
  <2>1. {} \cup ys = ys
    OBVIOUS
  <2> HIDE DEF U
  <2> QED BY <1>2, <1>8, <2>1
<1>10. SlotsOf(req_to_token, RunningBatch, ys) = SlotsBack(V)
  <2>1. \A y \in ys : \E x \in Held(RestrictTo(req, V)) :
          SlotOf(req_to_token, RestrictTo(req, V), x) = SlotOf(req_to_token, RunningBatch, y)
    <3> TAKE y \in ys
    <3>1. PICK x \in Held(RestrictTo(req, V)) : y = <<x[1], x[2], "release">>
      BY DEF ByRelease
    <3>2. SlotOf(req_to_token, req, x) = SlotOf(req_to_token, req, y)
      BY <3>1 DEF SlotOf
    <3> QED BY <3>2, <1>3, <1>4, <1>5, <1>6
  <2>2. \A x \in Held(RestrictTo(req, V)) : \E y \in ys :
          SlotOf(req_to_token, RestrictTo(req, V), x) = SlotOf(req_to_token, RunningBatch, y)
    <3> TAKE x \in Held(RestrictTo(req, V))
    <3>1. <<x[1], x[2], "release">> \in ys
      BY DEF ByRelease
    <3>2. SlotOf(req_to_token, req, x) = SlotOf(req_to_token, req, <<x[1], x[2], "release">>)
      BY DEF SlotOf
    <3> QED BY <3>1, <3>2, <1>3, <1>4, <1>5, <1>6
  <2> HIDE DEF ys
  <2> QED BY <2>1, <2>2 DEF SlotsOf, SlotsBack
<1>11. ~RetractFreesTwice(V)
  <2>1. \A y \in ys : SlotOf(req_to_token, RunningBatch, y) = SlotOf(req_to_token, req, y)
    BY <1>3, <1>6
  <2> QED BY <1>9, <2>1 DEF RetractFreesTwice, DoubleFree
<1>12. Divides(Rows \ pool.rows, RowMap(RestrictTo(req, Running \ V)),
               free_slots \cup RowsOf(RestrictTo(req, V)))
  <2> DEFINE m == RowMap(RunningBatch)
             n == RowMap(RestrictTo(req, Running \ V))
             G == free_slots \cup RowsOf(RestrictTo(req, V))
  <2>1. Divides(Rows \ pool.rows, m, free_slots)
    BY RowsDivide DEF SlotInv
  <2>2. DOMAIN m = Running /\ DOMAIN n = Running \ V
    BY DEF RowMap, RunningBatch, RestrictTo
  <2>3. \A r \in DOMAIN n : n[r] = m[r]
    BY DEF RowMap, RunningBatch, RestrictTo
  <2>4. G = free_slots \cup {m[r] : r \in V}
    BY Zenon DEF RowMap, RowsOf, RunningBatch, RestrictTo
  <2> HIDE DEF m, n, G
  <2>5. Divides(Rows \ pool.rows, n, G)
    BY <2>1, <2>2, <2>3, <2>4, FreeDivides
  <2> QED BY <2>5 DEF n, G
<1> QED BY <1>9, <1>10, <1>11, <1>12

\* A request after its retraction.
LEMMA RetractedOK ==
  ASSUME SlotInv, NEW r \in Running
  PROVE  /\ Retracted(req[r]) \in RequestType /\ RequestOK(r, Retracted(req[r]))
         /\ Retracted(req[r]).status = "waiting" /\ Retracted(req[r]).req_pool_idx = NoRow
BY Zenon DEF SlotInv, TypeOK, RequestType, RequestOK, Retracted, Running

LEMMA PauseRetractStep ==
  SlotInv /\ PauseRetract => SlotInv'
<1> SUFFICES ASSUME SlotInv, PauseRetract PROVE SlotInv'
  OBVIOUS
<1>1. \A r \in Reqs : /\ req'[r] \in RequestType /\ RequestOK(r, req'[r])
                      /\ req'[r].status # "running" /\ req'[r].req_pool_idx = NoRow
  BY RetractedOK DEF PauseRetract, SlotInv, TypeOK, Running
<1>2. Running' = {}
  BY <1>1 DEF Running
<1>3. Held(RunningBatch)' = {}
  BY <1>2 DEF Held, RunningBatch, RestrictTo
<1>4. /\ Divides(Slots \ pool.taken, SlotMap(req_to_token, RestrictTo(req, {})), free_pages')
      /\ ~RetractFreesTwice(Running)
      /\ Divides(Rows \ pool.rows, RowMap(RestrictTo(req, {})), free_slots')
  <2>1. Running \ Running = {}
    OBVIOUS
  <2> QED BY <2>1, RetractOK, Zenon DEF PauseRetract
<1>5. free_pages' = Slots \ pool.taken
  BY <1>4, ZenonT(30) DEF Divides, SlotMap, Held, RestrictTo
<1>6. free_slots' = Rows \ pool.rows
  BY <1>4, Zenon DEF Divides, RowMap, RestrictTo
<1>7. TypeOK'
  BY <1>1, <1>4, <1>5, <1>6 DEF SlotInv, TypeOK, PauseRetract, NoDoubleFree
<1>8. SlotsPartitioned' /\ RowsPartitioned' /\ LengthsAgree'
  BY <1>2, <1>3, <1>5, <1>6 DEF SlotsPartitioned, RowsPartitioned, LengthsAgree, PauseRetract
<1>9. NoDoubleFree'
  BY <1>4, Zenon DEF SlotInv, NoDoubleFree, PauseRetract
<1> QED BY <1>1, <1>7, <1>8, <1>9 DEF SlotInv

-----------------------------------------------------------------------------
(* The decoding iteration                                                   *)

\* A running request has room for one more position.
LEMMA RunningOK ==
  ASSUME SlotInv, NEW r \in Running
  PROVE  /\ r \in Reqs /\ req[r] \in RequestType /\ req[r].status = "running"
         /\ req[r].out \in Nat /\ req[r].verified \in Nat /\ req[r].verified <= req[r].out
         /\ Prompt[r] \in Nat /\ Prompt[r] >= 1 /\ MaxLen \in Nat
         /\ req[r].seq_len = Prompt[r] + req[r].out - 1
         /\ req[r].kv_committed_len = Prompt[r] + req[r].out - 1
         /\ req[r].kv_allocated_len = Prompt[r] + req[r].out - 1
         /\ req[r].out >= 1 /\ Prompt[r] + req[r].out < MaxLen
<1>1. r \in Reqs /\ req[r].status = "running"
  BY DEF Running
<1>2. req[r] \in RequestType /\ RequestOK(r, req[r])
  BY <1>1 DEF SlotInv, TypeOK
<1>3. req[r].out \in Nat /\ req[r].verified \in Nat /\ req[r].kv_committed_len \in Nat
  BY <1>2 DEF RequestType
<1>4. Prompt[r] \in Nat /\ Prompt[r] >= 1 /\ MaxNewTokens[r] \in Nat /\ MaxLen \in Nat
      /\ Prompt[r] + MaxNewTokens[r] <= MaxLen
  BY <1>1, KVSlotsAssumption
<1>5. /\ req[r].kv_allocated_len = req[r].kv_committed_len
      /\ req[r].seq_len = req[r].kv_committed_len
      /\ req[r].kv_committed_len = Prompt[r] + req[r].out - 1
  BY DEF SlotInv, LengthsAgree
<1>6. req[r].verified <= req[r].out /\ req[r].out < MaxNewTokens[r] /\ req[r].out > 0
  BY <1>1, <1>2 DEF RequestOK
<1>7. req[r].out >= 1 /\ Prompt[r] + req[r].out < MaxLen
  BY <1>3, <1>4, <1>6
<1> QED BY <1>1, <1>2, <1>3, <1>4, <1>5, <1>6, <1>7

\* A request of the batch after its decode: one position more.
LEMMA DecodedOK ==
  ASSUME SlotInv, NEW r \in Running, NEW q, q = Decoded(req[r])
  PROVE  /\ q \in RequestType /\ q.status = "running"
         /\ q.req_pool_idx = req[r].req_pool_idx /\ q.verified = req[r].verified
         /\ q.out = req[r].out + 1 /\ q.kv_committed_len = req[r].kv_committed_len + 1
         /\ q.kv_committed_len = Prompt[r] + q.out - 1
         /\ q.kv_allocated_len = Prompt[r] + q.out - 1 /\ q.seq_len = Prompt[r] + q.out - 1
<1> DEFINE p == req[r]
<1>1. /\ p \in RequestType /\ p.status = "running" /\ p.out \in Nat /\ Prompt[r] \in Nat
      /\ p.seq_len = Prompt[r] + p.out - 1 /\ p.kv_committed_len = Prompt[r] + p.out - 1
      /\ p.kv_allocated_len = Prompt[r] + p.out - 1
  BY RunningOK
<1> HIDE DEF p
<1>2. q = Decoded(p)
  BY DEF p
<1>3. /\ q.status = p.status
      /\ q.req_pool_idx = p.req_pool_idx /\ q.verified = p.verified
      /\ q.out = p.out + 1 /\ q.kv_committed_len = p.kv_committed_len + 1
      /\ q.kv_allocated_len = p.kv_allocated_len + 1 /\ q.seq_len = p.seq_len + 1
  BY <1>1, <1>2, Zenon DEF Decoded, RequestType
<1>4. q \in RequestType
  <2>1. p.kv_committed_len \in Nat /\ p.kv_allocated_len \in Nat /\ p.seq_len \in Nat
    BY <1>1 DEF RequestType
  <2>2. p.kv_committed_len + 1 \in Nat /\ p.kv_allocated_len + 1 \in Nat
        /\ p.seq_len + 1 \in Nat /\ p.out + 1 \in Nat
    BY <1>1, <2>1
  <2> QED BY <1>1, <1>2, <2>2, ZenonT(30) DEF Decoded, RequestType
<1> QED BY <1>1, <1>3, <1>4 DEF p

\* A verified request after a rollback: it gives up its last positions.
LEMMA RolledBackOK ==
  ASSUME SlotInv, NEW r \in Running, NEW q, q = Decoded(req[r]),
         NEW k \in Nat, k < Unverified(q), NEW a, a = RolledBack(r, q, k)
  PROVE  /\ a \in RequestType /\ a.status = "running" /\ a.req_pool_idx = q.req_pool_idx
         /\ a.out = q.out - k /\ a.verified = a.out /\ a.out >= 1
         /\ a.kv_committed_len = Prompt[r] + a.out - 1
         /\ a.kv_allocated_len = Prompt[r] + a.out - 1 /\ a.seq_len = Prompt[r] + a.out - 1
         /\ RollbackRange(r, q, k) = a.kv_committed_len..(q.kv_committed_len - 1)
<1>1. /\ q \in RequestType /\ q.status = "running"
      /\ q.verified \in Nat /\ q.out \in Nat /\ Prompt[r] \in Nat /\ Prompt[r] >= 1
      /\ q.kv_committed_len = Prompt[r] + q.out - 1
      /\ q.kv_allocated_len = Prompt[r] + q.out - 1 /\ q.seq_len = Prompt[r] + q.out - 1
  BY RunningOK, DecodedOK
<1>2. k < q.out - q.verified
  BY DEF Unverified
<1>3. q.out - k \in Nat /\ q.out - k >= 1
  BY <1>1, <1>2
<1>4. Prompt[r] + (q.out - k) - 1 \in Nat
  BY <1>1, <1>3
<1>5. a = [q EXCEPT !.out = q.out - k, !.verified = q.out - k,
             !.kv_committed_len = q.kv_committed_len - k,
             !.kv_allocated_len = q.kv_allocated_len - k,
             !.seq_len = IF k > 0 THEN Prompt[r] + (q.out - k) - 1 ELSE q.seq_len]
  BY DEF RolledBack
<1>6. /\ a.status = q.status /\ a.req_pool_idx = q.req_pool_idx
      /\ a.out = q.out - k /\ a.verified = q.out - k
      /\ a.kv_committed_len = q.kv_committed_len - k
      /\ a.kv_allocated_len = q.kv_allocated_len - k
      /\ a.seq_len = IF k > 0 THEN Prompt[r] + (q.out - k) - 1 ELSE q.seq_len
  BY <1>1, <1>5 DEF RequestType
<1>7. /\ a.kv_committed_len = Prompt[r] + (q.out - k) - 1
      /\ a.kv_allocated_len = Prompt[r] + (q.out - k) - 1
      /\ a.seq_len = Prompt[r] + (q.out - k) - 1
  BY <1>1, <1>6
<1>8. a \in RequestType
  BY <1>1, <1>3, <1>4, <1>5, <1>6, <1>7, ZenonT(30) DEF RequestType
<1>9. RollbackRange(r, q, k) = a.kv_committed_len..(q.kv_committed_len - 1)
  <2>1. (Prompt[r] + (q.out - k) - 1) + k - 1 = q.kv_committed_len - 1
    BY <1>1
  <2> QED BY <1>7, <2>1 DEF RollbackRange
<1> QED BY <1>1, <1>3, <1>6, <1>7, <1>8, <1>9

\* A decode that has retracted V and allocated slots for the rest, batch.
Decoding(V, batch, F, slots, table) ==
  /\ V \subseteq Running
  /\ batch = [r \in Running \ V |-> Decoded(req[r])]
  /\ F = free_pages \cup SlotsBack(V)
  /\ slots \in Allocations({<<r, req[r].seq_len>> : r \in Running \ V}, F)
  /\ table = WriteSlots(req_to_token, batch, slots)

DecodeAllocated(V, batch, F, slots, table) ==
  /\ table \in Tables
  /\ Divides(Slots \ pool.taken, SlotMap(table, batch), F \ RangeOf(slots))
  /\ Divides(Rows \ pool.rows, RowMap(batch), free_slots \cup RowsOf(RestrictTo(req, V)))
  /\ \A x \in Held(RestrictTo(req, Running \ V)) :
       SlotOf(table, batch, x) = SlotOf(req_to_token, req, x)

\* alloc_for_decode: every request of the batch gets a slot for its new position.
LEMMA DecodeAllocOK ==
  ASSUME SlotInv, NEW V, NEW batch, NEW F, NEW slots, NEW table,
         Decoding(V, batch, F, slots, table)
  PROVE  DecodeAllocated(V, batch, F, slots, table)
<1> DEFINE U == Slots \ pool.taken
           R == Running \ V
           D == {<<r, req[r].seq_len>> : r \in R}
           old == RestrictTo(req, R)
           m == SlotMap(req_to_token, old)
           n == SlotMap(table, batch)
<1> USE DEF Decoding
<1>1. slots \in [D -> F] /\ DOMAIN slots = D /\ \A x, y \in D : slots[x] = slots[y] => x = y
  BY AllocationsOK
<1>2. \A r \in R : /\ req[r].seq_len \in Positions /\ req[r].seq_len = req[r].kv_committed_len
                   /\ req[r].kv_committed_len \in Nat
                   /\ batch[r].kv_committed_len = req[r].kv_committed_len + 1
                   /\ batch[r].req_pool_idx = req[r].req_pool_idx
  <2> TAKE r \in R
  <2>1. /\ req[r].seq_len = Prompt[r] + req[r].out - 1 /\ Prompt[r] \in Nat /\ Prompt[r] >= 1
        /\ req[r].kv_committed_len = Prompt[r] + req[r].out - 1
        /\ req[r].out \in Nat /\ Prompt[r] + req[r].out < MaxLen /\ MaxLen \in Nat
    BY RunningOK
  <2>2. req[r].seq_len \in Positions /\ req[r].kv_committed_len \in Nat
    BY <2>1 DEF Positions
  <2>3. batch[r] = Decoded(req[r])
    OBVIOUS
  <2>4. /\ batch[r].kv_committed_len = req[r].kv_committed_len + 1
        /\ batch[r].req_pool_idx = req[r].req_pool_idx
    BY <2>3, DecodedOK
  <2> QED BY <2>1, <2>2, <2>4
<1>3. DOMAIN batch = R /\ DOMAIN old = R /\ \A r \in R : old[r] = req[r]
  BY DEF RestrictTo
<1>4. RowsApart(batch)
  <2>1. RowsApart(RunningBatch)
    BY RowsDivide DEF SlotInv
  <2> QED BY <2>1, <1>2, <1>3 DEF RowsApart, RunningBatch, RestrictTo
<1>5. InRows(D, batch)
  BY <1>2, <1>3 DEF InRows
<1>6. Divides(U, m, F)
  BY RetractOK, Zenon
<1>7. F \subseteq Slots
  BY <1>6 DEF Divides
<1>8. /\ table \in Tables
      /\ \A x \in D : SlotOf(table, batch, x) = slots[x]
      /\ \A x \in (DOMAIN batch) \X Positions :
           x \notin D => SlotOf(table, batch, x) = SlotOf(req_to_token, batch, x)
  <2>1. req_to_token \in Tables
    BY DEF SlotInv, TypeOK, Tables, Positions
  <2>2. table = WriteSlots(req_to_token, batch, slots)
    OBVIOUS
  <2> HIDE DEF D
  <2> QED BY ONLY <1>1, <1>4, <1>5, <1>7, <2>1, <2>2, WriteSlotsOK
<1>9. Held(batch) = Held(old) \cup D
  <2>1. ASSUME NEW r \in R, NEW p \in Positions
        PROVE  p < batch[r].kv_committed_len <=>
               (p < old[r].kv_committed_len \/ p = req[r].seq_len)
    <3>1. p \in Int
      BY DEF Positions
    <3> QED BY <3>1, <1>2, <1>3
  <2>2. \A x \in Held(batch) : x \in Held(old) \/ x \in D
    BY <2>1, <1>3 DEF Held, Positions
  <2>3. \A x \in Held(old) : x \in Held(batch)
    BY <2>1, <1>3, ZenonT(30) DEF Held, Positions
  <2>4. \A r \in R : <<r, req[r].seq_len>> \in Held(batch)
    BY <2>1, <1>2, <1>3 DEF Held, Positions
  <2> QED BY <2>2, <2>3, <2>4, ZenonT(30)
<1>10. \A x \in D : x \notin Held(old)
  BY <1>2, <1>3 DEF Held
<1>11. \A x \in Held(old) : SlotOf(table, batch, x) = SlotOf(req_to_token, old, x)
                           /\ SlotOf(table, batch, x) = SlotOf(req_to_token, req, x)
  <2> TAKE x \in Held(old)
  <2>1. x \in (DOMAIN batch) \X Positions /\ x[1] \in R
    BY <1>3 DEF Held, Positions
  <2>2. SlotOf(table, batch, x) = SlotOf(req_to_token, batch, x)
    BY <1>8, <1>10, <2>1
  <2> QED BY <2>1, <2>2, <1>2, <1>3, ZenonT(30) DEF SlotOf
<1>12. /\ DOMAIN m = Held(old) /\ DOMAIN n = Held(batch)
       /\ \A x \in D : n[x] = slots[x]
       /\ \A x \in Held(old) : n[x] = m[x]
  BY <1>8, <1>9, <1>11, Zenon DEF SlotMap
<1>13. F \ RangeOf(slots) = F \ {slots[x] : x \in D}
  BY <1>1 DEF RangeOf
<1>14. Divides(U, n, F \ RangeOf(slots))
  <2> HIDE DEF U, D, m, n, old, Decoding
  <2>1. DOMAIN n = (DOMAIN m) \cup D /\ \A x \in D : x \notin DOMAIN m
    BY <1>9, <1>10, <1>12
  <2>2. \A x \in DOMAIN m : n[x] = m[x]
    BY <1>12
  <2>3. \A x \in D : n[x] = slots[x]
    BY <1>12
  <2> DEFINE G == F \ RangeOf(slots)
  <2>4. G = F \ {slots[x] : x \in D}
    BY <1>13
  <2>5. slots \in [D -> F] /\ \A x, y \in D : slots[x] = slots[y] => x = y
    BY <1>1
  <2> HIDE DEF G
  <2>6. Divides(U, n, G)
    BY ONLY <1>6, <2>1, <2>2, <2>3, <2>4, <2>5, AllocDivides, SMTT(60)
  <2> QED BY <2>6 DEF G
<1>15. RowMap(batch) = RowMap(old)
  BY <1>2, <1>3, Zenon DEF RowMap
<1>16. Divides(Rows \ pool.rows, RowMap(old), free_slots \cup RowsOf(RestrictTo(req, V)))
  BY RetractOK, Zenon
<1> QED BY <1>8, <1>11, <1>14, <1>15, <1>16, Zenon DEF DecodeAllocated

LEMMA VerifySetsOK ==
  ASSUME NEW batch, NEW finished, NEW chosen \in VerifySets(batch, finished)
  PROVE  chosen \subseteq DOMAIN batch
<1> DEFINE all == {r \in (DOMAIN batch) \cap Deterministic : Unverified(batch[r]) > 0}
           ready == {r \in all : r \in finished \/ Unverified(batch[r]) >= WindowSize}
<1>1. CASE pool.ok
  <2>1. chosen \in FixedGroupSets(all, ready, FixedSize)
    BY <1>1 DEF VerifySets
  <2>2. PICK f \in SUBSET (all \ ready) : chosen = ready \cup f
    <3> HIDE DEF all, ready
    <3> QED BY <2>1 DEF FixedGroupSets
  <2> QED BY <2>2
<1>2. CASE ~pool.ok
  BY <1>2 DEF VerifySets
<1> QED BY <1>1, <1>2

\* The batch after the verification, request by request.
BatchOK(batch, after, r) ==
  /\ after[r] \in RequestType /\ after[r].status = "running"
  /\ after[r].req_pool_idx = req[r].req_pool_idx
  /\ after[r].req_pool_idx = batch[r].req_pool_idx
  /\ after[r].verified <= after[r].out /\ after[r].out >= 1
  /\ after[r].kv_committed_len = Prompt[r] + after[r].out - 1
  /\ after[r].kv_allocated_len = Prompt[r] + after[r].out - 1
  /\ after[r].seq_len = Prompt[r] + after[r].out - 1
  /\ after[r].kv_committed_len \in Nat /\ batch[r].kv_committed_len \in Nat
  /\ after[r].kv_committed_len <= batch[r].kv_committed_len
  /\ batch[r].kv_committed_len <= MaxLen

RollsBack(batch, chosen, rolled, after) ==
  /\ chosen \subseteq DOMAIN batch
  /\ rolled \in Rollbacks(batch, chosen)
  /\ after = [r \in DOMAIN batch |->
                IF r \in chosen THEN RolledBack(r, batch[r], rolled[r]) ELSE batch[r]]

LEMMA RollbackOK ==
  ASSUME SlotInv, NEW V, NEW batch, NEW F, NEW slots, NEW table,
         Decoding(V, batch, F, slots, table),
         NEW chosen, NEW rolled, NEW after, RollsBack(batch, chosen, rolled, after)
  PROVE  /\ \A r \in Running \ V : BatchOK(batch, after, r)
         /\ Held(after) \subseteq Held(batch)
         /\ ByRollback(batch, rolled)
              = {<<x[1], x[2], "rollback">> : x \in Held(batch) \ Held(after)}
<1> DEFINE Range(r) == after[r].kv_committed_len..(batch[r].kv_committed_len - 1)
<1>0. DOMAIN batch = Running \ V /\ DOMAIN after = Running \ V /\ MaxLen \in Nat
  BY KVSlotsAssumption DEF Decoding, RollsBack
<1>1. DOMAIN rolled = chosen /\ \A r \in chosen : rolled[r] \in Nat /\ rolled[r] < Unverified(batch[r])
  <2>1. rolled \in Rollbacks(batch, chosen)
    BY DEF RollsBack
  <2> QED BY ONLY <1>0, <2>1 DEF Rollbacks
<1>2. ASSUME NEW r \in Running \ V
      PROVE  /\ BatchOK(batch, after, r)
             /\ r \in chosen => RollbackRange(r, batch[r], rolled[r]) = Range(r)
             /\ r \notin chosen => after[r].kv_committed_len = batch[r].kv_committed_len
  <2> DEFINE q == batch[r]
             a == after[r]
  <2>1. /\ r \in Running /\ q = Decoded(req[r])
        /\ r \in chosen => a = RolledBack(r, q, rolled[r])
        /\ r \notin chosen => a = q
    BY <1>0 DEF Decoding, RollsBack
  <2> HIDE DEF q, a
  <2>2. /\ Prompt[r] \in Nat /\ Prompt[r] >= 1 /\ req[r].out \in Nat /\ req[r].verified \in Nat
        /\ req[r].verified <= req[r].out /\ Prompt[r] + req[r].out < MaxLen
    BY <2>1, RunningOK, ZenonT(30)
  <2>3. /\ q \in RequestType /\ q.status = "running"
        /\ q.req_pool_idx = req[r].req_pool_idx /\ q.verified = req[r].verified
        /\ q.out = req[r].out + 1 /\ q.kv_committed_len = Prompt[r] + q.out - 1
        /\ q.kv_allocated_len = Prompt[r] + q.out - 1 /\ q.seq_len = Prompt[r] + q.out - 1
    BY <2>1, DecodedOK, ZenonT(30)
  <2>4. q.kv_committed_len \in Nat /\ q.kv_committed_len <= MaxLen
        /\ q.verified <= q.out /\ q.out >= 1 /\ q.out \in Nat
    BY <1>0, <2>2, <2>3
  <2>5. CASE r \in chosen
    <3> DEFINE k == rolled[r]
    <3>1. k \in Nat /\ k < Unverified(q)
      BY <1>1, <2>5, ZenonT(30) DEF q
    <3>2. a = RolledBack(r, q, k)
      BY <2>1, <2>5
    <3> HIDE DEF k
    <3>3. /\ a \in RequestType /\ a.status = "running" /\ a.req_pool_idx = q.req_pool_idx
          /\ a.out = q.out - k /\ a.verified = a.out /\ a.out >= 1
          /\ a.kv_committed_len = Prompt[r] + a.out - 1
          /\ a.kv_allocated_len = Prompt[r] + a.out - 1 /\ a.seq_len = Prompt[r] + a.out - 1
          /\ RollbackRange(r, q, k) = a.kv_committed_len..(q.kv_committed_len - 1)
      BY ONLY SlotInv, <2>1, <3>1, <3>2, RolledBackOK
    <3>4. a.out \in Nat /\ a.kv_committed_len \in Nat
          /\ a.kv_committed_len <= q.kv_committed_len /\ a.verified <= a.out
      <4>1. a.out \in Nat /\ a.kv_committed_len \in Nat
        BY <3>3, Zenon DEF RequestType
      <4>2. a.out <= q.out
        <5>1. PICK x, y : x = a.out /\ y = q.out
          OBVIOUS
        <5>2. x = y - k /\ x \in Nat /\ y \in Nat /\ k \in Nat
          BY ONLY <2>4, <3>1, <3>3, <4>1, <5>1
        <5> QED BY ONLY <5>1, <5>2
      <4>3. Prompt[r] + a.out - 1 <= Prompt[r] + q.out - 1
        <5>1. PICK p, x, y : p = Prompt[r] /\ x = a.out /\ y = q.out
          OBVIOUS
        <5>2. p \in Nat /\ x \in Nat /\ y \in Nat /\ x <= y
          BY ONLY <2>2, <2>4, <4>1, <4>2, <5>1
        <5>3. p + x - 1 <= p + y - 1
          BY ONLY <5>2
        <5> QED BY ONLY <5>1, <5>3
      <4>4. a.kv_committed_len <= q.kv_committed_len
        BY <2>3, <3>3, <4>3, ZenonT(30)
      <4>5. a.verified <= a.out
        BY <3>3, <4>1
      <4> QED BY ONLY <4>1, <4>4, <4>5
    <3> QED BY <2>3, <2>4, <2>5, <3>3, <3>4, ZenonT(30) DEF BatchOK, q, a, k
  <2>6. CASE r \notin chosen
    <3>1. a = q
      BY <2>1, <2>6
    <3>2. q.kv_committed_len <= q.kv_committed_len
      BY <2>4
    <3> QED BY <2>3, <2>4, <2>6, <3>1, <3>2, ZenonT(30) DEF BatchOK, q, a
  <2> QED BY <2>5, <2>6, ZenonT(30)
<1>3. \A r \in Running \ V : /\ after[r].kv_committed_len \in Nat /\ batch[r].kv_committed_len \in Nat
                             /\ after[r].kv_committed_len <= batch[r].kv_committed_len
                             /\ batch[r].kv_committed_len <= MaxLen
  BY <1>2, ZenonT(30) DEF BatchOK
<1>4. Held(after) \subseteq Held(batch)
  <2>1. ASSUME NEW x \in Held(after) PROVE x \in Held(batch)
    <3>1. /\ x \in (Running \ V) \X (0..(MaxLen - 1)) /\ x[1] \in Running \ V /\ x[2] \in Int
          /\ x[2] < after[x[1]].kv_committed_len
      BY <1>0 DEF Held
    <3>2. x[2] < batch[x[1]].kv_committed_len
      BY ONLY <1>3, <3>1
    <3> QED BY <1>0, <3>1, <3>2, ZenonT(30) DEF Held
  <2> QED BY <2>1
<1>5. \A y \in ByRollback(batch, rolled) :
        \E x \in Held(batch) \ Held(after) : y = <<x[1], x[2], "rollback">>
  <2> TAKE y \in ByRollback(batch, rolled)
  <2>1. PICK r \in chosen : y \in {<<r, p, "rollback">> : p \in RollbackRange(r, batch[r], rolled[r])}
    BY <1>1, Zenon DEF ByRollback
  <2>2. r \in Running \ V /\ RollbackRange(r, batch[r], rolled[r]) = Range(r)
    BY <1>0, <1>2, Zenon DEF RollsBack
  <2>3. PICK p \in Range(r) : y = <<r, p, "rollback">>
    BY <2>1, <2>2, ZenonT(30)
  <2>4. p \in 0..(MaxLen - 1) /\ p < batch[r].kv_committed_len /\ ~(p < after[r].kv_committed_len)
    <3>1. p \in Range(r)
      OBVIOUS
    <3> QED BY ONLY <1>0, <1>3, <2>2, <3>1
  <2>5. <<r, p>> \in Held(batch) \ Held(after)
    BY <1>0, <2>2, <2>4, ZenonT(30) DEF Held
  <2> QED BY <2>3, <2>5, ZenonT(30)
<1>6. \A x \in Held(batch) \ Held(after) : <<x[1], x[2], "rollback">> \in ByRollback(batch, rolled)
  <2> TAKE x \in Held(batch) \ Held(after)
  <2>1. /\ x[1] \in Running \ V /\ x[2] \in Int /\ x[2] < batch[x[1]].kv_committed_len
        /\ ~(x[2] < after[x[1]].kv_committed_len)
    <3>1. x \in Held(batch) /\ x \notin Held(after)
      OBVIOUS
    <3> QED BY ONLY <1>0, <3>1 DEF Held
  <2>2. x[1] \in chosen
    <3>1. x[1] \notin chosen => after[x[1]].kv_committed_len = batch[x[1]].kv_committed_len
      BY ONLY <1>2, <2>1
    <3> QED BY ONLY <2>1, <3>1
  <2>3. x[2] \in Range(x[1])
    BY ONLY <1>3, <2>1
  <2>4. x[2] \in RollbackRange(x[1], batch[x[1]], rolled[x[1]])
    BY ONLY <1>2, <2>1, <2>2, <2>3, Zenon
  <2> QED BY ONLY <1>1, <2>2, <2>4 DEF ByRollback
<1>7. \A r \in Running \ V : BatchOK(batch, after, r)
  BY <1>2, Zenon
<1>8. ByRollback(batch, rolled)
        = {<<x[1], x[2], "rollback">> : x \in Held(batch) \ Held(after)}
  BY ONLY <1>5, <1>6
<1> QED BY ONLY <1>4, <1>7, <1>8

\* What VerifiedSlotsStay says of a step.
Stays ==
  \A r \in Running :
    req'[r].status = "running" =>
      \A p \in 0..(Prompt[r] + req[r].verified - 2) :
        SlotOf(req_to_token', req', <<r, p>>) = SlotOf(req_to_token, req, <<r, p>>)

LEMMA VerifyStep ==
  ASSUME SlotInv, NEW V, NEW batch, NEW F, NEW slots, NEW table,
         Decoding(V, batch, F, slots, table), NEW free, free = F \ RangeOf(slots),
         NEW finished, NEW chosen, chosen \subseteq DOMAIN batch,
         VerifyAndRelease(V, table, batch, free, finished, chosen)
  PROVE  SlotInv' /\ Stays
<1> DEFINE R == Running \ V
           rows == free_slots \cup RowsOf(RestrictTo(req, V))
           before == double_freed \/ RetractFreesTwice(V)
<1>1. /\ table \in Tables
      /\ Divides(Slots \ pool.taken, SlotMap(table, batch), free)
      /\ Divides(Rows \ pool.rows, RowMap(batch), rows)
      /\ \A x \in Held(RestrictTo(req, R)) : SlotOf(table, batch, x) = SlotOf(req_to_token, req, x)
  <2>1. DecodeAllocated(V, batch, F, slots, table)
    BY DecodeAllocOK
  <2> QED BY <2>1, Zenon DEF DecodeAllocated
<1>2. PICK rolled \in Rollbacks(batch, chosen) :
      \E after \in {[r \in DOMAIN batch |->
                     IF r \in chosen THEN RolledBack(r, batch[r], rolled[r]) ELSE batch[r]]} :
      \E done \in FinishSets(after) :
        /\ req' = [r \in Reqs |-> IF r \in V THEN Retracted(req[r])
                                 ELSE IF r \in DOMAIN batch THEN AfterSettle(after, done)[r]
                                 ELSE req[r]]
        /\ Settle(table, after, free, rows, ByRollback(batch, rolled), done, before)
  BY ZenonT(30) DEF VerifyAndRelease
<1> DEFINE after == [r \in DOMAIN batch |->
                      IF r \in chosen THEN RolledBack(r, batch[r], rolled[r]) ELSE batch[r]]
<1>3. PICK done \in FinishSets(after) :
        /\ req' = [r \in Reqs |-> IF r \in V THEN Retracted(req[r])
                                 ELSE IF r \in DOMAIN batch THEN AfterSettle(after, done)[r]
                                 ELSE req[r]]
        /\ Settle(table, after, free, rows, ByRollback(batch, rolled), done, before)
  BY <1>2, ZenonT(30)
<1>4. /\ \A r \in R : BatchOK(batch, after, r)
      /\ Held(after) \subseteq Held(batch)
      /\ ByRollback(batch, rolled)
           = {<<x[1], x[2], "rollback">> : x \in Held(batch) \ Held(after)}
  <2>1. RollsBack(batch, chosen, rolled, after)
    BY DEF RollsBack
  <2> HIDE DEF after
  <2> QED BY <2>1, RollbackOK, ZenonT(30)
<1>5. DOMAIN batch = R /\ DOMAIN after = R /\ R \subseteq Reqs
  BY ZenonT(30) DEF Running, Decoding
<1> HIDE DEF after
<1>6. done \subseteq R /\ \A r \in R \ done : ~(after[r].out >= MaxNewTokens[r])
  BY <1>3, <1>5, ZenonT(30) DEF FinishSets
<1>7. pool' = pool /\ crashed' = crashed
  BY ZenonT(30) DEF VerifyAndRelease
<1>8. \A r \in R \ done : req'[r] = after[r]
  BY <1>3, <1>5, ZenonT(30) DEF AfterSettle
<1>9. \A r \in done : req'[r] = Released(after[r])
  BY <1>3, <1>5, <1>6, ZenonT(30) DEF AfterSettle
<1>10. \A r \in V : req'[r] = Retracted(req[r])
  BY <1>3, ZenonT(30) DEF Running, Decoding
<1>11. \A r \in Reqs \ Running : req'[r] = req[r]
  BY <1>3, <1>5, ZenonT(30) DEF Decoding
<1>12. ASSUME NEW r \in Reqs
       PROVE  /\ req'[r] \in RequestType /\ RequestOK(r, req'[r])
              /\ req'[r].status = "running" <=> req'[r].req_pool_idx # NoRow
              /\ req'[r].status = "running" <=> r \in R \ done
  <2>1. CASE r \in R \ done
    <3>1. /\ after[r] \in RequestType /\ after[r].status = "running"
          /\ after[r].req_pool_idx = req[r].req_pool_idx
          /\ after[r].verified <= after[r].out /\ after[r].out >= 1
      BY <1>4, <2>1, Zenon DEF BatchOK
    <3>2. after[r].out < MaxNewTokens[r] /\ after[r].out > 0
      <4>1. after[r].out \in Nat /\ MaxNewTokens[r] \in Nat
        BY <3>1, KVSlotsAssumption, ZenonT(30) DEF RequestType
      <4>2. ~(after[r].out >= MaxNewTokens[r]) /\ after[r].out >= 1
        BY <1>6, <2>1, <3>1, Zenon
      <4> QED BY ONLY <4>1, <4>2
    <3>3. req[r].req_pool_idx # NoRow
      BY <2>1 DEF SlotInv, TypeOK, Running
    <3> QED BY <1>8, <2>1, <3>1, <3>2, <3>3, ZenonT(30) DEF RequestOK
  <2>2. CASE r \in done
    <3>1. after[r] \in RequestType /\ after[r].verified <= after[r].out
      BY <1>4, <1>6, <2>2, Zenon DEF BatchOK
    <3>2. /\ Released(after[r]) \in RequestType /\ Released(after[r]).status = "done"
          /\ Released(after[r]).req_pool_idx = NoRow
          /\ Released(after[r]).verified <= Released(after[r]).out
      BY ONLY <3>1, Zenon DEF Released, RequestType
    <3>3. req'[r] = Released(after[r]) /\ r \notin R \ done
      BY <1>9, <2>2, Zenon
    <3> QED BY ONLY <3>2, <3>3 DEF RequestOK
  <2>3. CASE r \in V
    BY <1>10, <2>3, RetractedOK, <1>6, ZenonT(30) DEF Decoding
  <2>4. CASE r \in Reqs \ Running
    BY <1>11, <2>4, ZenonT(30) DEF SlotInv, TypeOK, Running
  <2> QED BY <2>1, <2>2, <2>3, <2>4, ZenonT(30)
<1>13. Running' = R \ done
  BY <1>5, <1>12, ZenonT(30) DEF Running
<1>14. ~before
  <2>1. V \subseteq Running
    BY ZenonT(30) DEF Decoding
  <2> QED BY <2>1, RetractOK, ZenonT(30) DEF SlotInv, NoDoubleFree
<1>15. \A r \in R : after[r].req_pool_idx = batch[r].req_pool_idx
  BY <1>4, Zenon DEF BatchOK
<1>16. /\ SlotsPartitioned' /\ RowsPartitioned' /\ NoDoubleFree' /\ double_freed' \in BOOLEAN
       /\ req_to_token' \in Tables /\ free_pages' \subseteq Slots /\ free_slots' \subseteq Rows
  <2>1. TypeOK
    BY DEF SlotInv
  <2> HIDE DEF rows, before
  <2>2. Running' = (DOMAIN after) \ done /\ \A r \in Running' : req'[r] = after[r]
    BY <1>5, <1>8, <1>13, ZenonT(30)
  <2>3. \A r \in DOMAIN batch : after[r].req_pool_idx = batch[r].req_pool_idx
    BY <1>5, <1>15
  <2>4. DOMAIN after = DOMAIN batch /\ done \subseteq DOMAIN batch
    BY <1>5, <1>6
  <2>5. Settle(table, after, free, rows, ByRollback(batch, rolled), done, before)
    BY <1>3, ZenonT(30)
  <2>6. before = FALSE
    BY <1>14 DEF before, SlotInv, TypeOK, RetractFreesTwice, DoubleFree
  <2>7. Settles(table, batch, after, free, rows, ByRollback(batch, rolled), done, before)
    BY <1>1, <1>4, <1>7, <2>2, <2>3, <2>4, <2>5, <2>6, ZenonT(30) DEF Settles
  <2> QED BY ONLY <2>1, <2>7, SettleStep
<1>17. TypeOK'
  <2>1. req' \in [Reqs -> RequestType]
    BY <1>3, <1>12, ZenonT(30)
  <2> QED BY <1>7, <1>12, <1>16, <2>1 DEF SlotInv, TypeOK, Tables, Positions
<1>18. LengthsAgree'
  <2>1. ASSUME NEW r \in Running'
        PROVE  /\ req'[r].kv_allocated_len = req'[r].kv_committed_len
               /\ req'[r].seq_len = req'[r].kv_committed_len
               /\ req'[r].kv_committed_len = Prompt[r] + req'[r].out - 1
    <3>1. r \in R /\ req'[r] = after[r]
      BY <1>8, <1>13, ZenonT(30)
    <3>2. BatchOK(batch, after, r)
      BY ONLY <1>4, <3>1
    <3> QED BY ONLY <3>1, <3>2 DEF BatchOK
  <2> QED BY ONLY <2>1 DEF LengthsAgree
<1>19. SlotInv'
  BY <1>12, <1>16, <1>17, <1>18, ZenonT(30) DEF SlotInv
<1>20. Stays
  <2> SUFFICES ASSUME NEW r \in Running, req'[r].status = "running",
                      NEW p \in 0..(Prompt[r] + req[r].verified - 2)
               PROVE  SlotOf(req_to_token', req', <<r, p>>) = SlotOf(req_to_token, req, <<r, p>>)
    BY ZenonT(30) DEF Stays
  <2>1. r \in R \ done
    BY <1>12, ZenonT(30) DEF Running
  <2>2. /\ req[r].out \in Nat /\ req[r].verified \in Nat /\ req[r].verified <= req[r].out
        /\ Prompt[r] \in Nat /\ MaxLen \in Nat /\ Prompt[r] + req[r].out < MaxLen
        /\ req[r].kv_committed_len = Prompt[r] + req[r].out - 1
    BY RunningOK, ZenonT(30)
  <2>3. p \in 0..(MaxLen - 1) /\ p < req[r].kv_committed_len
    BY <2>2
  <2>4. <<r, p>> \in Held(RestrictTo(req, R))
    BY <2>1, <2>3, ZenonT(30) DEF Held, RestrictTo
  <2>5. SlotOf(table, batch, <<r, p>>) = SlotOf(req_to_token, req, <<r, p>>)
    BY <1>1, <2>4, ZenonT(30)
  <2>6. req_to_token' = table /\ req'[r].req_pool_idx = batch[r].req_pool_idx
    BY <1>3, <1>8, <1>15, <2>1, Zenon DEF Settle
  <2> QED BY <2>5, <2>6, ZenonT(30) DEF SlotOf
<1> QED BY <1>19, <1>20

LEMMA CrashStep ==
  SlotInv /\ Crash => SlotInv' /\ Stays
<1> SUFFICES ASSUME SlotInv, Crash PROVE SlotInv' /\ Stays
  OBVIOUS
<1> USE DEF Crash
<1>1. TypeOK'
  BY DEF SlotInv, TypeOK
<1>2. Running' = Running /\ RunningBatch' = RunningBatch
  BY DEF Running, RunningBatch
<1>3. SlotsPartitioned' /\ RowsPartitioned' /\ NoDoubleFree' /\ LengthsAgree'
  BY <1>2, ZenonT(30) DEF SlotInv, SlotsPartitioned, RowsPartitioned, NoDoubleFree, LengthsAgree
<1>4. Stays
  BY DEF Stays
<1> QED BY <1>1, <1>3, <1>4 DEF SlotInv

LEMMA DecodeStepOK ==
  SlotInv /\ DecodeStep => SlotInv' /\ Stays
<1> SUFFICES ASSUME SlotInv, DecodeStep, ~Crash PROVE SlotInv' /\ Stays
  BY CrashStep
<1>1. PICK V \in SUBSET Running :
      \E slots \in Allocations({<<r, req[r].seq_len>> : r \in Running \ V},
                               free_pages \cup SlotsBack(V)) :
      \E batch \in {[r \in Running \ V |-> Decoded(req[r])]} :
      \E free \in {(free_pages \cup SlotsBack(V)) \ RangeOf(slots)} :
      \E finished \in FinishSets(batch) :
      \E chosen \in VerifySets(batch, finished) :
        VerifyAndRelease(V, WriteSlots(req_to_token, batch, slots), batch, free, finished, chosen)
  BY ZenonT(30) DEF DecodeStep
<1> DEFINE F == free_pages \cup SlotsBack(V)
           batch == [r \in Running \ V |-> Decoded(req[r])]
<1>2. PICK slots \in Allocations({<<r, req[r].seq_len>> : r \in Running \ V}, F) :
      \E finished \in FinishSets(batch) :
      \E chosen \in VerifySets(batch, finished) :
        VerifyAndRelease(V, WriteSlots(req_to_token, batch, slots), batch,
                         F \ RangeOf(slots), finished, chosen)
  BY <1>1, ZenonT(30)
<1>3. PICK finished \in FinishSets(batch) :
      \E chosen \in VerifySets(batch, finished) :
        VerifyAndRelease(V, WriteSlots(req_to_token, batch, slots), batch,
                         F \ RangeOf(slots), finished, chosen)
  BY <1>2, ZenonT(30)
<1>4. PICK chosen \in VerifySets(batch, finished) :
        VerifyAndRelease(V, WriteSlots(req_to_token, batch, slots), batch,
                         F \ RangeOf(slots), finished, chosen)
  BY <1>3, ZenonT(30)
<1> DEFINE table == WriteSlots(req_to_token, batch, slots)
           free == F \ RangeOf(slots)
<1>5. Decoding(V, batch, F, slots, table)
  BY ZenonT(30) DEF Decoding
<1>6. VerifyAndRelease(V, table, batch, free, finished, chosen)
  BY <1>4, ZenonT(30)
<1>7. free = F \ RangeOf(slots)
  OBVIOUS
<1> HIDE DEF F, batch, table, free
<1>8. chosen \subseteq DOMAIN batch
  BY VerifySetsOK
<1> QED BY <1>5, <1>6, <1>7, <1>8, VerifyStep, Zenon
=============================================================================

------------------------- MODULE VerifyBatchLemmas --------------------------
(***************************************************************************)
(* What the operators of VerifyBatch compute, for every batch of requests, *)
(* window size and group size: the inputs and the cache locations of one   *)
(* group, its padding, the rows that are compared, and what a request is   *)
(* after its pass.                                                         *)
(***************************************************************************)
EXTENDS VerifyBatch, ListLemmas

-----------------------------------------------------------------------------
(* One request of a group                                                  *)

RequestOK(q) ==
  /\ q \in RequestType
  /\ q.verified <= Len(q.output_ids) /\ q.logprobs = q.output_ids

\* A request that has something to verify.
Pending(q) == RequestOK(q) /\ Unverified(q) > 0

\* What from_requests makes of a request: the window is all there is to verify,
\* unless the fixed pool cuts it.
WinOK(q, w) ==
  /\ w.actual_len \in Nat \ {0} /\ w.padded_len \in Nat \ {0}
  /\ w.actual_len <= w.padded_len
  /\ Unverified(q) <= w.padded_len => w.actual_len = Unverified(q)
  /\ Unverified(q) > w.padded_len <=> fixed_pool /\ Unverified(q) > WindowSize
  /\ fixed_pool => w.padded_len = WindowSize

\* What a verification batch is made of.
Input == Token \cup {Dummy}

LEMMA RepeatOK ==
  ASSUME NEW X, NEW x \in X, NEW n \in Int
  PROVE  /\ Repeat(x, n) \in Seq(X)
         /\ Len(Repeat(x, n)) = IF n > 0 THEN n ELSE 0
         /\ \A j \in 1..n : Repeat(x, n)[j] = x
<1>1. CASE n \in Nat /\ n > 0
  <2>1. Repeat(x, n) \in [1..n -> X] /\ \A j \in 1..n : Repeat(x, n)[j] = x
    BY <1>1 DEF Repeat
  <2> QED
    BY <1>1, <2>1, TupleOK
<1>2. CASE ~(n \in Nat /\ n > 0)
  <2>1. 1..n = {} /\ ~(n > 0)
    BY <1>2
  <2>2. Repeat(x, n) = <<>>
    BY <2>1 DEF Repeat
  <2> QED
    BY <2>1, <2>2
<1> QED
  BY <1>1, <1>2

LEMMA UnverifiedOK ==
  ASSUME NEW q, Pending(q)
  PROVE  /\ Unverified(q) \in Nat \ {0} /\ Unverified(q) = Len(q.output_ids) - q.verified
         /\ q.verified \in Nat /\ q.prompt \in Nat \ {0}
         /\ q.output_ids \in Seq(Token) /\ Len(q.output_ids) \in Nat
         /\ UnverifiedIds(q) \in Seq(Token) /\ Len(UnverifiedIds(q)) = Unverified(q)
         /\ \A j \in 1..Unverified(q) : UnverifiedIds(q)[j] = q.output_ids[q.verified + j]
         /\ ContextIdx(q) \in Nat /\ ContextIdx(q) = q.prompt + q.verified - 1
         /\ CurrentSeqLen(q) = ContextIdx(q) + Unverified(q)
<1> DEFINE n == Len(q.output_ids)
           v == q.verified
           u == Unverified(q)
<1>1. /\ v \in Nat /\ q.prompt \in Nat \ {0} /\ q.output_ids \in Seq(Token)
      /\ n \in Nat /\ u = n - v /\ u > 0
  BY DEF Pending, RequestOK, RequestType, Unverified
<1>2. u \in Nat \ {0} /\ v + 1 \in Nat \ {0} /\ v + 1 <= n /\ n - (v + 1) + 1 = u
  BY <1>1
<1>3. /\ UnverifiedIds(q) \in Seq(Token)
      /\ Len(UnverifiedIds(q)) = n - (v + 1) + 1
      /\ \A j \in 1..Len(UnverifiedIds(q)) :
           UnverifiedIds(q)[j] = q.output_ids[v + 1 + j - 1]
  <2>1. PICK a, b : a = v + 1 /\ b = n
    BY Zenon
  <2>2. a \in Nat \ {0} /\ b \in Nat /\ b <= Len(q.output_ids) /\ a <= b
    BY <1>1, <1>2, <2>1
  <2>3. /\ SubSeq(q.output_ids, a, b) \in Seq(Token)
        /\ Len(SubSeq(q.output_ids, a, b)) = b - a + 1
        /\ \A j \in 1..Len(SubSeq(q.output_ids, a, b)) :
             SubSeq(q.output_ids, a, b)[j] = q.output_ids[a + j - 1]
    BY ONLY <1>1, <2>2, SubSeqOK
  <2>4. UnverifiedIds(q) = SubSeq(q.output_ids, a, b)
    BY ONLY <2>1 DEF UnverifiedIds
  <2> QED
    BY ONLY <2>1, <2>3, <2>4, Zenon
<1>4. \A j \in 1..u : UnverifiedIds(q)[j] = q.output_ids[v + j]
  <2> TAKE j \in 1..u
  <2>1. v + 1 + j - 1 = v + j
    BY <1>1
  <2> QED
    BY <1>2, <1>3, <2>1
<1>5. /\ ContextIdx(q) \in Nat /\ ContextIdx(q) = q.prompt + v - 1
      /\ CurrentSeqLen(q) = ContextIdx(q) + u
  <2>1. PICK pr : pr = q.prompt
    OBVIOUS
  <2>2. ContextIdx(q) = pr + v - 1 /\ CurrentSeqLen(q) = pr + n - 1
    BY ONLY <2>1 DEF ContextIdx, CurrentSeqLen
  <2>3. pr \in Nat \ {0} /\ v \in Nat /\ n \in Nat /\ u = n - v
    BY ONLY <1>1, <2>1
  <2> HIDE DEF n, v, u
  <2>4. pr + v - 1 \in Nat /\ pr + n - 1 = (pr + v - 1) + u
    BY ONLY <2>3
  <2> QED
    BY ONLY <2>1, <2>2, <2>4
<1> QED
  BY <1>1, <1>2, <1>3, <1>4, <1>5

\* The tokens at the positions of the window.
LEMMA TokenAtOK ==
  ASSUME NEW q, Pending(q), NEW i \in Nat
  PROVE  /\ \A x \in 0..(CurrentSeqLen(q) - 1) : TokenAt(i, q, x) \in Token
         /\ \A j \in 1..(Unverified(q) - 1) :
              TokenAt(i, q, ContextIdx(q) + j) = UnverifiedIds(q)[j]
<1> DEFINE p == q.prompt
           v == q.verified
           u == Unverified(q)
           n == Len(q.output_ids)
<1>1. /\ u \in Nat \ {0} /\ u = n - v /\ v \in Nat /\ p \in Nat \ {0} /\ n \in Nat
      /\ q.output_ids \in Seq(Token)
      /\ \A j \in 1..u : UnverifiedIds(q)[j] = q.output_ids[v + j]
      /\ ContextIdx(q) = p + v - 1 /\ CurrentSeqLen(q) = p + v - 1 + u
  BY UnverifiedOK
<1> HIDE DEF u, p, v, n
<1>2. ASSUME NEW x \in 0..(CurrentSeqLen(q) - 1) PROVE TokenAt(i, q, x) \in Token
  <2>1. CASE x < p
    <3>1. TokenAt(i, q, x) = <<"p", i, x>> /\ x \in Nat
      BY <1>1, <2>1 DEF TokenAt, p
    <3> QED
      BY <3>1 DEF Token
  <2>2. CASE ~(x < p)
    <3>1. TokenAt(i, q, x) = q.output_ids[x - p + 1]
      BY <2>2 DEF TokenAt, p
    <3>2. x - p + 1 \in 1..n
      BY <1>1, <2>2
    <3> QED
      BY <1>1, <3>1, <3>2 DEF n
  <2> QED BY <2>1, <2>2
<1>3. ASSUME NEW j \in 1..(u - 1)
      PROVE  TokenAt(i, q, ContextIdx(q) + j) = UnverifiedIds(q)[j]
  <2> DEFINE x == p + v - 1 + j
  <2>1. j \in 1..u /\ ~(x < p) /\ x - p + 1 = v + j
    BY <1>1
  <2> HIDE DEF x
  <2>2. TokenAt(i, q, x) = q.output_ids[x - p + 1]
    BY <2>1 DEF TokenAt, p
  <2>3. TokenAt(i, q, x) = q.output_ids[v + j]
    BY <2>1, <2>2
  <2> QED
    BY <1>1, <2>1, <2>3 DEF x
<1> QED
  BY <1>2, <1>3 DEF u

\* The input of a request: the context token, the window but its last token and,
\* where the window is short, dummies.
LEMMA InputIdsOK ==
  ASSUME NEW q, Pending(q), NEW i \in Nat, NEW w, WinOK(q, w)
  PROVE  /\ InputIds(i, q, w) \in Seq(Input)
         /\ Len(InputIds(i, q, w)) =
              IF Unverified(q) > w.padded_len THEN Unverified(q) ELSE w.padded_len
         /\ \A j \in 1..Unverified(q) :
              InputIds(i, q, w)[j] = TokenAt(i, q, ContextIdx(q) + j - 1)
<1> DEFINE u == Unverified(q)
           p == w.padded_len
           x == ContextIdx(q)
           after == SubSeq(UnverifiedIds(q), 1, u - 1)
           c == <<TokenAt(i, q, x)>>
           d == Repeat(Dummy, p - 1 - Len(after))
<1>1. /\ u \in Nat \ {0} /\ UnverifiedIds(q) \in Seq(Token) /\ Len(UnverifiedIds(q)) = u
      /\ x \in Nat /\ x = q.prompt + q.verified - 1 /\ CurrentSeqLen(q) = x + u
  BY UnverifiedOK
<1>2. p \in Nat \ {0}
  BY DEF WinOK
<1> HIDE DEF u, p, x
<1>3. u - 1 \in Nat /\ u - 1 <= u /\ 1 \in Nat \ {0} /\ (1 <= u - 1 => u - 1 - 1 + 1 = u - 1)
      /\ (~(1 <= u - 1) => u - 1 = 0)
  BY <1>1
<1>4. /\ after \in Seq(Token) /\ Len(after) = u - 1
      /\ \A j \in 1..(u - 1) : after[j] = UnverifiedIds(q)[1 + j - 1]
  BY <1>1, <1>3, SubSeqOK
<1>5. \A j \in 1..(u - 1) : after[j] = TokenAt(i, q, x + j)
  <2> TAKE j \in 1..(u - 1)
  <2>1. 1 + j - 1 = j
    BY <1>1
  <2>2. TokenAt(i, q, x + j) = UnverifiedIds(q)[j]
    BY TokenAtOK DEF u, x
  <2> QED
    BY <1>4, <2>1, <2>2
<1> HIDE DEF after
<1>6. c \in Seq(Input) /\ Len(c) = 1 /\ c[1] = TokenAt(i, q, x)
  <2>1. x \in 0..(CurrentSeqLen(q) - 1)
    BY <1>1
  <2>2. TokenAt(i, q, x) \in Input
    BY <2>1, TokenAtOK DEF Input
  <2> QED
    BY <2>2
<1>7. after \in Seq(Input) /\ Len(after) = u - 1
  BY <1>4 DEF Input
<1>8. /\ d \in Seq(Input)
      /\ Len(d) = IF p - u > 0 THEN p - u ELSE 0
  <2>1. p - 1 - Len(after) = p - u /\ p - u \in Int
    BY <1>1, <1>2, <1>4
  <2>2. Dummy \in Input
    BY DEF Input
  <2> QED
    BY <2>1, <2>2, RepeatOK, Zenon
<1> HIDE DEF c, d
<1>9. /\ c \o after \in Seq(Input) /\ Len(c \o after) = u
      /\ (c \o after)[1] = TokenAt(i, q, x)
      /\ \A j \in 1..(u - 1) : (c \o after)[1 + j] = TokenAt(i, q, x + j)
  <2>1. /\ c \o after \in Seq(Input) /\ Len(c \o after) = 1 + (u - 1)
        /\ \A j \in 1..1 : (c \o after)[j] = c[j]
        /\ \A j \in 1..(u - 1) : (c \o after)[1 + j] = after[j]
    <3>1. c \in Seq(Input) /\ after \in Seq(Input) /\ Len(c) = 1 /\ Len(after) = u - 1
      BY <1>6, <1>7
    <3>2. /\ c \o after \in Seq(Input) /\ Len(c \o after) = Len(c) + Len(after)
          /\ \A j \in 1..Len(c) : (c \o after)[j] = c[j]
          /\ \A j \in 1..Len(after) : (c \o after)[Len(c) + j] = after[j]
      <4>1. c \in Seq(Input) /\ after \in Seq(Input)
        BY <3>1
      <4> QED
        BY <4>1, SMT
    <3> QED
      BY <3>1, <3>2
  <2>2. 1 + (u - 1) = u /\ 1 \in 1..1
    BY <1>1
  <2> QED
    BY <1>5, <1>6, <2>1, <2>2, Zenon
<1>10. /\ c \o after \o d \in Seq(Input) /\ Len(c \o after \o d) = u + Len(d)
       /\ \A j \in 1..u : (c \o after \o d)[j] = (c \o after)[j]
  BY <1>8, <1>9, ConcatSeq, ZenonT(30)
<1>11. InputIds(i, q, w) = c \o after \o d
  BY <1>1 DEF InputIds, c, after, d, u, p, x
<1>12. u + Len(d) = IF u > p THEN u ELSE p
  BY <1>1, <1>2, <1>8
<1>13. \A j \in 1..u : (c \o after)[j] = TokenAt(i, q, x + j - 1)
  <2> TAKE j \in 1..u
  <2>1. CASE j = 1
    <3>1. x + j - 1 = x
      BY <1>1, <2>1
    <3> QED BY <1>9, <2>1, <3>1
  <2>2. CASE j # 1
    <3>1. j - 1 \in 1..(u - 1) /\ 1 + (j - 1) = j /\ x + (j - 1) = x + j - 1
      BY <1>1, <2>2
    <3>2. (c \o after)[1 + (j - 1)] = TokenAt(i, q, x + (j - 1))
      BY <1>9, <3>1
    <3> QED
      BY <3>1, <3>2, Zenon
  <2> QED BY <2>1, <2>2, Zenon
<1> QED
  BY <1>10, <1>11, <1>12, <1>13, Zenon DEF u, p, x

\* KV slots by whose they are.
Loc == ({"kv"} \X Nat \X Nat) \cup ({"pad", "dummy"} \X Nat)

\* The slots of a request that the pass writes are those of its input tokens.
LEMMA OwnCacheLocsOK ==
  ASSUME NEW i \in 1..Len(reqs), NEW q, q = reqs[i], Pending(q), NEW w, WinOK(q, w),
         Len(reqs) \in Nat
  PROVE  LET s == OwnCacheLocs(i, q, w)
         IN  /\ s \in Seq(Loc) /\ Len(s) = Min2(Unverified(q), w.padded_len)
             /\ \A j \in 1..Len(s) : s[j] = KVSlot(i, ContextIdx(q) + j - 1)
<1> DEFINE u == Unverified(q)
           p == w.padded_len
           x == ContextIdx(q)
           start == q.prompt + q.verified
           end == Min2(start + p - 1, CurrentSeqLen(q))
           m == Min2(u, p)
           a == <<ReqToToken(i, start - 1)>>
           b == [k \in 1..(end - start) |-> ReqToToken(i, start + k - 1)]
<1>1. /\ u \in Nat \ {0} /\ q.prompt \in Nat \ {0} /\ q.verified \in Nat
      /\ x \in Nat /\ x = q.prompt + q.verified - 1 /\ CurrentSeqLen(q) = x + u
  BY UnverifiedOK
<1>2. p \in Nat \ {0} /\ i \in Nat
  BY DEF WinOK
<1> HIDE DEF u, p, x
<1>3. /\ start - 1 = x /\ end - start = m - 1 /\ m \in Nat \ {0} /\ m <= u
      /\ start = x + 1
  <2>1. start = x + 1 /\ start \in Nat
    <3> DEFINE pr == q.prompt
               v == q.verified
    <3>1. pr \in Nat \ {0} /\ v \in Nat /\ x = pr + v - 1 /\ start = pr + v
      BY <1>1
    <3> HIDE DEF pr, v, start
    <3> QED
      BY <3>1
  <2>2. CurrentSeqLen(q) = x + u
    BY <1>1
  <2> HIDE DEF start
  <2>3. end = IF x + p <= x + u THEN x + p ELSE x + u
    <3>1. start + p - 1 = x + p
      BY ONLY <1>1, <1>2, <2>1
    <3> QED
      BY ONLY <2>2, <3>1 DEF Min2, end
  <2>4. m = IF u <= p THEN u ELSE p
    BY DEF Min2
  <2> HIDE DEF end, m
  <2>5. u \in Nat \ {0} /\ p \in Nat \ {0} /\ x \in Nat
    BY <1>1, <1>2
  <2>6. CASE u <= p
    <3>1. m = u /\ x + u <= x + p
      BY ONLY <2>4, <2>5, <2>6
    <3>2. end = x + u
      BY ONLY <2>3, <2>5, <3>1
    <3> QED
      BY ONLY <2>1, <2>5, <3>1, <3>2
  <2>7. CASE ~(u <= p)
    <3>1. m = p /\ x + p <= x + u /\ p <= u
      BY ONLY <2>4, <2>5, <2>7
    <3>2. end = x + p
      BY ONLY <2>3, <2>5, <3>1
    <3> QED
      BY ONLY <2>1, <2>5, <3>1, <3>2
  <2> QED
    BY ONLY <2>6, <2>7
<1> HIDE DEF start, end, m
<1>4. \A y \in 0..(x + u - 1) : ReqToToken(i, y) = KVSlot(i, y) /\ KVSlot(i, y) \in Loc
  <2> TAKE y \in 0..(x + u - 1)
  <2>1. ~(i < 0) /\ y < x + u /\ y \in Nat
    BY <1>1, <1>2
  <2>2. ReqToToken(i, y) = KVSlot(i, y)
    BY <1>1, <2>1 DEF ReqToToken
  <2>3. KVSlot(i, y) \in Loc
    BY <1>2, <2>1 DEF KVSlot, Loc
  <2> QED
    BY <2>2, <2>3
<1>5. /\ a \in Seq(Loc) /\ Len(a) = 1 /\ a[1] = KVSlot(i, x)
  <2>1. x \in 0..(x + u - 1)
    BY <1>1
  <2> QED
    BY <1>3, <1>4, <2>1
<1>6. /\ b \in [1..(m - 1) -> Loc]
      /\ \A k \in 1..(m - 1) : b[k] = KVSlot(i, x + k)
  <2>1. ASSUME NEW k \in 1..(m - 1)
        PROVE  start + k - 1 = x + k /\ x + k \in 0..(x + u - 1)
    <3>1. /\ k \in Nat /\ k <= m - 1 /\ m \in Nat /\ m <= u
          /\ u \in Nat /\ x \in Nat /\ start = x + 1
      BY <1>1, <1>3
    <3> QED
      BY ONLY <3>1
  <2>2. \A k \in 1..(m - 1) : b[k] = KVSlot(i, x + k) /\ KVSlot(i, x + k) \in Loc
    BY <1>3, <1>4, <2>1, Zenon
  <2>3. b = [k \in 1..(m - 1) |-> ReqToToken(i, start + k - 1)]
    BY <1>3
  <2> QED
    BY <2>2, <2>3, Zenon
<1>7. b \in Seq(Loc) /\ Len(b) = m - 1
  <2>1. m - 1 \in Nat
    BY <1>3
  <2> QED
    BY <1>6, <2>1, TupleOK, ZenonT(30)
<1>8. OwnCacheLocs(i, q, w) = a \o b
  BY DEF OwnCacheLocs, a, b, start, end, p
<1> HIDE DEF a, b
<1>9. /\ a \o b \in Seq(Loc) /\ Len(a \o b) = 1 + (m - 1)
      /\ \A j \in 1..1 : (a \o b)[j] = a[j]
      /\ \A j \in 1..(m - 1) : (a \o b)[1 + j] = b[j]
  <2>1. a \in Seq(Loc) /\ b \in Seq(Loc) /\ Len(a) = 1 /\ Len(b) = m - 1
    BY ONLY <1>5, <1>7
  <2>2. /\ a \o b \in Seq(Loc) /\ Len(a \o b) = Len(a) + Len(b)
        /\ \A j \in 1..Len(a) : (a \o b)[j] = a[j]
        /\ \A j \in 1..Len(b) : (a \o b)[Len(a) + j] = b[j]
    <3>1. a \in Seq(Loc) /\ b \in Seq(Loc)
      BY ONLY <2>1
    <3> QED
      BY ONLY <3>1, ConcatSeq
  <2> QED
    BY <2>1, <2>2, Zenon
<1>10. 1 + (m - 1) = m /\ 1 \in 1..1
  BY <1>3
<1>11. \A j \in 1..m : (a \o b)[j] = KVSlot(i, x + j - 1)
  <2> TAKE j \in 1..m
  <2>1. CASE j = 1
    <3>1. x + j - 1 = x
      BY <1>1, <2>1
    <3> QED BY <1>5, <1>9, <1>10, <2>1, <3>1
  <2>2. CASE j # 1
    <3>1. j - 1 \in 1..(m - 1) /\ 1 + (j - 1) = j /\ x + (j - 1) = x + j - 1
      BY <1>1, <1>3, <2>2
    <3>2. (a \o b)[1 + (j - 1)] = KVSlot(i, x + (j - 1))
      BY <1>6, <1>9, <3>1, Zenon
    <3> QED
      BY <3>1, <3>2, Zenon
  <2> QED BY <2>1, <2>2, Zenon
<1> QED
  BY <1>8, <1>9, <1>10, <1>11 DEF m, u, p, x

-----------------------------------------------------------------------------
(* The batch of a group                                                    *)

\* A group as the loops form it: requests that have something to verify, each
\* once, with their windows.
GroupOK(group, win) ==
  /\ reqs \in Seq(RequestType)
  /\ group \in Seq(1..Len(reqs)) /\ NoRepeats(group)
  /\ win = [k \in 1..Len(group) |-> win[k]]
  /\ \A k \in 1..Len(group) : /\ Pending(reqs[group[k]])
                              /\ WinOK(reqs[group[k]], win[k])

Lens(win, n) == [k \in 1..n |-> win[k].padded_len]

\* The slot of the j-th row of request i: its own as long as it has tokens to
\* verify, padding behind.
OwnLoc(i, q, j, s) ==
  \/ j <= Unverified(q) /\ s = KVSlot(i, ContextIdx(q) + j - 1)
  \/ j > Unverified(q) /\ s \in {"pad"} \X Nat

LEMMA GroupFacts ==
  ASSUME NEW group, NEW win, GroupOK(group, win)
  PROVE  /\ Len(reqs) \in Nat /\ Len(group) \in Nat
         /\ Lens(win, Len(group)) \in [1..Len(group) -> Nat]
         /\ \A k \in 1..Len(group) :
              /\ group[k] \in 1..Len(reqs) /\ group[k] \in Nat
              /\ Unverified(reqs[group[k]]) \in Nat \ {0}
              /\ win[k].padded_len \in Nat \ {0} /\ win[k].actual_len \in Nat \ {0}
              /\ Lens(win, Len(group))[k] = win[k].padded_len
<1>1. Len(reqs) \in Nat /\ Len(group) \in Nat
  BY DEF GroupOK
<1>2. \A k \in 1..Len(group) : group[k] \in 1..Len(reqs) /\ group[k] \in Nat
  BY <1>1 DEF GroupOK
<1>3. ASSUME NEW k \in 1..Len(group)
      PROVE  /\ Unverified(reqs[group[k]]) \in Nat \ {0}
             /\ win[k].padded_len \in Nat \ {0} /\ win[k].actual_len \in Nat \ {0}
  <2>1. Pending(reqs[group[k]]) /\ WinOK(reqs[group[k]], win[k])
    BY DEF GroupOK
  <2>2. Unverified(reqs[group[k]]) \in Nat \ {0}
    BY <2>1, UnverifiedOK
  <2> QED
    BY <2>1, <2>2 DEF WinOK
<1>4. /\ Lens(win, Len(group)) \in [1..Len(group) -> Nat]
      /\ \A k \in 1..Len(group) : Lens(win, Len(group))[k] = win[k].padded_len
  BY <1>3 DEF Lens
<1> QED
  BY <1>1, <1>2, <1>3, <1>4

\* The inputs of each request of the group, and how many it has.
InputParts(group, win, n) == [k \in 1..n |-> InputIds(group[k], reqs[group[k]], win[k])]

InputLens(group, win, n) ==
  [k \in 1..n |-> IF Unverified(reqs[group[k]]) > win[k].padded_len
                  THEN Unverified(reqs[group[k]])
                  ELSE win[k].padded_len]

\* The inputs of the group, one request behind the other.
LEMMA InputsLaid ==
  ASSUME NEW group, NEW win, GroupOK(group, win), NEW n, n = Len(group)
  PROVE  /\ Concatenated(InputParts(group, win, n)) \in Seq(Input)
         /\ Laid(Concatenated(InputParts(group, win, n)), InputParts(group, win, n),
                 InputLens(group, win, n), n)
         /\ InputLens(group, win, n) \in [1..n -> Nat]
<1> DEFINE segs == InputParts(group, win, n)
           il == InputLens(group, win, n)
<1>0. /\ segs = [k \in 1..n |-> InputIds(group[k], reqs[group[k]], win[k])]
      /\ il = [k \in 1..n |-> IF Unverified(reqs[group[k]]) > win[k].padded_len
                              THEN Unverified(reqs[group[k]])
                              ELSE win[k].padded_len]
  BY Zenon DEF InputParts, InputLens
<1> HIDE DEF segs, il
<1>1. n \in Nat
  BY GroupFacts
<1>2. ASSUME NEW k \in 1..n
      PROVE  /\ segs[k] \in Seq(Input) /\ Len(segs[k]) = il[k] /\ il[k] \in Nat
  <2> DEFINE q == reqs[group[k]]
  <2>1. Pending(q) /\ WinOK(q, win[k])
    BY DEF GroupOK
  <2>0. k \in 1..Len(group) /\ GroupOK(group, win)
    OBVIOUS
  <2>2. group[k] \in Nat /\ Unverified(q) \in Nat /\ win[k].padded_len \in Nat
    BY ONLY <2>0, GroupFacts
  <2>3. /\ InputIds(group[k], q, win[k]) \in Seq(Input)
        /\ Len(InputIds(group[k], q, win[k])) =
             IF Unverified(q) > win[k].padded_len THEN Unverified(q) ELSE win[k].padded_len
    <3> HIDE DEF q
    <3> QED
      BY ONLY <2>1, <2>2, InputIdsOK, SMTT(20)
  <2> HIDE DEF q
  <2> QED
    BY <1>0, <2>2, <2>3 DEF q
<1>3. segs \in [1..n -> Seq(Input)] /\ il \in [1..n -> Nat]
      /\ \A k \in 1..n : Len(segs[k]) = il[k]
  BY <1>0, <1>2
<1> QED
  BY <1>1, <1>3, ConcatenatedParts, ZenonT(30) DEF segs, il

LEMMA MaxZero ==
  ASSUME NEW n \in Int
  PROVE  Max({0, n}) = IF n > 0 THEN n ELSE 0
<1> DEFINE m == IF n > 0 THEN n ELSE 0
<1>1. m \in {0, n} /\ \A y \in {0, n} : m >= y
  OBVIOUS
<1>2. \A x \in {0, n} : (\A y \in {0, n} : x >= y) => x = m
  OBVIOUS
<1> HIDE DEF m
<1>3. Max({0, n}) = m
  BY <1>1, <1>2 DEF Max
<1> QED
  BY <1>3 DEF m

\* The cache locations of the group: as many as there are padded rows.
LEMMA LocsLaid ==
  ASSUME NEW group, NEW win, GroupOK(group, win), NEW n, n = Len(group)
  PROVE  LET O(k) == OffsetAfter(Lens(win, n), k)
         IN  /\ CacheLocs(group, win) \in Seq(Loc)
             /\ Len(CacheLocs(group, win)) = O(n)
             /\ \A k \in 1..n : \A j \in 1..win[k].padded_len :
                  OwnLoc(group[k], reqs[group[k]], j, CacheLocs(group, win)[O(k - 1) + j])
<1> DEFINE Own(k) == OwnCacheLocs(group[k], reqs[group[k]], win[k])
           needed == [k \in 1..n |-> Max({0, win[k].padded_len - Len(Own(k))})]
           Padding(k) == [j \in 1..needed[k] |-> <<"pad", OffsetAfter(needed, k - 1) + j>>]
           segs == [k \in 1..n |-> Own(k) \o Padding(k)]
           lens == Lens(win, n)
<1>1. CacheLocs(group, win) = Concatenated(segs)
  BY DEF CacheLocs
<1>2. n \in Nat /\ Len(reqs) \in Nat /\ lens \in [1..n -> Nat]
  BY GroupFacts
<1>3. ASSUME NEW k \in 1..n
      PROVE  LET q == reqs[group[k]]
                 u == Unverified(q)
                 p == win[k].padded_len
             IN  /\ Own(k) \in Seq(Loc) /\ Len(Own(k)) = Min2(u, p)
                 /\ \A j \in 1..Len(Own(k)) : Own(k)[j] = KVSlot(group[k], ContextIdx(q) + j - 1)
                 /\ u \in Nat \ {0} /\ p \in Nat \ {0} /\ lens[k] = p
  <2> DEFINE q == reqs[group[k]]
  <2>1. Pending(q) /\ WinOK(q, win[k])
    BY DEF GroupOK
  <2>2. group[k] \in 1..Len(reqs)
    BY GroupFacts
  <2>3. /\ Unverified(q) \in Nat \ {0} /\ win[k].padded_len \in Nat \ {0}
        /\ lens[k] = win[k].padded_len
    BY GroupFacts
  <2>4. LET s == OwnCacheLocs(group[k], q, win[k])
        IN  /\ s \in Seq(Loc) /\ Len(s) = Min2(Unverified(q), win[k].padded_len)
            /\ \A j \in 1..Len(s) : s[j] = KVSlot(group[k], ContextIdx(q) + j - 1)
    BY <1>2, <2>1, <2>2, OwnCacheLocsOK
  <2> QED
    BY <2>3, <2>4
<1> HIDE DEF Own
<1>4. ASSUME NEW k \in 1..n
      PROVE  /\ needed[k] = lens[k] - Min2(Unverified(reqs[group[k]]), lens[k])
             /\ needed[k] \in Nat
  <2> DEFINE u == Unverified(reqs[group[k]])
             p == lens[k]
  <2>1. u \in Nat \ {0} /\ p \in Nat \ {0} /\ Len(Own(k)) = Min2(u, p)
        /\ win[k].padded_len = p
    BY <1>3
  <2>2. needed[k] = Max({0, p - Min2(u, p)})
    BY <2>1, Zenon
  <2> HIDE DEF u, p, needed
  <2>3. p - Min2(u, p) \in Nat
    BY <2>1 DEF Min2
  <2>4. Max({0, p - Min2(u, p)}) = p - Min2(u, p)
    BY <2>3, MaxZero
  <2> QED
    BY <2>2, <2>3, <2>4 DEF u, p
<1>5. needed \in [1..n -> Nat]
  BY <1>4
<1> HIDE DEF needed, lens
<1>6. \A k \in 0..n : OffsetAfter(needed, k) \in Nat
  BY <1>2, <1>5, TupleOK, OffsetOK
<1>7. ASSUME NEW k \in 1..n
      PROVE  /\ segs[k] \in Seq(Loc) /\ Len(segs[k]) = lens[k]
             /\ \A j \in 1..lens[k] : OwnLoc(group[k], reqs[group[k]], j, segs[k][j])
  <2> DEFINE q == reqs[group[k]]
             u == Unverified(q)
             p == lens[k]
             m == Min2(u, p)
             a == Own(k)
             b == Padding(k)
  <2>1. /\ a \in Seq(Loc) /\ Len(a) = m
        /\ \A j \in 1..Len(a) : a[j] = KVSlot(group[k], ContextIdx(q) + j - 1)
        /\ u \in Nat \ {0} /\ p \in Nat \ {0}
    BY <1>3
  <2>2. k - 1 \in 0..n
    BY <1>2
  <2>3. needed[k] = p - m /\ needed[k] \in Nat
    BY <1>4
  <2>4. b \in [1..(p - m) -> {"pad"} \X Nat]
    <3> DEFINE o == OffsetAfter(needed, k - 1)
    <3>1. o \in Nat
      BY <1>6, <2>2
    <3> HIDE DEF o
    <3>2. \A j \in 1..(p - m) : <<"pad", o + j>> \in {"pad"} \X Nat
      BY <3>1
    <3> QED
      BY <2>3, <3>2 DEF o
  <2> HIDE DEF u, p, a, b
  <2>5. m \in Nat /\ p - m \in Nat /\ m <= u /\ (m < p => m = u)
    BY <2>1 DEF Min2
  <2> HIDE DEF m
  <2>6. b \in [1..(p - m) -> Loc]
    BY <2>4 DEF Loc
  <2>7. b \in Seq(Loc) /\ Len(b) = p - m
    BY <2>5, <2>6, TupleOK
  <2>8. /\ a \o b \in Seq(Loc) /\ Len(a \o b) = Len(a) + Len(b)
        /\ \A j \in 1..Len(a) : (a \o b)[j] = a[j]
        /\ \A j \in 1..Len(b) : (a \o b)[Len(a) + j] = b[j]
    <3>1. a \in Seq(Loc) /\ b \in Seq(Loc)
      BY <2>1, <2>7
    <3> QED
      BY <3>1, SMT
  <2>9. Len(a \o b) = p
    BY <2>1, <2>5, <2>7, <2>8
  <2>10. ASSUME NEW j \in 1..p PROVE OwnLoc(group[k], q, j, (a \o b)[j])
    <3>1. CASE j <= m
      <4>1. j \in 1..m /\ j <= u
        BY <2>1, <2>5, <3>1
      <4>2. (a \o b)[j] = KVSlot(group[k], ContextIdx(q) + j - 1)
        BY <2>1, <2>8, <4>1
      <4> QED
        BY <4>1, <4>2 DEF OwnLoc, u
    <3>2. CASE ~(j <= m)
      <4>1. j - m \in 1..(p - m) /\ m + (j - m) = j /\ j > u
        BY <2>1, <2>5, <3>2
      <4>2. (a \o b)[m + (j - m)] = b[j - m]
        BY <2>1, <2>7, <2>8, <4>1, ZenonT(30)
      <4>3. b[j - m] \in {"pad"} \X Nat
        BY <2>4, <4>1
      <4>4. (a \o b)[j] \in {"pad"} \X Nat
        BY <4>1, <4>2, <4>3, Zenon
      <4> QED
        BY <4>1, <4>4, Zenon DEF OwnLoc, u
    <3> QED BY <3>1, <3>2, Zenon
  <2>11. segs[k] = a \o b
    BY Zenon DEF a, b
  <2> QED
    BY <2>8, <2>9, <2>10, <2>11, Zenon DEF p
<1>8. /\ segs \in [1..n -> Seq(Loc)] /\ \A k \in 1..n : Len(segs[k]) = lens[k]
      /\ \A k \in 1..n : \A j \in 1..lens[k] :
           OwnLoc(group[k], reqs[group[k]], j, segs[k][j])
  BY <1>7, Zenon
<1> HIDE DEF segs
<1>9. Concatenated(segs) \in Seq(Loc) /\ Laid(Concatenated(segs), segs, lens, n)
  BY <1>2, <1>8, ConcatenatedParts, Zenon
<1>10. \A k \in 1..n : win[k].padded_len = lens[k]
  BY <1>3
<1> QED
  BY <1>1, <1>8, <1>9, <1>10 DEF Laid, lens

\* The sampling parameters of the group's rows.
SampledBy(group, win) ==
  Concatenated([k \in 1..Len(group) |-> Repeat(group[k], win[k].padded_len)])

SamplesOwn(group, win, n) ==
  /\ SampledBy(group, win) \in Seq(Nat)
  /\ Len(SampledBy(group, win)) = OffsetAfter(Lens(win, n), n)
  /\ \A k \in 1..n : \A j \in 1..win[k].padded_len :
       SampledBy(group, win)[OffsetAfter(Lens(win, n), k - 1) + j] = group[k]

LEMMA SamplingLaid ==
  ASSUME NEW group, NEW win, GroupOK(group, win), NEW n, n = Len(group)
  PROVE  SamplesOwn(group, win, n)
<1> DEFINE flat == SampledBy(group, win)
<1> DEFINE segs == [k \in 1..n |-> Repeat(group[k], win[k].padded_len)]
           lens == Lens(win, n)
<1>1. /\ n \in Nat /\ lens \in [1..n -> Nat]
      /\ \A k \in 1..n : group[k] \in Nat /\ lens[k] = win[k].padded_len
  BY GroupFacts
<1>2. ASSUME NEW k \in 1..n
      PROVE  /\ Repeat(group[k], lens[k]) \in Seq(Nat)
             /\ Len(Repeat(group[k], lens[k])) = lens[k]
             /\ \A j \in 1..lens[k] : Repeat(group[k], lens[k])[j] = group[k]
  <2>1. group[k] \in Nat /\ lens[k] \in Int /\ lens[k] \in Nat
    BY <1>1
  <2> HIDE DEF lens
  <2>2. (IF lens[k] > 0 THEN lens[k] ELSE 0) = lens[k]
    BY <2>1
  <2> QED
    BY <2>1, <2>2, RepeatOK, ZenonT(30)
<1> HIDE DEF lens
<1>3. /\ segs \in [1..n -> Seq(Nat)] /\ \A k \in 1..n : Len(segs[k]) = lens[k]
      /\ \A k \in 1..n : \A j \in 1..lens[k] : segs[k][j] = group[k]
  BY <1>1, <1>2
<1> HIDE DEF segs
<1>4. Concatenated(segs) \in Seq(Nat) /\ Laid(Concatenated(segs), segs, lens, n)
  BY <1>1, <1>3, ConcatenatedParts, Zenon
<1>5. flat = Concatenated(segs)
  BY DEF segs, SampledBy
<1> HIDE DEF flat
<1>6. flat \in Seq(Nat) /\ Len(flat) = OffsetAfter(lens, n)
  BY <1>4, <1>5 DEF Laid
<1>7. \A k \in 1..n : \A j \in 1..lens[k] : flat[OffsetAfter(lens, k - 1) + j] = group[k]
  <2> TAKE k \in 1..n
  <2> TAKE j \in 1..lens[k]
  <2>1. flat[OffsetAfter(lens, k - 1) + j] = segs[k][j]
    BY <1>4, <1>5 DEF Laid
  <2> QED
    BY <1>3, <2>1
<1>8. \A k \in 1..n : lens[k] = win[k].padded_len
  BY <1>1
<1> QED
  BY <1>6, <1>7, <1>8 DEF lens, flat, SamplesOwn

\* Rows behind the group's own.
LEMMA Behind ==
  ASSUME NEW X, NEW s \in Seq(X), NEW t \in Seq(X), NEW m, m = Len(s), NEW n, n = Len(t)
  PROVE  /\ s \o t \in Seq(X) /\ Len(s \o t) = m + n /\ m \in Nat /\ n \in Nat
         /\ \A x \in 1..m : (s \o t)[x] = s[x]
         /\ \A x \in (m + 1)..(m + n) : x - m \in 1..n /\ (s \o t)[x] = t[x - m]
<1>1. m \in Nat /\ n \in Nat
  OBVIOUS
<1>2. /\ s \o t \in Seq(X) /\ Len(s \o t) = Len(s) + Len(t)
      /\ \A j \in 1..Len(s) : (s \o t)[j] = s[j]
      /\ \A j \in 1..Len(t) : (s \o t)[Len(s) + j] = t[j]
  OBVIOUS
<1>3. ASSUME NEW x \in (m + 1)..(m + n)
      PROVE  x - m \in 1..n /\ (s \o t)[x] = t[x - m]
  <2>1. x - m \in 1..n /\ m + (x - m) = x
    BY <1>1
  <2>2. (s \o t)[m + (x - m)] = t[x - m]
    BY <1>2, <2>1
  <2> QED
    BY <2>1, <2>2
<1> QED
  BY <1>1, <1>2, <1>3

\* The same, as a predicate to be expanded where it is used.
Joined(c, s, t, X) ==
  /\ c \in Seq(X) /\ Len(c) = Len(s) + Len(t)
  /\ \A x \in 1..Len(s) : c[x] = s[x]
  /\ \A x \in (Len(s) + 1)..(Len(s) + Len(t)) :
       x - Len(s) \in 1..Len(t) /\ c[x] = t[x - Len(s)]

LEMMA JoinedOK ==
  ASSUME NEW X, NEW s \in Seq(X), NEW t \in Seq(X)
  PROVE  Joined(s \o t, s, t, X)
BY Behind DEF Joined

LEMMA AppendSeq ==
  ASSUME NEW X, NEW s \in Seq(X), NEW e \in X, NEW m, m = Len(s)
  PROVE  /\ Append(s, e) \in Seq(X) /\ Len(Append(s, e)) = m + 1
         /\ \A x \in 1..m : Append(s, e)[x] = s[x]
         /\ Append(s, e)[m + 1] = e
  OBVIOUS

\* The length of the inputs and of the cache locations: the consistency check of
\* prepare_verify_batch finds exactly the windows that are cut.
LEMMA BatchLengths ==
  ASSUME NEW group, NEW win, GroupOK(group, win), NEW d \in Nat, NEW n, n = Len(group),
         NEW b, b = PrepareVerifyBatch(group, win, d)
  PROVE  /\ b.out_cache_loc \in Seq(Loc) /\ b.input_ids \in Seq(Input)
         /\ Len(b.out_cache_loc) = OffsetAfter(Lens(win, n), n) + d * WindowSize
         /\ Len(b.out_cache_loc) # Len(b.input_ids) <=>
              \E k \in 1..n : Unverified(reqs[group[k]]) > win[k].padded_len
<1> DEFINE lens == Lens(win, n)
           segs == InputParts(group, win, n)
           il == InputLens(group, win, n)
           W == d * WindowSize
           tail == [j \in 1..W |-> <<"dummy", j - 1>>]
<1>1. /\ n \in Nat /\ lens \in [1..n -> Nat]
      /\ \A k \in 1..n : /\ lens[k] = win[k].padded_len /\ win[k].padded_len \in Nat
                         /\ Unverified(reqs[group[k]]) \in Nat
  BY GroupFacts
<1>2. W \in Nat
  BY VerifyBatchAssumption
<1>3. /\ Concatenated(segs) \in Seq(Input) /\ Laid(Concatenated(segs), segs, il, n)
      /\ il \in [1..n -> Nat]
  <2>1. GroupOK(group, win) /\ n = Len(group)
    OBVIOUS
  <2> QED
    BY ONLY <2>1, InputsLaid
<1>4. /\ CacheLocs(group, win) \in Seq(Loc)
      /\ Len(CacheLocs(group, win)) = OffsetAfter(lens, n)
  <2>1. GroupOK(group, win) /\ n = Len(group)
    OBVIOUS
  <2> QED
    BY ONLY <2>1, LocsLaid
<1>5. /\ b.input_ids = Concatenated(segs) \o Repeat(Dummy, W)
      /\ b.out_cache_loc = CacheLocs(group, win) \o tail
  BY Zenon DEF PrepareVerifyBatch, InputParts
<1>6. \A k \in 1..n : /\ lens[k] <= il[k]
                      /\ lens[k] # il[k] <=> Unverified(reqs[group[k]]) > win[k].padded_len
  BY <1>1 DEF InputLens
<1> HIDE DEF lens, segs, il, W
<1>7. tail \in Seq(Loc) /\ Len(tail) = W
  <2>1. tail \in [1..W -> Loc]
    <3>1. \A j \in 1..W : <<"dummy", j - 1>> \in Loc
      BY <1>2 DEF Loc
    <3> QED
      BY <3>1
  <2> HIDE DEF tail
  <2> QED
    BY <1>2, <2>1, TupleOK
<1>8. Repeat(Dummy, W) \in Seq(Input) /\ Len(Repeat(Dummy, W)) = W
  <2>1. Dummy \in Input /\ W \in Int /\ (IF W > 0 THEN W ELSE 0) = W
    BY <1>2 DEF Input
  <2> QED
    BY <2>1, RepeatOK, Zenon
<1> HIDE DEF tail
<1>9. /\ b.out_cache_loc \in Seq(Loc)
      /\ Len(b.out_cache_loc) = OffsetAfter(lens, n) + W
  BY <1>4, <1>5, <1>7, Behind
<1>10. /\ b.input_ids \in Seq(Input) /\ Len(b.input_ids) = OffsetAfter(il, n) + W
  BY <1>3, <1>5, <1>8, Behind DEF Laid
<1>11. OffsetAfter(lens, n) \in Nat /\ OffsetAfter(il, n) \in Nat
  <2>1. lens \in Seq(Nat) /\ Len(lens) = n /\ il \in Seq(Nat) /\ Len(il) = n
    BY <1>1, <1>3, TupleOK, ZenonT(30)
  <2>2. n \in 0..n
    BY <1>1
  <2> QED
    BY <2>1, <2>2, OffsetOK
<1>12. OffsetAfter(lens, n) = OffsetAfter(il, n) <=> \A k \in 1..n : lens[k] = il[k]
  <2>1. ASSUME \A k \in 1..n : lens[k] = il[k]
        PROVE  lens = il
    BY <1>1, <1>3, <2>1
  <2>2. OffsetAfter(lens, n) = OffsetAfter(il, n) => \A k \in 1..n : lens[k] = il[k]
    BY <1>1, <1>3, <1>6, OffsetCompare, ZenonT(30)
  <2> QED
    BY <2>1, <2>2
<1>13. Len(b.out_cache_loc) # Len(b.input_ids) <=> OffsetAfter(lens, n) # OffsetAfter(il, n)
  BY <1>2, <1>9, <1>10, <1>11
<1> QED
  BY <1>6, <1>9, <1>10, <1>12, <1>13 DEF lens, W

\* A batch whose lengths agree: every row of a request is at the same place in
\* the inputs, the cache locations and the sampling parameters, and the dummies
\* are behind.
BatchOK(group, win, d, b) ==
  LET n == Len(group)
      O(k) == OffsetAfter(Lens(win, n), k)
      total == O(n) + d * WindowSize
  IN  /\ Len(b.input_ids) = total /\ Len(b.out_cache_loc) = total /\ Len(b.sampling) = total
      /\ \A k \in 1..n : \A j \in 1..win[k].padded_len :
           OwnLoc(group[k], reqs[group[k]], j, b.out_cache_loc[O(k - 1) + j])
      /\ \A k \in 1..n : \A j \in 1..win[k].padded_len :
           j <= Unverified(reqs[group[k]]) =>
             b.input_ids[O(k - 1) + j] =
               TokenAt(group[k], reqs[group[k]], ContextIdx(reqs[group[k]]) + j - 1)
      /\ \A k \in 1..n : \A j \in 1..win[k].padded_len : b.sampling[O(k - 1) + j] = group[k]
      /\ \A x \in (O(n) + 1)..total : b.out_cache_loc[x] \in {"dummy"} \X Nat
      /\ Len(b.req_pool_indices) = n + d
      /\ \A k \in 1..n : b.req_pool_indices[k] = group[k]
      /\ \A k \in 1..n : b.prefix_lens[k] = ContextIdx(reqs[group[k]])
      /\ Len(b.extend_lens) = n + d
      /\ \A k \in 1..n : b.extend_lens[k] = win[k].padded_len
      /\ \A k \in (n + 1)..(n + d) : b.extend_lens[k] = WindowSize
      /\ \A k \in 0..n : OffsetAfter(b.extend_lens, k) = O(k)

\* The rows of the group in the inputs, when no window is cut.
LEMMA InputRows ==
  ASSUME NEW group, NEW win, GroupOK(group, win), NEW n, n = Len(group),
         NEW flat, flat = Concatenated([k \in 1..n |->
                                        InputIds(group[k], reqs[group[k]], win[k])]),
         \A k \in 1..n : ~(Unverified(reqs[group[k]]) > win[k].padded_len)
  PROVE  /\ flat \in Seq(Input) /\ Len(flat) = OffsetAfter(Lens(win, n), n)
         /\ \A k \in 1..n : \A j \in 1..win[k].padded_len :
              j <= Unverified(reqs[group[k]]) =>
                flat[OffsetAfter(Lens(win, n), k - 1) + j] =
                  TokenAt(group[k], reqs[group[k]], ContextIdx(reqs[group[k]]) + j - 1)
<1> DEFINE lens == Lens(win, n)
           segs == InputParts(group, win, n)
           il == InputLens(group, win, n)
<1>1. /\ Concatenated(segs) \in Seq(Input) /\ Laid(Concatenated(segs), segs, il, n)
  BY InputsLaid
<1>2. il = lens
  BY DEF Lens, InputLens
<1>3. /\ n \in Nat /\ \A k \in 1..n : lens[k] = win[k].padded_len
  BY GroupFacts
<1>4. ASSUME NEW k \in 1..n, NEW j \in 1..lens[k], j <= Unverified(reqs[group[k]])
      PROVE  segs[k][j] =
               TokenAt(group[k], reqs[group[k]], ContextIdx(reqs[group[k]]) + j - 1)
  <2> DEFINE q == reqs[group[k]]
  <2>1. Pending(q) /\ WinOK(q, win[k])
    BY DEF GroupOK
  <2>2. group[k] \in Nat /\ Unverified(q) \in Nat /\ lens[k] \in Nat
    BY GroupFacts
  <2>3. j \in 1..Unverified(q)
    BY <1>4, <2>2
  <2> HIDE DEF q
  <2>4. \A h \in 1..Unverified(q) :
          InputIds(group[k], q, win[k])[h] = TokenAt(group[k], q, ContextIdx(q) + h - 1)
    BY <2>1, <2>2, InputIdsOK, ZenonT(30)
  <2>5. InputIds(group[k], q, win[k])[j] = TokenAt(group[k], q, ContextIdx(q) + j - 1)
    BY <2>3, <2>4
  <2> QED
    BY <2>5 DEF q, InputParts
<1> HIDE DEF lens, segs, il
<1>5. flat \in Seq(Input) /\ Len(flat) = OffsetAfter(lens, n)
  BY <1>1, <1>2 DEF Laid, segs, InputParts
<1>6. \A k \in 1..n : \A j \in 1..lens[k] :
        flat[OffsetAfter(lens, k - 1) + j] = segs[k][j]
  BY <1>1, <1>2, ZenonT(30) DEF Laid, segs, InputParts
<1>7. \A k \in 1..n : \A j \in 1..lens[k] :
        j <= Unverified(reqs[group[k]]) =>
          flat[OffsetAfter(lens, k - 1) + j] =
            TokenAt(group[k], reqs[group[k]], ContextIdx(reqs[group[k]]) + j - 1)
  BY <1>4, <1>6
<1> QED
  BY <1>3, <1>5, <1>7 DEF lens

LEMMA PreparedOK ==
  ASSUME NEW group, NEW win, GroupOK(group, win), NEW d \in Nat,
         NEW b, b = PrepareVerifyBatch(group, win, d),
         Len(b.out_cache_loc) = Len(b.input_ids)
  PROVE  BatchOK(group, win, d, b)
<1> DEFINE n == Len(group)
           lens == Lens(win, n)
           O(k) == OffsetAfter(lens, k)
           W == d * WindowSize
           inputs == Concatenated([k \in 1..n |-> InputIds(group[k], reqs[group[k]], win[k])])
           locs == CacheLocs(group, win)
           dummies == [j \in 1..W |-> <<"dummy", j - 1>>]
           params == SampledBy(group, win)
           own == [k \in 1..n |-> win[k].padded_len]
           prefix == [k \in 1..n |-> reqs[group[k]].prompt + reqs[group[k]].verified - 1]
<1>0. GroupOK(group, win) /\ d \in Nat /\ b = PrepareVerifyBatch(group, win, d)
  OBVIOUS
<1>1. /\ n \in Nat /\ lens \in [1..n -> Nat]
      /\ \A k \in 1..n : /\ lens[k] = win[k].padded_len /\ group[k] \in Nat
                         /\ win[k].padded_len \in Nat
  BY ONLY <1>0, GroupFacts
<1>2. W \in Nat /\ WindowSize \in Nat
  BY VerifyBatchAssumption
<1>3. /\ \A k \in 1..n : ~(Unverified(reqs[group[k]]) > win[k].padded_len)
      /\ Len(b.out_cache_loc) = O(n) + W /\ Len(b.input_ids) = O(n) + W
  <2>1. /\ Len(b.out_cache_loc) = OffsetAfter(Lens(win, Len(group)), Len(group)) + d * WindowSize
        /\ Len(b.out_cache_loc) # Len(b.input_ids) <=>
             \E k \in 1..Len(group) : Unverified(reqs[group[k]]) > win[k].padded_len
    BY ONLY <1>0, BatchLengths
  <2> QED
    BY <2>1
<1>4. /\ inputs \in Seq(Input) /\ Len(inputs) = O(n)
      /\ \A k \in 1..n : \A j \in 1..win[k].padded_len :
           j <= Unverified(reqs[group[k]]) =>
             inputs[O(k - 1) + j] =
               TokenAt(group[k], reqs[group[k]], ContextIdx(reqs[group[k]]) + j - 1)
  BY <1>3, InputRows
<1>5. /\ locs \in Seq(Loc) /\ Len(locs) = O(n)
      /\ \A k \in 1..n : \A j \in 1..win[k].padded_len :
           OwnLoc(group[k], reqs[group[k]], j, locs[O(k - 1) + j])
  <2>1. PICK N : N = n
    OBVIOUS
  <2>2. /\ locs \in Seq(Loc) /\ Len(locs) = OffsetAfter(Lens(win, N), N)
        /\ \A k \in 1..N : \A j \in 1..win[k].padded_len :
             OwnLoc(group[k], reqs[group[k]], j, locs[OffsetAfter(Lens(win, N), k - 1) + j])
    BY ONLY <1>0, <2>1, LocsLaid
  <2> QED
    BY ONLY <2>1, <2>2, Zenon DEF O, lens
<1>6. /\ params \in Seq(Nat) /\ Len(params) = O(n)
      /\ \A k \in 1..n : \A j \in 1..win[k].padded_len : params[O(k - 1) + j] = group[k]
  <2>1. SamplesOwn(group, win, n)
    BY SamplingLaid
  <2> HIDE DEF n, params
  <2> QED
    BY <2>1 DEF SamplesOwn, params
<1>7. /\ b.input_ids = inputs \o Repeat(Dummy, W)
      /\ b.out_cache_loc = locs \o dummies
      /\ b.sampling = params \o Repeat(0, W)
      /\ b.req_pool_indices = group \o [k \in 1..d |-> -k]
      /\ b.prefix_lens = prefix \o Repeat(0, d)
      /\ b.extend_lens = own \o Repeat(WindowSize, d)
  BY Zenon DEF PrepareVerifyBatch, SampledBy
<1>8. own = lens
  BY DEF Lens
<1>9. \A k \in 1..n : prefix[k] = ContextIdx(reqs[group[k]]) /\ prefix[k] \in Nat
  <2> TAKE k \in 1..n
  <2>1. Pending(reqs[group[k]])
    BY DEF GroupOK
  <2>2. ContextIdx(reqs[group[k]]) \in Nat
    BY <2>1, UnverifiedOK
  <2> QED
    BY <2>2 DEF ContextIdx
<1>10. prefix \in [1..n -> Nat]
  BY <1>9
<1> HIDE DEF n, lens, W, inputs, locs, params, own, prefix
<1>11. lens \in Seq(Nat) /\ Len(lens) = n /\ prefix \in Seq(Nat) /\ Len(prefix) = n
  BY <1>1, <1>10, TupleOK
<1>12. \A k \in 1..n : \A j \in 1..win[k].padded_len : O(k - 1) + j \in 1..O(n)
  BY <1>1, <1>11, OffsetSplits, Zenon
<1>13. /\ Repeat(Dummy, W) \in Seq(Input) /\ Len(Repeat(Dummy, W)) = W
       /\ Repeat(0, W) \in Seq(Nat) /\ Len(Repeat(0, W)) = W
       /\ Repeat(0, d) \in Seq(Nat) /\ Len(Repeat(0, d)) = d
       /\ Repeat(WindowSize, d) \in Seq(Nat) /\ Len(Repeat(WindowSize, d)) = d
       /\ \A k \in 1..d : Repeat(WindowSize, d)[k] = WindowSize
  <2>1. Dummy \in Input /\ 0 \in Nat /\ W \in Int /\ d \in Int
        /\ (IF W > 0 THEN W ELSE 0) = W /\ (IF d > 0 THEN d ELSE 0) = d
    BY <1>2 DEF Input
  <2>2. Repeat(Dummy, W) \in Seq(Input) /\ Len(Repeat(Dummy, W)) = W
    BY <2>1, RepeatOK, Zenon
  <2>3. Repeat(0, W) \in Seq(Nat) /\ Len(Repeat(0, W)) = W
    BY <2>1, RepeatOK, Zenon
  <2>4. Repeat(0, d) \in Seq(Nat) /\ Len(Repeat(0, d)) = d
    BY <2>1, RepeatOK, Zenon
  <2>5. /\ Repeat(WindowSize, d) \in Seq(Nat) /\ Len(Repeat(WindowSize, d)) = d
        /\ \A k \in 1..d : Repeat(WindowSize, d)[k] = WindowSize
    BY <1>2, <2>1, RepeatOK, ZenonT(30)
  <2> QED
    BY <2>2, <2>3, <2>4, <2>5
<1>14. dummies \in [1..W -> {"dummy"} \X Nat] /\ dummies \in Seq(Loc) /\ Len(dummies) = W
  <2>1. \A j \in 1..W : <<"dummy", j - 1>> \in {"dummy"} \X Nat
    BY <1>2
  <2>2. dummies \in [1..W -> {"dummy"} \X Nat]
    BY <2>1
  <2> HIDE DEF dummies
  <2>3. dummies \in [1..W -> Loc]
    BY <2>2 DEF Loc
  <2> QED
    BY <1>2, <2>2, <2>3, TupleOK
<1> HIDE DEF dummies
<1>15. \A k \in 1..n : \A j \in 1..win[k].padded_len :
         j <= Unverified(reqs[group[k]]) =>
           b.input_ids[O(k - 1) + j] =
             TokenAt(group[k], reqs[group[k]], ContextIdx(reqs[group[k]]) + j - 1)
  <2>1. \A x \in 1..O(n) : b.input_ids[x] = inputs[x]
    <3>1. PICK r, o : r = Repeat(Dummy, W) /\ o = O(n)
      OBVIOUS
    <3>2. /\ inputs \in Seq(Input) /\ r \in Seq(Input) /\ o = Len(inputs)
          /\ b.input_ids = inputs \o r
      BY <1>4, <1>7, <1>13, <3>1, Zenon
    <3>3. \A x \in 1..o : (inputs \o r)[x] = inputs[x]
      BY ONLY <3>2, Behind
    <3> QED
      BY ONLY <3>1, <3>2, <3>3, Zenon
  <2> QED
    BY <1>4, <1>12, <2>1
<1>16. \A k \in 1..n : \A j \in 1..win[k].padded_len :
         OwnLoc(group[k], reqs[group[k]], j, b.out_cache_loc[O(k - 1) + j])
  <2>1. \A x \in 1..O(n) : b.out_cache_loc[x] = locs[x]
    <3>1. PICK o : o = O(n)
      OBVIOUS
    <3>2. /\ locs \in Seq(Loc) /\ dummies \in Seq(Loc) /\ o = Len(locs)
          /\ b.out_cache_loc = locs \o dummies
      BY <1>5, <1>7, <1>14, <3>1, Zenon
    <3>3. \A x \in 1..o : (locs \o dummies)[x] = locs[x]
      BY ONLY <3>2, Behind
    <3> QED
      BY ONLY <3>1, <3>2, <3>3, Zenon
  <2> QED
    BY <1>5, <1>12, <2>1
<1>17. \A x \in (O(n) + 1)..(O(n) + W) : b.out_cache_loc[x] \in {"dummy"} \X Nat
  <2> DEFINE o == O(n)
  <2>1. locs \in Seq(Loc) /\ o = Len(locs) /\ dummies \in Seq(Loc) /\ W = Len(dummies)
    BY <1>5, <1>14
  <2> HIDE DEF o
  <2>2. \A x \in (o + 1)..(o + W) :
          x - o \in 1..W /\ (locs \o dummies)[x] = dummies[x - o]
    BY <2>1, Behind
  <2>3. \A x \in (o + 1)..(o + W) : (locs \o dummies)[x] \in {"dummy"} \X Nat
    BY <1>14, <2>2, ZenonT(30)
  <2> QED
    BY <1>7, <2>3, Zenon DEF o
<1>18. /\ Len(b.sampling) = O(n) + W
       /\ \A k \in 1..n : \A j \in 1..win[k].padded_len : b.sampling[O(k - 1) + j] = group[k]
  <2>1. Len(b.sampling) = O(n) + W /\ \A x \in 1..O(n) : b.sampling[x] = params[x]
    <3>1. PICK r, o : r = Repeat(0, W) /\ o = O(n)
      OBVIOUS
    <3>2. /\ params \in Seq(Nat) /\ r \in Seq(Nat) /\ o = Len(params) /\ W = Len(r)
          /\ b.sampling = params \o r
      BY <1>6, <1>7, <1>13, <3>1, Zenon
    <3>3. Len(params \o r) = o + W /\ \A x \in 1..o : (params \o r)[x] = params[x]
      BY ONLY <3>2, Behind
    <3> QED
      BY ONLY <3>1, <3>2, <3>3, Zenon
  <2> QED
    BY <1>6, <1>12, <2>1
<1>19. /\ Len(b.req_pool_indices) = n + d
       /\ \A k \in 1..n : b.req_pool_indices[k] = group[k]
  <2> DEFINE rows == [k \in 1..d |-> -k]
  <2>1. rows \in [1..d -> Int]
    OBVIOUS
  <2>2. b.req_pool_indices = group \o rows
    BY <1>7
  <2> HIDE DEF rows
  <2>3. rows \in Seq(Int) /\ Len(rows) = d
    BY <2>1, TupleOK
  <2>4. group \in Seq(Int) /\ Len(group) = n
    <3>1. group \in Seq(1..Len(reqs)) /\ Len(reqs) \in Nat
      BY GroupFacts DEF GroupOK
    <3> QED
      BY <3>1 DEF n
  <2>5. PICK c : c = group \o rows
    BY Zenon
  <2>6. Joined(c, group, rows, Int)
    BY ONLY <2>3, <2>4, <2>5, JoinedOK
  <2> HIDE DEF n
  <2> QED
    BY ONLY <2>2, <2>3, <2>4, <2>5, <2>6 DEF Joined
<1>20. \A k \in 1..n : b.prefix_lens[k] = ContextIdx(reqs[group[k]])
  <2>1. \A k \in 1..n : b.prefix_lens[k] = prefix[k]
    BY <1>7, <1>11, <1>13, Behind
  <2> QED
    BY <1>9, <2>1
<1>21. /\ b.extend_lens \in Seq(Nat) /\ Len(b.extend_lens) = n + d
       /\ \A k \in 1..n : b.extend_lens[k] = lens[k]
       /\ \A k \in (n + 1)..(n + d) :
            k - n \in 1..d /\ b.extend_lens[k] = Repeat(WindowSize, d)[k - n]
  <2> DEFINE rest == Repeat(WindowSize, d)
             all == lens \o rest
  <2>1. lens \in Seq(Nat) /\ n = Len(lens) /\ rest \in Seq(Nat) /\ d = Len(rest)
    BY <1>11, <1>13
  <2> HIDE DEF rest
  <2>2. /\ all \in Seq(Nat) /\ Len(all) = n + d
        /\ \A k \in 1..n : all[k] = lens[k]
        /\ \A k \in (n + 1)..(n + d) : k - n \in 1..d /\ all[k] = rest[k - n]
    BY <2>1, Behind
  <2>3. b.extend_lens = all
    BY <1>7, <1>8 DEF rest
  <2> HIDE DEF all
  <2> QED
    BY <2>2, <2>3 DEF rest
<1>22. \A k \in 0..n : OffsetAfter(b.extend_lens, k) = O(k)
  <2>1. n <= Len(b.extend_lens) /\ n <= Len(lens)
    BY <1>1, <1>11, <1>21
  <2> QED
    BY <1>1, <1>11, <1>21, <2>1, OffsetSame, Zenon
<1>23. /\ \A k \in 1..n : b.extend_lens[k] = win[k].padded_len
       /\ \A k \in (n + 1)..(n + d) : b.extend_lens[k] = WindowSize
  BY <1>1, <1>13, <1>21, Zenon
<1> QED
  BY <1>3, <1>15, <1>16, <1>17, <1>18, <1>19, <1>20, <1>21, <1>22, <1>23, ZenonT(30)
  DEF BatchOK, n, lens, W

-----------------------------------------------------------------------------
(* Comparison and rollback                                                 *)

LEMMA FirstMismatchOK ==
  ASSUME NEW X, NEW orig \in Seq(X), NEW pred
  PROVE  /\ FirstMismatchPosition(orig, pred) \in 0..Len(orig)
         /\ \A j \in 1..FirstMismatchPosition(orig, pred) : orig[j] = pred[j]
<1> DEFINE u == Len(orig)
           D == {j \in 1..u : orig[j] # pred[j]}
           pos == FirstMismatchPosition(orig, pred)
<1>1. u \in Nat
  OBVIOUS
<1>2. pos = IF D = {} THEN u ELSE Min(D) - 1
  BY DEF FirstMismatchPosition
<1> HIDE DEF u, pos
<1>3. CASE D = {}
  BY <1>1, <1>2, <1>3 DEF u, pos
<1>4. CASE D # {}
  <2>1. D \in SUBSET Nat
    BY <1>1
  <2>2. \E n \in D : \A m \in D : n <= m
    BY <1>4, <2>1, LeastNat, Zenon
  <2>3. Min(D) \in D /\ \A m \in D : Min(D) <= m
    BY <2>2, ZenonT(30) DEF Min
  <2> DEFINE h == Min(D)
  <2>4. h \in 1..u /\ pos = h - 1
    BY <1>2, <1>4, <2>3
  <2>5. ASSUME NEW j \in 1..pos PROVE orig[j] = pred[j]
    <3>1. j \in 1..u /\ ~(h <= j)
      BY <1>1, <2>4
    <3> QED
      BY <2>3, <3>1
  <2>6. pos \in 0..u
    BY <1>1, <2>4
  <2> QED
    BY <2>5, <2>6 DEF u, pos
<1> QED BY <1>3, <1>4

\* What a pass makes of a request with predictions pred: it keeps its verified
\* tokens and gains g of the verifier's, all outputs are then verified, and what
\* stood before the last one stays.
Gained(q, r, pred, g) ==
  /\ RequestOK(r) /\ r.prompt = q.prompt
  /\ r.is_deterministic = q.is_deterministic /\ r.is_retracted = q.is_retracted
  /\ r.verified = q.verified + g /\ Len(r.output_ids) = q.verified + g
  /\ r.output_ids = SubSeq(q.output_ids, 1, q.verified) \o SubSeq(pred, 1, g)
  /\ \A m \in 1..(q.verified + g - 1) : r.output_ids[m] = q.output_ids[m]

\* The outputs that the rollback leaves, and the log-probabilities, which are put
\* together in another way, are the same list.
RolledBack(out, pred, v, u, pos) ==
  IF pos < u THEN Append(SubSeq(out, 1, v + pos), pred[pos + 1]) ELSE SubSeq(out, 1, v + pos)

RolledBackOK(new, out, pred, v, u, g) ==
  /\ g \in 1..u /\ new \in Seq(Token) /\ Len(new) = v + g
  /\ new = SubSeq(out, 1, v) \o SubSeq(pred, 1, g)
  /\ \A m \in 1..(v + g - 1) : new[m] = out[m]

LEMMA RollbackOutput ==
  ASSUME NEW out \in Seq(Token), NEW v \in Nat, NEW u \in Nat \ {0}, Len(out) = v + u,
         NEW pred \in Seq(Token), Len(pred) = u, NEW pos \in 0..u,
         \A j \in 1..pos : out[v + j] = pred[j]
  PROVE  RolledBackOK(RolledBack(out, pred, v, u, pos), out, pred, v, u, Min2(pos + 1, u))
<1> DEFINE kept == SubSeq(out, 1, v + pos)
           new == RolledBack(out, pred, v, u, pos)
           g == Min2(pos + 1, u)
<1>0. new = IF pos < u THEN Append(kept, pred[pos + 1]) ELSE kept
  BY DEF RolledBack
<1> HIDE DEF new
<1>1. g \in 1..u /\ g <= pos + 1 /\ pos <= g /\ (pos < u => g = pos + 1) /\ (~(pos < u) => g = pos)
  BY DEF Min2
<1> HIDE DEF g
<1> DEFINE a == SubSeq(out, 1, v)
           p == SubSeq(pred, 1, g)
<1>2. /\ kept \in Seq(Token) /\ Len(kept) = v + pos
      /\ \A j \in 1..(v + pos) : kept[j] = out[j]
  <2>1. 1 \in Nat \ {0} /\ v + pos \in Nat /\ v + pos <= Len(out)
        /\ (IF 1 <= v + pos THEN v + pos - 1 + 1 ELSE 0) = v + pos
    OBVIOUS
  <2>2. /\ kept \in Seq(Token) /\ Len(kept) = v + pos
        /\ \A j \in 1..Len(kept) : kept[j] = out[1 + j - 1]
    BY <2>1, SubSeqOK
  <2>3. \A j \in 1..(v + pos) : 1 + j - 1 = j
    OBVIOUS
  <2> QED
    BY <2>2, <2>3
<1>3. a \in Seq(Token) /\ Len(a) = v /\ \A j \in 1..v : a[j] = out[j]
  <2>1. 1 \in Nat \ {0} /\ v \in Nat /\ v <= Len(out)
        /\ (IF 1 <= v THEN v - 1 + 1 ELSE 0) = v
    OBVIOUS
  <2>2. /\ a \in Seq(Token) /\ Len(a) = v
        /\ \A j \in 1..Len(a) : a[j] = out[1 + j - 1]
    BY <2>1, SubSeqOK
  <2>3. \A j \in 1..v : 1 + j - 1 = j
    OBVIOUS
  <2> QED
    BY <2>2, <2>3
<1>4. p \in Seq(Token) /\ Len(p) = g /\ \A j \in 1..g : p[j] = pred[j]
  <2>1. 1 \in Nat \ {0} /\ g \in Nat /\ g <= Len(pred)
        /\ (IF 1 <= g THEN g - 1 + 1 ELSE 0) = g
    BY <1>1
  <2>2. /\ p \in Seq(Token) /\ Len(p) = g
        /\ \A j \in 1..Len(p) : p[j] = pred[1 + j - 1]
    BY <2>1, SubSeqOK
  <2>3. \A j \in 1..g : 1 + j - 1 = j
    OBVIOUS
  <2> QED
    BY <2>2, <2>3
<1> HIDE DEF a, p, kept
<1>5. /\ a \o p \in Seq(Token) /\ Len(a \o p) = v + g
      /\ \A m \in 1..v : (a \o p)[m] = a[m]
      /\ \A m \in (v + 1)..(v + g) : m - v \in 1..g /\ (a \o p)[m] = p[m - v]
  <2>1. a \in Seq(Token) /\ v = Len(a) /\ p \in Seq(Token) /\ g = Len(p)
    BY <1>3, <1>4
  <2> QED
    <3>1. Joined(a \o p, a, p, Token)
      BY <2>1, JoinedOK
    <3> QED
      BY <2>1, <3>1 DEF Joined
<1>6. /\ new \in Seq(Token) /\ Len(new) = v + g
      /\ \A m \in 1..(v + pos) : new[m] = out[m]
      /\ pos < u => new[v + pos + 1] = pred[pos + 1]
  <2>1. CASE pos < u
    <3>1. pred[pos + 1] \in Token /\ new = Append(kept, pred[pos + 1])
      BY <1>0, <2>1
    <3>2. /\ new \in Seq(Token) /\ Len(new) = v + pos + 1
          /\ \A m \in 1..(v + pos) : new[m] = kept[m]
          /\ new[v + pos + 1] = pred[pos + 1]
      <4>1. kept \in Seq(Token) /\ v + pos = Len(kept)
        BY <1>2
      <4> QED
        BY <3>1, <4>1, AppendSeq
    <3>3. v + pos + 1 = v + g
      BY <1>1, <2>1
    <3> QED
      BY <1>2, <3>2, <3>3
  <2>2. CASE ~(pos < u)
    <3>1. new = kept /\ v + pos = v + g
      BY <1>0, <1>1, <2>2
    <3> QED
      BY <1>2, <2>2, <3>1
  <2> QED BY <2>1, <2>2
<1>7. ASSUME NEW m \in 1..(v + g) PROVE new[m] = (a \o p)[m]
  <2>1. CASE m <= v
    <3>1. m \in 1..v /\ m \in 1..(v + pos)
      BY <2>1
    <3> QED
      BY <1>3, <1>5, <1>6, <3>1
  <2>2. CASE v < m /\ m <= v + pos
    <3>1. m \in (v + 1)..(v + g) /\ m - v \in 1..pos /\ v + (m - v) = m /\ m \in 1..(v + pos)
          /\ m - v \in 1..g
      BY <1>1, <2>2
    <3>2. out[v + (m - v)] = pred[m - v]
      BY <3>1
    <3>3. (a \o p)[m] = pred[m - v]
      BY <1>4, <1>5, <3>1
    <3>4. new[m] = out[m]
      BY <1>6, <3>1
    <3> QED
      BY <3>1, <3>2, <3>3, <3>4
  <2>3. CASE m > v + pos
    <3>1. m = v + pos + 1 /\ pos < u /\ m \in (v + 1)..(v + g) /\ m - v = pos + 1
      BY <1>1, <2>3
    <3>2. m - v \in 1..g /\ (a \o p)[m] = p[m - v]
      BY <1>5, <3>1
    <3>3. (a \o p)[m] = pred[pos + 1]
      BY <1>4, <3>1, <3>2
    <3> QED
      BY <1>6, <3>1, <3>3
  <2>4. m <= v \/ (v < m /\ m <= v + pos) \/ m > v + pos
    BY <1>1
  <2> QED BY <2>1, <2>2, <2>3, <2>4, ZenonT(30)
<1>8. new = a \o p
  <2>1. Len(new) = Len(a \o p) /\ new \in Seq(Token) /\ a \o p \in Seq(Token)
        /\ \A m \in 1..Len(new) : new[m] = (a \o p)[m]
    BY <1>5, <1>6, <1>7
  <2> DEFINE c == a \o p
  <2>2. c \in Seq(Token) /\ Len(new) = Len(c) /\ \A m \in 1..Len(new) : new[m] = c[m]
    BY <2>1
  <2> HIDE DEF c
  <2>3. new = c
    <3>1. new \in Seq(Token) /\ c \in Seq(Token)
      BY <2>1, <2>2
    <3> HIDE DEF new
    <3> QED
      BY <2>2, <3>1, SameList
  <2> QED
    BY <2>3 DEF c
<1>9. \A m \in 1..(v + g - 1) : new[m] = out[m]
  <2> TAKE m \in 1..(v + g - 1)
  <2>1. m \in 1..(v + pos)
    BY <1>1
  <2> QED
    BY <1>6, <2>1
<1> QED
  BY <1>1, <1>6, <1>8, <1>9, Zenon DEF a, p, g, new, RolledBackOK

\* verify_and_compare for one request.
LEMMA ComparedOK ==
  ASSUME NEW q, Pending(q), NEW orig \in Seq(Input), Len(orig) = Unverified(q),
         \A j \in 1..Unverified(q) : orig[j] = q.output_ids[q.verified + j],
         NEW pred \in Seq(Token), Len(pred) = Unverified(q)
  PROVE  \E g \in 1..Unverified(q) : Gained(q, Compared(q, orig, pred), pred, g)
<1> DEFINE u == Unverified(q)
           v == q.verified
           n == Len(q.output_ids)
           pos == FirstMismatchPosition(orig, pred)
           back == Len(orig) - pos
           kept == SubSeq(q.output_ids, 1, n - back)
           out == IF back > 0 THEN Append(kept, pred[pos + 1]) ELSE kept
           g == Min2(pos + 1, u)
           lp == SubSeq(q.logprobs, 1, Len(q.logprobs) - Len(orig))
                   \o SubSeq(pred, 1, Min2(pos + 1, Len(pred)))
           rolled == n - Len(out)
           ver == IF rolled > 0 THEN Len(out) ELSE v + Len(orig)
           r == Compared(q, orig, pred)
<1>1. /\ u \in Nat \ {0} /\ u = n - v /\ v \in Nat /\ n \in Nat
      /\ q.output_ids \in Seq(Token)
  BY UnverifiedOK
<1>2. /\ q \in RequestType /\ q.logprobs = q.output_ids
  BY DEF Pending, RequestOK
<1>3. pos \in 0..u /\ \A j \in 1..pos : orig[j] = pred[j]
  BY FirstMismatchOK
<1>4. r = [q EXCEPT !.output_ids = out, !.logprobs = lp,
                    !.finished = q.finished /\ back = 0, !.verified = ver]
  BY <1>2 DEF Compared
<1>5. /\ r.is_deterministic = q.is_deterministic /\ r.is_retracted = q.is_retracted
      /\ r.prompt = q.prompt /\ r.output_ids = out /\ r.logprobs = lp /\ r.verified = ver
      /\ r.finished = (q.finished /\ back = 0)
  BY <1>2, <1>4, Zenon DEF RequestType
<1> HIDE DEF r, lp, ver, out, g
<1>6. back = u - pos /\ n - back = v + pos /\ (back > 0 <=> pos < u) /\ n = v + u
  <2> HIDE DEF u, v, n, pos
  <2>1. Len(orig) = u
    BY DEF u
  <2> QED
    BY <1>1, <1>3, <2>1
<1>7. kept = SubSeq(q.output_ids, 1, v + pos)
  BY <1>6, ZenonT(30)
<1>8. out = RolledBack(q.output_ids, pred, v, u, pos)
  BY <1>6, <1>7 DEF out, RolledBack
<1>9. \A j \in 1..pos : q.output_ids[v + j] = pred[j]
  <2> TAKE j \in 1..pos
  <2>1. j \in 1..u
    BY <1>1, <1>3
  <2> QED
    BY <1>3, <2>1
<1> HIDE DEF u, v, n, pos, kept
<1>10. /\ g \in 1..u /\ out \in Seq(Token) /\ Len(out) = v + g
       /\ out = SubSeq(q.output_ids, 1, v) \o SubSeq(pred, 1, g)
       /\ \A m \in 1..(v + g - 1) : out[m] = q.output_ids[m]
  <2>1. Len(q.output_ids) = v + u /\ Len(pred) = u
    BY <1>6 DEF n, u
  <2>2. g = Min2(pos + 1, u)
    BY DEF g
  <2>3. RolledBackOK(out, q.output_ids, pred, v, u, g)
    BY <1>1, <1>3, <1>8, <1>9, <2>1, <2>2, RollbackOutput, ZenonT(30)
  <2> QED
    BY <2>3 DEF RolledBackOK
<1>11. lp = out
  <2>1. Len(q.logprobs) - Len(orig) = v /\ Len(pred) = u
    BY <1>1, <1>2, <1>6 DEF n, u
  <2>2. lp = SubSeq(q.output_ids, 1, v) \o SubSeq(pred, 1, g)
    BY <1>2, <2>1, Zenon DEF lp, g
  <2> QED
    BY <1>10, <2>2
<1>12. ver = v + g
  <2> DEFINE len == Len(out)
  <2>1. ver = IF n - len > 0 THEN len ELSE v + Len(orig)
    BY DEF ver
  <2>2. Len(orig) = u /\ len = v + g /\ g \in 1..u
    BY <1>10 DEF u
  <2> HIDE DEF len
  <2> QED
    BY <1>1, <1>6, <2>1, <2>2
<1>13. RequestOK(r)
  <2>1. /\ q.is_deterministic \in BOOLEAN /\ q.is_retracted \in BOOLEAN
        /\ q.finished \in BOOLEAN /\ q.prompt \in Nat \ {0}
    BY <1>2 DEF RequestType
  <2>2. v + g \in Nat
    BY <1>1, <1>10
  <2>3. r \in RequestType
    <3>1. r = [q EXCEPT !.output_ids = out, !.logprobs = out,
                        !.finished = q.finished /\ back = 0, !.verified = v + g]
      BY <1>4, <1>11, <1>12 DEF r
    <3>2. (q.finished /\ back = 0) \in BOOLEAN
      OBVIOUS
    <3> QED
      BY <1>2, <1>10, <2>2, <3>1, <3>2, ZenonT(30) DEF RequestType
  <2>4. r.verified <= Len(r.output_ids) /\ r.logprobs = r.output_ids
    BY <1>5, <1>10, <1>11, <1>12, <2>2
  <2> QED
    BY <2>3, <2>4 DEF RequestOK
<1>14. Gained(q, r, pred, g)
  BY <1>5, <1>10, <1>12, <1>13 DEF Gained, v
<1> QED
  BY <1>10, <1>14 DEF r, u

-----------------------------------------------------------------------------
(* The rows of a group that are compared                                   *)

\* The flat lists of verify_and_compare, and the rows of one request in them.
OrigRows(group, win) ==
  Concatenated([k \in 1..Len(group) |-> OriginalOutputs(reqs[group[k]], win[k])])
PredOf(group, win, m) ==
  [k \in 1..Len(group) |-> Predictions(group[k], reqs[group[k]], win[k], m[k])]
PredRows(group, win, pred) ==
  Concatenated([k \in 1..Len(group) |->
                pred[k] \o Repeat(Junk, win[k].padded_len - win[k].actual_len)])
RowsAt(s, win, k) == [j \in 1..win[k].actual_len |-> s[ComparedRows(win, k)[j]]]

\* No window is cut.
Whole(group, win) ==
  \A k \in 1..Len(group) : ~(Unverified(reqs[group[k]]) > win[k].padded_len)

LEMMA RowOffsetOK ==
  ASSUME NEW group, NEW win, GroupOK(group, win), Whole(group, win),
         NEW k \in 1..Len(group)
  PROVE  /\ RowOffset(win, k) = OffsetAfter(Lens(win, Len(group)), k - 1)
         /\ win[k].actual_len = Unverified(reqs[group[k]])
         /\ win[k].actual_len <= win[k].padded_len
         /\ \A j \in 1..win[k].actual_len :
              ComparedRows(win, k)[j] = OffsetAfter(Lens(win, Len(group)), k - 1) + j
<1>1. Len(group) \in Nat
  BY GroupFacts
<1>2. Len(win) = Len(group)
  <2>1. win = [i \in 1..Len(group) |-> win[i]]
    BY DEF GroupOK
  <2> DEFINE Y == {win[i] : i \in 1..Len(group)}
  <2>2. win \in [1..Len(group) -> Y]
    BY <2>1
  <2> QED
    BY <1>1, <2>2, TupleOK
<1>3. RowOffset(win, k) = OffsetAfter(Lens(win, Len(group)), k - 1)
  BY <1>2 DEF RowOffset, Lens
<1>4. WinOK(reqs[group[k]], win[k]) /\ Pending(reqs[group[k]])
  BY DEF GroupOK
<1>5. Unverified(reqs[group[k]]) \in Nat /\ win[k].padded_len \in Nat
  BY GroupFacts
<1>6. Unverified(reqs[group[k]]) <= win[k].padded_len
  BY <1>5 DEF Whole
<1>7. /\ win[k].actual_len = Unverified(reqs[group[k]])
      /\ win[k].actual_len <= win[k].padded_len
  BY <1>4, <1>6 DEF WinOK
<1>8. \A j \in 1..win[k].actual_len : ComparedRows(win, k)[j] = RowOffset(win, k) + j
  BY DEF ComparedRows
<1> QED
  BY <1>3, <1>7, <1>8

LEMMA OriginalOutputsOK ==
  ASSUME NEW q, Pending(q), NEW w, w.actual_len = Unverified(q), w.padded_len \in Nat,
         w.actual_len <= w.padded_len
  PROVE  /\ OriginalOutputs(q, w) \in Seq(Input)
         /\ Len(OriginalOutputs(q, w)) = w.padded_len
         /\ \A j \in 1..Unverified(q) :
              OriginalOutputs(q, w)[j] = q.output_ids[q.verified + j]
<1> DEFINE u == Unverified(q)
           p == w.padded_len
           a == SubSeq(UnverifiedIds(q), 1, u)
           d == Repeat(Dummy, p - u)
<1>1. /\ u \in Nat \ {0} /\ UnverifiedIds(q) \in Seq(Token) /\ Len(UnverifiedIds(q)) = u
      /\ \A j \in 1..u : UnverifiedIds(q)[j] = q.output_ids[q.verified + j]
  BY UnverifiedOK
<1>2. p \in Nat /\ u <= p
  OBVIOUS
<1> HIDE DEF u, p
<1>3. a = UnverifiedIds(q)
  <2> DEFINE s == UnverifiedIds(q)
  <2>1. s \in Seq(Token) /\ Len(s) = u
    BY <1>1
  <2> HIDE DEF s
  <2>2. SubSeq(s, 1, u) = s
    BY <2>1
  <2> QED
    BY <2>2 DEF s
<1>4. a \in Seq(Input) /\ Len(a) = u
  BY <1>1, <1>3 DEF Input
<1>5. d \in Seq(Input) /\ Len(d) = p - u
  <2>1. Dummy \in Input /\ p - u \in Int /\ (IF p - u > 0 THEN p - u ELSE 0) = p - u
    BY <1>1, <1>2 DEF Input
  <2> QED
    BY <2>1, RepeatOK, ZenonT(30)
<1>6. OriginalOutputs(q, w) = a \o d
  BY DEF OriginalOutputs, u, p
<1> HIDE DEF a, d
<1>7. Joined(a \o d, a, d, Input)
  BY <1>4, <1>5, JoinedOK
<1>8. /\ a \o d \in Seq(Input) /\ Len(a \o d) = u + (p - u)
      /\ \A j \in 1..u : (a \o d)[j] = a[j]
  BY <1>4, <1>5, <1>7 DEF Joined
<1>9. u + (p - u) = p
  BY <1>1, <1>2
<1>10. \A j \in 1..u : (a \o d)[j] = q.output_ids[q.verified + j]
  BY <1>1, <1>3, <1>8
<1> QED
  BY <1>6, <1>8, <1>9, <1>10, Zenon DEF u, p

\* The window that is compared, and the predictions it is compared with.
LEMMA OrigRowsOK ==
  ASSUME NEW group, NEW win, GroupOK(group, win), Whole(group, win),
         NEW k \in 1..Len(group), NEW q, q = reqs[group[k]],
         NEW orig, orig = RowsAt(OrigRows(group, win), win, k)
  PROVE  /\ orig \in Seq(Input) /\ Len(orig) = Unverified(q)
         /\ \A j \in 1..Unverified(q) : orig[j] = q.output_ids[q.verified + j]
<1> DEFINE n == Len(group)
           segs == [i \in 1..n |-> OriginalOutputs(reqs[group[i]], win[i])]
           lens == Lens(win, n)
           flat == Concatenated(segs)
           u == Unverified(q)
           o == OffsetAfter(lens, k - 1)
<1>0. /\ GroupOK(group, win) /\ Whole(group, win) /\ k \in 1..Len(group)
      /\ q = reqs[group[k]]
  OBVIOUS
<1>1. n \in Nat /\ lens \in [1..n -> Nat]
  BY ONLY <1>0, GroupFacts
<1>2. ASSUME NEW i \in 1..n
      PROVE  /\ segs[i] \in Seq(Input) /\ Len(segs[i]) = lens[i]
             /\ \A j \in 1..Unverified(reqs[group[i]]) :
                  segs[i][j] = reqs[group[i]].output_ids[reqs[group[i]].verified + j]
  <2>0. i \in 1..Len(group)
    OBVIOUS
  <2>1. /\ win[i].actual_len = Unverified(reqs[group[i]])
        /\ win[i].actual_len <= win[i].padded_len
    BY ONLY <1>0, <2>0, RowOffsetOK
  <2>2. /\ win[i].padded_len \in Nat /\ lens[i] = win[i].padded_len
    BY ONLY <1>0, <2>0, GroupFacts
  <2>3. Pending(reqs[group[i]])
    BY ONLY <1>0, <2>0 DEF GroupOK
  <2>4. /\ OriginalOutputs(reqs[group[i]], win[i]) \in Seq(Input)
        /\ Len(OriginalOutputs(reqs[group[i]], win[i])) = win[i].padded_len
        /\ \A j \in 1..Unverified(reqs[group[i]]) :
             OriginalOutputs(reqs[group[i]], win[i])[j] =
               reqs[group[i]].output_ids[reqs[group[i]].verified + j]
    BY <2>1, <2>2, <2>3, OriginalOutputsOK, ZenonT(30)
  <2> QED
    BY <2>2, <2>4, ZenonT(30)
<1>3. /\ segs \in [1..n -> Seq(Input)] /\ \A i \in 1..n : Len(segs[i]) = lens[i]
  BY <1>2, ZenonT(30)
<1>4. /\ u \in Nat \ {0} /\ win[k].actual_len = u /\ lens[k] \in Nat /\ u <= lens[k]
      /\ \A j \in 1..u : ComparedRows(win, k)[j] = o + j
  <2>1. /\ win[k].actual_len = u /\ win[k].actual_len <= win[k].padded_len
        /\ \A j \in 1..win[k].actual_len : ComparedRows(win, k)[j] = o + j
    BY ONLY <1>0, RowOffsetOK
  <2>2. u \in Nat \ {0} /\ win[k].padded_len \in Nat /\ lens[k] = win[k].padded_len
    BY ONLY <1>0, GroupFacts
  <2> QED
    BY ONLY <2>1, <2>2
<1>5. OrigRows(group, win) = flat
  BY DEF OrigRows
<1>6. \A j \in 1..u : segs[k][j] = q.output_ids[q.verified + j]
  BY <1>2
<1> HIDE DEF segs, lens, n
<1>7. flat \in Seq(Input) /\ Laid(flat, segs, lens, n)
  BY <1>1, <1>3, ConcatenatedParts, ZenonT(30)
<1> HIDE DEF flat, o, u
<1>8. orig = [j \in 1..u |-> flat[ComparedRows(win, k)[j]]]
  BY <1>4, <1>5 DEF RowsAt
<1>9. ASSUME NEW j \in 1..u
      PROVE  orig[j] = segs[k][j] /\ segs[k][j] \in Input
  <2>1. orig[j] = flat[o + j]
    BY <1>4, <1>8
  <2>2. j \in 1..lens[k] /\ k \in 1..n
    BY <1>4 DEF n
  <2>3. flat[o + j] = segs[k][j]
    BY <1>7, <2>2 DEF Laid, o
  <2>4. segs[k][j] \in Input
    <3> DEFINE s == segs[k]
    <3>1. s \in Seq(Input) /\ Len(s) = lens[k]
      BY <1>3, <2>2
    <3> HIDE DEF s
    <3>2. s[j] \in Input
      BY <2>2, <3>1
    <3> QED
      BY <3>2 DEF s
  <2> QED
    BY <2>1, <2>3, <2>4, ZenonT(30)
<1>10. orig \in [1..u -> Input]
  BY <1>8, <1>9
<1>11. orig \in Seq(Input) /\ Len(orig) = u
  BY <1>4, <1>10, TupleOK
<1> QED
  BY <1>6, <1>9, <1>11 DEF u

LEMMA PredictionsOK ==
  ASSUME NEW q, Pending(q), NEW i \in Nat, NEW w, w.actual_len = Unverified(q), NEW m
  PROVE  Predictions(i, q, w, m) \in [1..Unverified(q) -> Token]
<1> DEFINE u == Unverified(q)
           v == q.verified
           n == Len(q.output_ids)
<1>1. u \in Nat \ {0} /\ u = n - v /\ v \in Nat /\ n \in Nat /\ q.output_ids \in Seq(Token)
  BY UnverifiedOK
<1> HIDE DEF u, v, n
<1>2. ASSUME NEW j \in 1..u
      PROVE  q.output_ids[v + j] \in Token /\ <<"v", i, v + j>> \in Token
  <2>1. v + j \in 1..n /\ v + j \in Nat
    BY <1>1
  <2>2. q.output_ids[v + j] \in Token
    BY <1>1, <2>1 DEF n
  <2>3. <<"v", i, v + j>> \in Token
    BY <2>1 DEF Token
  <2> QED
    BY <2>2, <2>3
<1>3. Predictions(i, q, w, m) =
        [j \in 1..u |-> IF j <= m THEN q.output_ids[v + j] ELSE <<"v", i, v + j>>]
  BY DEF Predictions, u, v
<1>4. \A j \in 1..u : (IF j <= m THEN q.output_ids[v + j] ELSE <<"v", i, v + j>>) \in Token
  BY <1>2
<1>5. Predictions(i, q, w, m) \in [1..u -> Token]
  BY <1>3, <1>4
<1> QED
  BY <1>5 DEF u

LEMMA PredRowsOK ==
  ASSUME NEW group, NEW win, GroupOK(group, win), Whole(group, win),
         NEW m, NEW pred, pred = PredOf(group, win, m), NEW k \in 1..Len(group)
  PROVE  /\ pred[k] \in Seq(Token) /\ Len(pred[k]) = Unverified(reqs[group[k]])
         /\ RowsAt(PredRows(group, win, pred), win, k) = pred[k]
<1> DEFINE n == Len(group)
           Out == Token \cup {Junk}
           Rest(i) == Repeat(Junk, win[i].padded_len - win[i].actual_len)
           segs == [i \in 1..n |-> pred[i] \o Rest(i)]
           lens == Lens(win, n)
           flat == Concatenated(segs)
           u == Unverified(reqs[group[k]])
           o == OffsetAfter(lens, k - 1)
<1>0. GroupOK(group, win) /\ Whole(group, win) /\ k \in 1..Len(group)
  OBVIOUS
<1>1. n \in Nat /\ lens \in [1..n -> Nat]
  BY ONLY <1>0, GroupFacts
<1>2. ASSUME NEW i \in 1..n
      PROVE  /\ pred[i] \in [1..Unverified(reqs[group[i]]) -> Token]
             /\ pred[i] \in Seq(Token) /\ Len(pred[i]) = Unverified(reqs[group[i]])
             /\ segs[i] \in Seq(Out) /\ Len(segs[i]) = lens[i]
             /\ \A j \in 1..Unverified(reqs[group[i]]) : segs[i][j] = pred[i][j]
  <2> DEFINE q == reqs[group[i]]
             x == Unverified(q)
             p == win[i].padded_len
             r == Repeat(Junk, p - x)
             a == pred[i]
  <2>0. i \in 1..Len(group)
    OBVIOUS
  <2>1. win[i].actual_len = x /\ win[i].actual_len <= p
    BY ONLY <1>0, <2>0, RowOffsetOK
  <2>2. p \in Nat /\ lens[i] = p /\ x \in Nat \ {0} /\ group[i] \in Nat
    BY ONLY <1>0, <2>0, GroupFacts
  <2>3. Pending(q)
    BY ONLY <1>0, <2>0 DEF GroupOK
  <2>4. a = Predictions(group[i], q, win[i], m[i])
    BY DEF PredOf
  <2>5. a \in [1..x -> Token]
    BY ONLY <2>1, <2>2, <2>3, <2>4, PredictionsOK
  <2>6. segs[i] = a \o r
    BY <2>1, Zenon
  <2>7. x <= p
    BY <2>1
  <2> HIDE DEF q, x, p, a
  <2>8. a \in Seq(Token) /\ Len(a) = x
    BY <2>2, <2>5, TupleOK
  <2>9. a \in Seq(Out)
    BY <2>8
  <2>10. r \in Seq(Out) /\ Len(r) = p - x
    <3>1. Junk \in Out /\ p - x \in Int /\ (IF p - x > 0 THEN p - x ELSE 0) = p - x
      BY <2>2, <2>7
    <3> HIDE DEF Out
    <3> QED
      BY <3>1, RepeatOK, ZenonT(30)
  <2> HIDE DEF r, Out
  <2>11. Joined(a \o r, a, r, Out)
    BY <2>9, <2>10, JoinedOK
  <2>12. /\ a \o r \in Seq(Out) /\ Len(a \o r) = x + (p - x)
         /\ \A j \in 1..x : (a \o r)[j] = a[j]
    BY <2>8, <2>10, <2>11 DEF Joined
  <2>13. x + (p - x) = p
    BY <2>2
  <2> QED
    BY <2>2, <2>5, <2>6, <2>8, <2>12, <2>13, ZenonT(30) DEF q, x, p, a
<1>3. segs \in [1..n -> Seq(Out)] /\ \A i \in 1..n : Len(segs[i]) = lens[i]
  BY <1>2, ZenonT(30)
<1>4. /\ u \in Nat \ {0} /\ win[k].actual_len = u /\ lens[k] \in Nat /\ u <= lens[k]
      /\ \A j \in 1..u : ComparedRows(win, k)[j] = o + j
  <2>1. /\ win[k].actual_len = u /\ win[k].actual_len <= win[k].padded_len
        /\ \A j \in 1..win[k].actual_len : ComparedRows(win, k)[j] = o + j
    BY ONLY <1>0, RowOffsetOK, ZenonT(30)
  <2>2. u \in Nat \ {0} /\ win[k].padded_len \in Nat /\ lens[k] = win[k].padded_len
    BY ONLY <1>0, GroupFacts
  <2> QED
    BY <2>1, <2>2, Zenon
<1>5. PredRows(group, win, pred) = flat
  BY DEF PredRows
<1>6. /\ \A j \in 1..u : segs[k][j] = pred[k][j]
      /\ pred[k] \in [1..u -> Token] /\ pred[k] \in Seq(Token) /\ Len(pred[k]) = u
  BY <1>2, Zenon
<1> HIDE DEF segs, lens, n, Out
<1>7. Laid(flat, segs, lens, n)
  BY <1>1, <1>3, ConcatenatedParts, ZenonT(30)
<1> HIDE DEF flat, o, u
<1> DEFINE at == RowsAt(PredRows(group, win, pred), win, k)
<1>8. at = [j \in 1..u |-> flat[ComparedRows(win, k)[j]]]
  BY <1>4, <1>5 DEF RowsAt
<1> HIDE DEF at
<1>9. ASSUME NEW j \in 1..u
      PROVE  at[j] = pred[k][j]
  <2>1. at[j] = flat[o + j]
    BY <1>4, <1>8
  <2>2. j \in 1..lens[k] /\ k \in 1..n
    BY <1>4 DEF n
  <2>3. flat[o + j] = segs[k][j]
    BY <1>7, <2>2 DEF Laid, o
  <2> QED
    BY <1>6, <2>1, <2>3
<1>10. at = pred[k]
  <2> DEFINE f == pred[k]
  <2>1. f \in [1..u -> Token] /\ \A j \in 1..u : at[j] = f[j]
    BY <1>6, <1>9
  <2> HIDE DEF f
  <2>2. at = f
    BY <1>8, <2>1
  <2> QED
    BY <2>2 DEF f
<1> QED
  BY <1>6, <1>10 DEF u, at
=============================================================================

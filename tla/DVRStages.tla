---------------------------- MODULE DVRStages ----------------------------
(***************************************************************************)
(* The stages a request passes in an iteration, one lemma each: decoding,  *)
(* verification, check_finished, release, streaming and prefill keep what  *)
(* IndInv says of the request.                                             *)
(***************************************************************************)
EXTENDS DVR, SequenceTheorems, WellFoundedInduction, TLAPS

\* check_finished, release_kv_cache and the streaming step leave the outputs
\* alone, and only the last one moves the send offset, forward.
SameOutput(p, q) ==
  /\ p.output_ids = q.output_ids
  /\ p.verified = q.verified
  /\ p.retraction_count = q.retraction_count
  /\ p.send_token_offset >= q.send_token_offset

\* What a stage may do to the outputs: drop unverified ones, never others, nor
\* take back what was sent.
KeepsVerified(p, q) ==
  /\ p.verified >= q.verified
  /\ p.send_token_offset >= q.send_token_offset
  /\ \A i \in 1..q.verified : p.output_ids[i] = q.output_ids[i]

\* These relations compose along the stages of an iteration.
LEMMA StageReflexive ==
  ASSUME NEW r \in Reqs, NEW q, RecordOK(r, q)
  PROVE  /\ q.verified \in Nat /\ q.send_token_offset \in Nat
         /\ SameOutput(q, q) /\ KeepsVerified(q, q)
<1>1. q.verified \in Nat /\ q.send_token_offset \in Nat
  BY DEF RecordOK, RequestType
<1> QED
  BY <1>1 DEF SameOutput, KeepsVerified

LEMMA StageTransitive ==
  ASSUME NEW r \in Reqs, NEW q, RecordOK(r, q), NEW p, RecordOK(r, p),
         NEW s, RecordOK(r, s)
  PROVE  /\ SameOutput(s, p) /\ SameOutput(p, q) => SameOutput(s, q)
         /\ SameOutput(s, p) /\ KeepsVerified(p, q) => KeepsVerified(s, q)
         /\ KeepsVerified(s, p) /\ KeepsVerified(p, q) => KeepsVerified(s, q)
<1>1. /\ q.verified \in Nat /\ q.send_token_offset \in Nat
      /\ p.verified \in Nat /\ p.send_token_offset \in Nat
      /\ s.verified \in Nat /\ s.send_token_offset \in Nat
  BY StageReflexive
<1>2. ASSUME SameOutput(s, p), SameOutput(p, q) PROVE SameOutput(s, q)
  BY <1>1, <1>2 DEF SameOutput
<1>3. ASSUME SameOutput(s, p), KeepsVerified(p, q) PROVE KeepsVerified(s, q)
  BY <1>1, <1>3 DEF SameOutput, KeepsVerified
<1>4. ASSUME KeepsVerified(s, p), KeepsVerified(p, q) PROVE KeepsVerified(s, q)
  <2>1. /\ p.verified >= q.verified /\ s.verified >= p.verified
        /\ p.send_token_offset >= q.send_token_offset
        /\ s.send_token_offset >= p.send_token_offset
        /\ \A i \in 1..q.verified : p.output_ids[i] = q.output_ids[i]
        /\ \A i \in 1..p.verified : s.output_ids[i] = p.output_ids[i]
    BY <1>4 DEF KeepsVerified
  <2> QED
    BY <1>1, <2>1 DEF KeepsVerified
<1> QED
  BY <1>2, <1>3, <1>4

\* FinishReason always names a reason, and names it for the right output.
LEMMA FinishReasonOK ==
  ASSUME NEW r \in Reqs, NEW q, RecordOK(r, q), q.output_ids # <<>>
  PROVE  /\ FinishReason(q) \in Reasons
         /\ FinishReason(q) = "length" => Len(q.output_ids) = MaxNewTokens
         /\ FinishReason(q) = "token" => LastToken(q) \in Eos
         /\ FinishReason(q) = "none" =>
              /\ ~q.to_finish
              /\ Len(q.output_ids) < MaxNewTokens
              /\ LastToken(q) \notin Stops
<1>1. q.to_finish \in BOOLEAN /\ Len(q.output_ids) \in Nat
      /\ Len(q.output_ids) <= MaxNewTokens /\ MaxNewTokens \in Nat
  BY DVRAssumption DEF RecordOK, RequestType
<1>2. CASE q.to_finish
  BY <1>2 DEF FinishReason, Reasons
<1>3. CASE ~q.to_finish /\ Len(q.output_ids) >= MaxNewTokens
  BY <1>1, <1>3 DEF FinishReason, Reasons
<1>4. CASE /\ ~q.to_finish /\ Len(q.output_ids) < MaxNewTokens
           /\ LastToken(q) \in Eos
  BY <1>1, <1>4 DEF FinishReason, Reasons
<1>5. CASE /\ ~q.to_finish /\ Len(q.output_ids) < MaxNewTokens
           /\ LastToken(q) \in StopStr \ Eos
  BY <1>1, <1>5 DEF FinishReason, Reasons
<1>6. CASE /\ ~q.to_finish /\ Len(q.output_ids) < MaxNewTokens
           /\ LastToken(q) \notin Stops
  BY <1>1, <1>6 DEF FinishReason, Reasons, Stops
<1> QED
  BY <1>1, <1>2, <1>3, <1>4, <1>5, <1>6 DEF Stops

\* check_finished keeps the record sound and leaves a deserved reason, whether
\* it sets one, finds one, or finds none to set.
LEMMA CheckFinishedOK ==
  ASSUME NEW r \in Reqs, NEW q, RecordOK(r, q), CacheOK(q),
         Finished(q) => ReasonOK(q)
  PROVE  /\ RecordOK(r, CheckFinished(q))
         /\ CacheOK(CheckFinished(q))
         /\ ReasonOK(CheckFinished(q))
         /\ SameOutput(CheckFinished(q), q)
         /\ CheckFinished(q).status = q.status
         /\ CheckFinished(q).finished_output = q.finished_output
<1> DEFINE c == CheckFinished(q)
<1>1. CASE Finished(q)
  BY <1>1, StageReflexive DEF CheckFinished
<1>2. CASE ~Finished(q)
  <2>1. c = [q EXCEPT
          !.finished_reason = FinishReason(q),
          !.to_finish = FALSE,
          !.finished_len = CASE FinishReason(q) = "length" -> MaxNewTokens
                             [] FinishReason(q) = "token" -> Len(q.output_ids)
                             [] OTHER -> q.finished_len]
    BY <1>2 DEF CheckFinished
  <2>2. q \in RequestType /\ q.output_ids # <<>> /\ Len(q.output_ids) \in Nat
    BY DEF RecordOK, CacheOK, RequestType
  <2>3. /\ c.finished_reason = FinishReason(q)
        /\ c.to_finish = FALSE
        /\ c.finished_len = CASE FinishReason(q) = "length" -> MaxNewTokens
                              [] FinishReason(q) = "token" -> Len(q.output_ids)
                              [] OTHER -> q.finished_len
        /\ c.output_ids = q.output_ids /\ c.verified = q.verified
        /\ c.kv = q.kv /\ c.prompt_kv = q.prompt_kv
        /\ c.sent = q.sent /\ c.send_token_offset = q.send_token_offset
        /\ c.retraction_count = q.retraction_count /\ c.status = q.status
        /\ c.finished_output = q.finished_output
        /\ c.next_input = q.next_input
    BY <2>1, <2>2 DEF RequestType
  <2>4. c.finished_len \in Nat
        /\ (c.finished_len # 0 => c.send_token_offset <= c.finished_len)
    BY <2>2, <2>3, FinishReasonOK, DVRAssumption DEF RecordOK, RequestType
  <2>5. c \in RequestType
    <3>1. FinishReason(q) \in Reasons
      BY <2>2, FinishReasonOK
    <3>2. c.finished_len \in Nat /\ c = [q EXCEPT
          !.finished_reason = FinishReason(q),
          !.to_finish = FALSE,
          !.finished_len = c.finished_len]
      BY <2>1, <2>3, <2>4
    <3> HIDE DEF c
    <3> QED
      BY <2>2, <3>1, <3>2 DEF RequestType
  <2>6. RecordOK(r, c)
    BY <2>3, <2>4, <2>5 DEF RecordOK, Reproducible
  <2>7. CacheOK(c)
    BY <2>3 DEF CacheOK, Reproducible, ContextTrusted
  <2>8. ReasonOK(c)
    <3>1. \A i \in 1..Len(q.output_ids) :
            i = Len(q.output_ids) \/ q.output_ids[i] \notin Stops
      BY <2>2 DEF RecordOK
    <3>2. c.finished_reason \in Reasons
      BY <2>2, <2>3, FinishReasonOK
    <3> QED
      BY <2>2, <2>3, <3>1, <3>2, FinishReasonOK, Zenon DEF ReasonOK, LastToken, Reasons
  <2>9. SameOutput(c, q)
    BY <2>3, StageReflexive DEF SameOutput
  <2> QED
    BY <2>3, <2>6, <2>7, <2>8, <2>9
<1> QED
  BY <1>1, <1>2

\* release_kv_cache touches nothing but the status and the cache.
LEMMA ReleaseOK ==
  ASSUME NEW r \in Reqs, NEW q, RecordOK(r, q), ReasonOK(q)
  PROVE  /\ RecordOK(r, Release(q))
         /\ ReasonOK(Release(q))
         /\ SameOutput(Release(q), q)
         /\ Release(q).finished_reason = q.finished_reason
         /\ Release(q).finished_len = q.finished_len
         /\ Release(q).finished_output = q.finished_output
         /\ Finished(q) => Release(q).status = "released"
         /\ ~Finished(q) => Release(q) = q
<1>1. CASE ~Finished(q)
  BY <1>1, StageReflexive DEF Release
<1>2. CASE Finished(q)
  <2> DEFINE p == [q EXCEPT !.status = "released", !.kv = <<>>]
  <2>1. q \in RequestType
    BY DEF RecordOK
  <2>a. <<>> \in Seq(KVEntry)
    BY EmptySeq
  <2>b. p \in RequestType
    BY <2>1, <2>a DEF RequestType, Status
  <2>2. /\ p.status = "released"
        /\ p.output_ids = q.output_ids /\ p.verified = q.verified
        /\ p.sent = q.sent /\ p.send_token_offset = q.send_token_offset
        /\ p.retraction_count = q.retraction_count
        /\ p.finished_output = q.finished_output
        /\ p.finished_reason = q.finished_reason
        /\ p.finished_len = q.finished_len
    BY <2>1 DEF RequestType, Status
  <2>3. RecordOK(r, p) /\ ReasonOK(p)
    BY <2>2, <2>b DEF RecordOK, ReasonOK, Reproducible, LastToken
  <2>4. SameOutput(p, q)
    BY <2>2, StageReflexive DEF SameOutput
  <2> QED
    BY <1>2, <2>2, <2>3, <2>4 DEF Release
<1> QED
  BY <1>1, <1>2

\* output_ids_through_stop is a prefix of output_ids, cut at finished_len.
LEMMA OutputThroughStopOK ==
  ASSUME NEW r \in Reqs, NEW q, RecordOK(r, q)
  PROVE  /\ OutputThroughStop(q) \in Seq(Token)
         /\ Len(OutputThroughStop(q)) =
              IF q.finished_len = 0 THEN Len(q.output_ids)
              ELSE Min2(q.finished_len, Len(q.output_ids))
         /\ \A i \in 1..Len(OutputThroughStop(q)) :
              OutputThroughStop(q)[i] = q.output_ids[i]
<1>1. q.output_ids \in Seq(Token) /\ q.finished_len \in Nat
      /\ Len(q.output_ids) \in Nat
  BY DEF RecordOK, RequestType
<1>2. CASE q.finished_len = 0
  BY <1>1, <1>2 DEF OutputThroughStop
<1>3. CASE q.finished_len # 0
  <2> DEFINE m == Min2(q.finished_len, Len(q.output_ids))
  <2>1. m \in 0..Len(q.output_ids)
    BY <1>1 DEF Min2
  <2>2. \A i \in 1..m : q.output_ids[i] \in Token
    BY <1>1, <2>1, ElementOfSeq
  <2>3. /\ SubSeq(q.output_ids, 1, m) \in Seq(Token)
        /\ Len(SubSeq(q.output_ids, 1, m)) = m
        /\ \A i \in 1..m : SubSeq(q.output_ids, 1, m)[i] = q.output_ids[i]
    <3> HIDE DEF m
    <3> QED
      BY <1>1, <2>1, <2>2, SubSeqProperties
  <2> QED
    BY <1>3, <2>3 DEF OutputThroughStop
<1> QED
  BY <1>2, <1>3

\* Sending up to n appends the tokens between send_token_offset and n, so that
\* the client holds the first n tokens of output_ids.
LEMMA SendUpToOK ==
  ASSUME NEW r \in Reqs, NEW q, RecordOK(r, q), ReasonOK(q),
         NEW n \in Nat, q.send_token_offset <= n,
         n <= Len(OutputThroughStop(q)), n <= q.verified
  PROVE  /\ RecordOK(r, SendUpTo(q, n))
         /\ ReasonOK(SendUpTo(q, n))
         /\ SameOutput(SendUpTo(q, n), q)
         /\ SendUpTo(q, n).sent \in Seq(Token)
         /\ Len(SendUpTo(q, n).sent) = n
         /\ \A i \in 1..n : SendUpTo(q, n).sent[i] = q.output_ids[i]
         /\ SendUpTo(q, n).finished_reason = q.finished_reason
         /\ SendUpTo(q, n).finished_output = q.finished_output
         /\ SendUpTo(q, n).status = q.status
         /\ SendUpTo(q, n).kv = q.kv
         /\ SendUpTo(q, n).prompt_kv = q.prompt_kv
<1> DEFINE o == q.send_token_offset
           thru == OutputThroughStop(q)
           new == SubSeq(thru, o + 1, n)
           s == q.sent \o new
           p == [q EXCEPT !.sent = s, !.send_token_offset = n]
<1>1. /\ q \in RequestType /\ o \in Nat /\ q.sent \in Seq(Token)
      /\ Len(q.sent) = o /\ \A i \in 1..o : q.sent[i] = q.output_ids[i]
      /\ q.finished_len \in Nat /\ Len(q.output_ids) \in Nat
  BY DEF RecordOK, RequestType
<1>2. /\ thru \in Seq(Token) /\ Len(thru) \in Nat
      /\ \A i \in 1..Len(thru) : thru[i] = q.output_ids[i]
      /\ q.finished_len # 0 => Len(thru) <= q.finished_len
  BY <1>1, OutputThroughStopOK DEF Min2
<1>3. /\ new \in Seq(Token) /\ Len(new) = n - o
      /\ \A i \in 1..(n - o) : new[i] = q.output_ids[o + i]
  <2> DEFINE lo == o + 1
  <2>1. lo \in Int /\ n \in Int /\ n - lo + 1 = n - o
    BY <1>1
  <2>2. \A i \in lo..n : thru[i] \in Token /\ thru[i] = q.output_ids[i]
    <3> HIDE DEF thru
    <3> QED
      BY <1>1, <1>2, ElementOfSeq DEF thru
  <2> HIDE DEF thru, lo
  <2>3. /\ SubSeq(thru, lo, n) \in Seq(Token)
        /\ Len(SubSeq(thru, lo, n)) = IF lo <= n THEN n - lo + 1 ELSE 0
        /\ \A i \in 1..(n - lo + 1) : SubSeq(thru, lo, n)[i] = thru[lo + i - 1]
    BY <2>1, <2>2, SubSeqProperties
  <2>4. new = SubSeq(thru, lo, n)
    BY DEF lo
  <2> HIDE DEF new
  <2>5. Len(new) = n - o
    <3>1. o \in Nat /\ n \in Nat /\ o <= n /\ lo = o + 1
      BY <1>1 DEF lo
    <3>2. Len(new) = IF lo <= n THEN n - lo + 1 ELSE 0
      BY <2>3, <2>4
    <3> HIDE DEF o
    <3> QED
      BY ONLY <3>1, <3>2
  <2>6. ASSUME NEW i \in 1..(n - o) PROVE new[i] = q.output_ids[o + i]
    <3>1. i \in 1..(n - lo + 1) /\ lo + i - 1 = o + i /\ o + i \in lo..n
      <4>1. o \in Nat /\ lo = o + 1
        BY <1>1 DEF lo
      <4> HIDE DEF o
      <4> QED
        BY <4>1
    <3> QED
      BY <2>2, <2>3, <2>4, <3>1
  <2> QED
    BY <2>3, <2>4, <2>5, <2>6
<1>4. /\ s \in Seq(Token) /\ Len(s) = n
      /\ \A i \in 1..n : s[i] = q.output_ids[i]
  <2> HIDE DEF new
  <2>1. /\ s \in Seq(Token) /\ Len(s) = Len(q.sent) + Len(new)
        /\ \A i \in 1..(Len(q.sent) + Len(new)) :
             s[i] = IF i <= Len(q.sent) THEN q.sent[i] ELSE new[i - Len(q.sent)]
    BY <1>1, <1>3, ConcatProperties
  <2> HIDE DEF s
  <2>2. ASSUME NEW i \in 1..n PROVE s[i] = q.output_ids[i]
    <3>1. /\ o \in Nat /\ Len(q.sent) = o /\ Len(new) = n - o
          /\ i \in 1..(Len(q.sent) + Len(new))
      <4>1. o \in Nat /\ Len(q.sent) = o /\ Len(new) = n - o
        BY <1>1, <1>3
      <4> HIDE DEF o
      <4> QED
        BY <4>1
    <3>2. s[i] = IF i <= o THEN q.sent[i] ELSE new[i - o]
      BY <2>1, <3>1
    <3>3. CASE i <= o
      <4>1. i \in 1..o
        BY <3>1, <3>3
      <4> QED
        BY <1>1, <3>2, <3>3, <4>1
    <3>4. CASE ~(i <= o)
      <4>1. i - o \in 1..(n - o) /\ o + (i - o) = i
        <5> HIDE DEF o
        <5> QED
          BY <3>1, <3>4
      <4>2. new[i - o] = q.output_ids[o + (i - o)]
        BY <1>3, <4>1
      <4> QED
        BY <3>2, <3>4, <4>1, <4>2
    <3> QED
      BY <3>3, <3>4
  <2> QED
    BY <1>1, <1>3, <2>1, <2>2
<1>5. /\ p \in RequestType /\ p.sent = s /\ p.send_token_offset = n
      /\ p.output_ids = q.output_ids /\ p.verified = q.verified
      /\ p.retraction_count = q.retraction_count /\ p.status = q.status
      /\ p.finished_output = q.finished_output
      /\ p.finished_reason = q.finished_reason
      /\ p.finished_len = q.finished_len
      /\ p.kv = q.kv /\ p.prompt_kv = q.prompt_kv
  <2> HIDE DEF s
  <2> QED
    BY <1>1, <1>4 DEF RequestType
<1>6. SendUpTo(q, n) = p
  BY DEF SendUpTo
<1>7. RecordOK(r, p) /\ ReasonOK(p)
  <2> HIDE DEF p, s, thru
  <2> QED
    BY <1>1, <1>2, <1>4, <1>5 DEF RecordOK, ReasonOK, Reproducible, LastToken, thru
<1> HIDE DEF p, s
<1> QED
  BY <1>4, <1>5, <1>6, <1>7 DEF SameOutput

\* The answer of a finished, fully verified request: everything output_ids
\* holds, unless finished_len cuts it.
LEMMA StreamFinishedOK ==
  ASSUME NEW r \in Reqs, NEW q, RecordOK(r, q), ReasonOK(q), Finished(q),
         q.output_ids # <<>>, ~q.finished_output,
         q.verified >= Len(q.output_ids)
  PROVE  /\ RecordOK(r, StreamOutput(r, q))
         /\ ReasonOK(StreamOutput(r, q))
         /\ SameOutput(StreamOutput(r, q), q)
         /\ StreamOutput(r, q).status = q.status
         /\ StreamOutput(r, q).finished_reason = q.finished_reason
         /\ StreamOutput(r, q).finished_output
         /\ q.finished_reason \in {"length", "token"} =>
              StreamOutput(r, q).sent = q.output_ids
<1> DEFINE f == [q EXCEPT !.finished_output = TRUE,
                          !.finished_len = IF @ = 0 THEN Len(q.output_ids)
                                                    ELSE @]
           n == Len(OutputThroughStop(f))
<1>1. /\ q \in RequestType /\ q.output_ids \in Seq(Token)
      /\ Len(q.output_ids) \in Nat /\ q.finished_len \in Nat
      /\ q.verified \in Nat /\ q.send_token_offset \in Nat
      /\ q.send_token_offset <= q.verified /\ q.verified <= Len(q.output_ids)
      /\ q.finished_len # 0 => q.send_token_offset <= q.finished_len
  BY DEF RecordOK, RequestType
<1>2. StreamOutput(r, q) = SendUpTo(f, n)
  BY DEF StreamOutput
<1>3. f \in RequestType
  BY <1>1 DEF RequestType
<1>4. /\ f.finished_output
      /\ f.finished_len = IF q.finished_len = 0 THEN Len(q.output_ids)
                                                ELSE q.finished_len
      /\ f.output_ids = q.output_ids /\ f.verified = q.verified
      /\ f.sent = q.sent /\ f.send_token_offset = q.send_token_offset
      /\ f.retraction_count = q.retraction_count
      /\ f.status = q.status /\ f.finished_reason = q.finished_reason
  BY <1>1 DEF RequestType
<1> HIDE DEF f
<1>5. RecordOK(r, f)
  BY <1>1, <1>3, <1>4 DEF RecordOK, Reproducible
<1>6. ReasonOK(f)
  BY <1>1, <1>4, DVRAssumption DEF ReasonOK, LastToken
<1>7. n = IF f.finished_len = 0 THEN Len(f.output_ids)
          ELSE Min2(f.finished_len, Len(f.output_ids))
  BY <1>5, OutputThroughStopOK
<1>8. /\ n \in Nat /\ f.send_token_offset <= n /\ n <= f.verified
      /\ n <= Len(OutputThroughStop(f))
  <2>1. n \in Nat /\ f.send_token_offset <= n /\ n <= f.verified
    <3> HIDE DEF n
    <3> QED
      BY <1>1, <1>4, <1>7 DEF Min2
  <2> QED
    BY <2>1
<1> HIDE DEF n
<1>9. q.finished_reason \in {"length", "token"} => n = Len(q.output_ids)
  <2>1. q.finished_reason \in {"length", "token"} =>
          q.finished_len = Len(q.output_ids)
    BY DEF ReasonOK
  <2> QED
    BY <1>1, <1>4, <1>7, <2>1 DEF Min2
<1>10. /\ RecordOK(r, SendUpTo(f, n)) /\ ReasonOK(SendUpTo(f, n))
       /\ SameOutput(SendUpTo(f, n), f)
       /\ SendUpTo(f, n).sent \in Seq(Token)
       /\ Len(SendUpTo(f, n).sent) = n
       /\ \A i \in 1..n : SendUpTo(f, n).sent[i] = f.output_ids[i]
       /\ SendUpTo(f, n).finished_reason = f.finished_reason
       /\ SendUpTo(f, n).finished_output = f.finished_output
       /\ SendUpTo(f, n).status = f.status
  BY <1>5, <1>6, <1>8, SendUpToOK
<1>11. q.finished_reason \in {"length", "token"} =>
         SendUpTo(f, n).sent = q.output_ids
  BY <1>1, <1>4, <1>9, <1>10, SeqEqual
<1> QED
  BY <1>2, <1>4, <1>10, <1>11 DEF SameOutput

\* The end of an iteration: what release and stream_output make of a request
\* that was decoded or prefilled is sound between iterations.
LEMMA SettleOK ==
  ASSUME NEW r \in Reqs, NEW q, RecordOK(r, q), CacheOK(q), ReasonOK(q),
         q.status = "running", ~q.finished_output,
         Unverified(q) < WindowSize + q.retraction_count,
         Finished(q) /\ q.retraction_count = 0 =>
           q.verified = Len(q.output_ids)
  PROVE  /\ RequestOK(r, StreamOutput(r, Release(q)))
         /\ SameOutput(StreamOutput(r, Release(q)), q)
<1> DEFINE p == Release(q)
           s == StreamOutput(r, p)
<1>1. /\ RecordOK(r, p) /\ ReasonOK(p) /\ SameOutput(p, q)
      /\ p.finished_reason = q.finished_reason
      /\ p.finished_len = q.finished_len
      /\ p.finished_output = q.finished_output
      /\ Finished(q) => p.status = "released"
      /\ ~Finished(q) => p = q
  BY ReleaseOK
<1>t. /\ q.verified \in Nat /\ Len(q.output_ids) \in Nat
      /\ q.verified <= Len(q.output_ids) /\ q.retraction_count \in Nat
      /\ q.send_token_offset \in Nat /\ q.finished_len \in Nat
      /\ q.send_token_offset <= q.verified
      /\ q.finished_len # 0 => q.send_token_offset <= q.finished_len
  BY DEF RecordOK, RequestType
<1>2. CASE Finished(q) /\ q.verified >= Len(q.output_ids)
  <2> HIDE DEF p
  <2>1. /\ RecordOK(r, s) /\ ReasonOK(s) /\ SameOutput(s, p)
        /\ s.status = p.status /\ s.finished_reason = p.finished_reason
        /\ s.finished_output
        /\ p.finished_reason \in {"length", "token"} => s.sent = p.output_ids
    BY <1>1, <1>2, StreamFinishedOK DEF CacheOK, SameOutput, Finished
  <2> HIDE DEF s
  <2>2. RequestOK(r, s)
    BY <1>1, <1>2, <2>1 DEF RequestOK, SameOutput, Finished
  <2>3. SameOutput(s, q)
    BY <1>1, <2>1, StageTransitive
  <2> QED
    BY <2>2, <2>3 DEF p, s
<1>3. CASE Finished(q) /\ ~(q.verified >= Len(q.output_ids))
  <2>1. s = p
    BY <1>1, <1>3 DEF StreamOutput, SameOutput, Finished
  <2>2. q.retraction_count # 0
    BY <1>3, <1>t
  <2> HIDE DEF p
  <2>3. RequestOK(r, p)
    <3>1. p.verified < Len(p.output_ids)
      BY <1>1, <1>3, <1>t DEF SameOutput
    <3> QED
      BY <1>1, <1>3, <2>2, <3>1 DEF RequestOK, SameOutput, Finished
  <2> QED
    BY <1>1, <2>1, <2>3 DEF p
<1>4. CASE ~Finished(q) /\ DueForStreaming(r, q)
  <2> DEFINE n == Min2(Len(OutputThroughStop(q)), q.verified)
  <2>1. s = SendUpTo(q, n)
    BY <1>1, <1>4 DEF StreamOutput
  <2>2. Len(OutputThroughStop(q)) =
          IF q.finished_len = 0 THEN Len(q.output_ids)
          ELSE Min2(q.finished_len, Len(q.output_ids))
    BY OutputThroughStopOK
  <2>3. /\ n \in Nat /\ q.send_token_offset <= n /\ n <= q.verified
        /\ n <= Len(OutputThroughStop(q))
    BY <1>t, <2>2 DEF Min2
  <2> HIDE DEF n
  <2>4. /\ RecordOK(r, SendUpTo(q, n)) /\ ReasonOK(SendUpTo(q, n))
        /\ SameOutput(SendUpTo(q, n), q)
        /\ SendUpTo(q, n).finished_reason = q.finished_reason
        /\ SendUpTo(q, n).finished_output = q.finished_output
        /\ SendUpTo(q, n).status = q.status
        /\ SendUpTo(q, n).kv = q.kv
        /\ SendUpTo(q, n).prompt_kv = q.prompt_kv
    BY <2>3, SendUpToOK
  <2>5. CacheOK(SendUpTo(q, n))
    BY <2>4 DEF CacheOK, SameOutput, Reproducible, ContextTrusted
  <2>6. RequestOK(r, SendUpTo(q, n))
    BY <1>4, <2>4, <2>5 DEF RequestOK, SameOutput, Finished, Unverified
  <2> QED
    BY <2>1, <2>4, <2>6
<1>5. CASE ~Finished(q) /\ ~DueForStreaming(r, q)
  <2>1. s = q
    BY <1>1, <1>5 DEF StreamOutput
  <2>2. RequestOK(r, q)
    BY <1>5 DEF RequestOK, Finished
  <2> QED
    BY <2>1, <2>2, StageReflexive
<1> QED
  BY <1>2, <1>3, <1>4, <1>5

\* Every non-empty set of naturals has a least element.
LEMMA LeastNat ==
  ASSUME NEW T \in SUBSET Nat, T # {}
  PROVE  \E x \in T : \A y \in T : x <= y
<1>1. \E x \in T : \A y \in T : ~(<<y, x>> \in OpToRel(<, Nat))
  BY NatLessThanWellFounded, WFMin
<1>2. PICK x \in T : \A y \in T : ~(<<y, x>> \in OpToRel(<, Nat))
  BY <1>1
<1>3. ASSUME NEW y \in T PROVE x <= y
  <2>1. ~(y < x)
    BY <1>2 DEF OpToRel
  <2> QED
    BY <2>1
<1> QED
  BY <1>3

\* first_mismatch_position: all unverified tokens before it agree with the
\* verifier's.
LEMMA FirstMismatchOK ==
  ASSUME NEW q, NEW ref, Unverified(q) \in Nat
  PROVE  /\ FirstMismatchPosition(q, ref) \in 0..Unverified(q)
         /\ \A j \in 1..FirstMismatchPosition(q, ref) :
              q.output_ids[q.verified + j] = ref[q.verified + j]
<1> DEFINE n == Unverified(q)
           Differ(i) == q.output_ids[q.verified + i] # ref[q.verified + i]
           T == {i \in 1..n : Differ(i)}
           First(i) == Differ(i) /\ \A j \in 1..(i-1) : ~Differ(j)
<1>1. CASE ~\E i \in 1..n : Differ(i)
  <2>1. FirstMismatchPosition(q, ref) = n
    BY <1>1 DEF FirstMismatchPosition
  <2> QED
    BY <1>1, <2>1
<1>2. CASE \E i \in 1..n : Differ(i)
  <2>1. \E i \in 1..n : First(i)
    <3> HIDE DEF Differ, n
    <3>1. T \in SUBSET Nat /\ T # {}
      BY <1>2
    <3>2. PICK x \in T : \A y \in T : x <= y
      BY <3>1, LeastNat
    <3>3. ASSUME NEW j \in 1..(x-1) PROVE ~Differ(j)
      <4>1. j \in 1..n /\ ~(x <= j)
        BY <3>2 DEF n
      <4> QED
        BY <3>2, <4>1
    <3> QED
      BY <3>2, <3>3
  <2> DEFINE m == CHOOSE i \in 1..n : First(i)
  <2>2. m \in 1..n /\ First(m)
    <3> HIDE DEF First, n
    <3> QED
      BY <2>1
  <2>3. FirstMismatchPosition(q, ref) = m - 1
    BY <1>2 DEF FirstMismatchPosition
  <2> HIDE DEF m
  <2> QED
    BY <2>2, <2>3
<1> QED
  BY <1>1, <1>2

\* verify_and_compare with the bookkeeping around it: everything that is left
\* of output_ids is verified, follows the verifier, and has its KV entries
\* (all but the last) written by the verifier from the tokens that are left.
LEMMA AfterVerifyOK ==
  ASSUME NEW r \in Reqs, NEW q, RecordOK(r, q), CacheOK(q), ReasonOK(q),
         Unverified(q) > 0,
         NEW ref \in [1..MaxNewTokens -> Token],
         Reproducible(q) => ref = Ref[r]
  PROVE  /\ RecordOK(r, AfterVerify(q, ref))
         /\ CacheOK(AfterVerify(q, ref))
         /\ Finished(AfterVerify(q, ref)) => ReasonOK(AfterVerify(q, ref))
         /\ AfterVerify(q, ref).verified = Len(AfterVerify(q, ref).output_ids)
         /\ KeepsVerified(AfterVerify(q, ref), q)
         /\ AfterVerify(q, ref).status = q.status
         /\ AfterVerify(q, ref).finished_output = q.finished_output
         /\ AfterVerify(q, ref).retraction_count = q.retraction_count
<1> DEFINE v == q.verified
           L == Len(q.output_ids)
           n == Unverified(q)
           pos == FirstMismatchPosition(q, ref)
           out == IF pos < n
                  THEN Append(SubSeq(q.output_ids, 1, v + pos), ref[v + pos + 1])
                  ELSE q.output_ids
           rolled == L - Len(out)
           rewritten == [i \in 1..Len(q.kv) |->
                           IF i \in v..(v + n - 1)
                           THEN [tok |-> q.output_ids[i], by |-> "verify"]
                           ELSE q.kv[i]]
           kv == SubSeq(rewritten, 1, Len(q.kv) - rolled)
           a == AfterVerify(q, ref)
<1>1. /\ q \in RequestType /\ v \in Nat /\ L \in Nat /\ v <= L /\ n = L - v
      /\ L <= MaxNewTokens /\ MaxNewTokens \in Nat
      /\ q.output_ids \in Seq(Token) /\ q.kv \in Seq(KVEntry)
      /\ q.output_ids # <<>> /\ v >= 1 /\ Len(q.kv) = L - 1 /\ n > 0
      /\ \A i \in 1..L : q.output_ids[i] \in Token
  <2>1. q.output_ids \in Seq(Token)
    BY DEF RecordOK, RequestType
  <2>2. \A i \in 1..L : q.output_ids[i] \in Token
    BY <2>1, ElementOfSeq
  <2> QED
    BY <2>1, <2>2, DVRAssumption DEF RecordOK, CacheOK, RequestType, Unverified
<1>2. /\ pos \in 0..n
      /\ \A j \in 1..pos : q.output_ids[v + j] = ref[v + j]
  <2>1. Unverified(q) \in Nat
    BY <1>1
  <2> QED
    BY <2>1, FirstMismatchOK, Zenon
<1> HIDE DEF pos, n
<1>3. /\ out \in Seq(Token) /\ out # <<>>
      /\ Len(out) = IF pos < n THEN v + pos + 1 ELSE L
      /\ \A i \in 1..(v + pos) : out[i] = q.output_ids[i]
      /\ pos < n => out[v + pos + 1] = ref[v + pos + 1]
  <2>1. CASE pos < n
    <3> DEFINE k == v + pos
               pre == SubSeq(q.output_ids, 1, k)
    <3>1. k \in Nat /\ k + 1 \in 1..MaxNewTokens /\ k \in 0..L
      BY <1>1, <1>2, <2>1, SMTT(30)
    <3>2. /\ pre \in Seq(Token) /\ Len(pre) = k
          /\ \A i \in 1..k : pre[i] = q.output_ids[i]
      <4>1. 1 \in Int /\ k \in Int /\ \A i \in 1..k : q.output_ids[i] \in Token
        BY <1>1, <3>1
      <4> HIDE DEF k
      <4> QED
        BY <3>1, <4>1, SubSeqProperties
    <3>3. ref[k + 1] \in Token
      BY <3>1
    <3>4. out = Append(pre, ref[k + 1])
      BY <2>1
    <3> HIDE DEF pre, k, out
    <3>5. /\ out \in Seq(Token) /\ out # <<>> /\ Len(out) = k + 1
          /\ \A i \in 1..k : out[i] = pre[i]
          /\ out[k + 1] = ref[k + 1]
      BY <3>1, <3>2, <3>3, <3>4, AppendProperties
    <3> QED
      BY <2>1, <3>2, <3>5 DEF k
  <2>2. CASE ~(pos < n)
    BY <1>1, <1>2, <2>2
  <2> QED
    BY <2>1, <2>2
<1>4. Len(out) \in Nat /\ rolled \in Nat /\ Len(q.kv) - rolled = Len(out) - 1
      /\ Len(out) <= L /\ Len(out) > v
  <2> DEFINE lo == Len(out)
             lk == Len(q.kv)
  <2>1. /\ v \in Nat /\ L \in Nat /\ v <= L /\ n = L - v /\ n > 0 /\ lk = L - 1
        /\ pos \in 0..n /\ lo = IF pos < n THEN v + pos + 1 ELSE L
    BY <1>1, <1>2, <1>3
  <2> HIDE DEF lo, lk, v, L
  <2>2. lo \in Nat /\ L - lo \in Nat /\ lk - (L - lo) = lo - 1 /\ lo <= L /\ lo > v
    BY <2>1
  <2> QED
    BY <2>2 DEF lo, lk, L
<1> HIDE DEF out, rolled
<1>5. /\ kv \in Seq(KVEntry) /\ Len(kv) = Len(out) - 1
      /\ \A i \in 1..(Len(out) - 1) :
           kv[i] = IF i >= v THEN [tok |-> q.output_ids[i], by |-> "verify"]
                             ELSE q.kv[i]
  <2> DEFINE m == Len(q.kv) - rolled
  <2>1. m \in Nat /\ m = Len(out) - 1 /\ m <= Len(q.kv)
    BY <1>1, <1>4
  <2>2. \A i \in 1..Len(q.kv) :
          rewritten[i] = IF i >= v THEN [tok |-> q.output_ids[i], by |-> "verify"]
                                   ELSE q.kv[i]
    BY <1>1
  <2>3. \A i \in 1..Len(q.kv) : rewritten[i] \in KVEntry
    <3>1. \A i \in 1..Len(q.kv) : q.kv[i] \in KVEntry /\ q.output_ids[i] \in Token
      BY <1>1, ElementOfSeq
    <3> QED
      BY <2>2, <3>1 DEF KVEntry, Passes
  <2> HIDE DEF rewritten, m
  <2>4. \A i \in 1..m : rewritten[i] \in KVEntry
    BY <1>1, <2>1, <2>3
  <2>5. /\ SubSeq(rewritten, 1, m) \in Seq(KVEntry)
        /\ Len(SubSeq(rewritten, 1, m)) = m
        /\ \A i \in 1..m : SubSeq(rewritten, 1, m)[i] = rewritten[i]
    BY <2>1, <2>4, SubSeqProperties
  <2>6. kv = SubSeq(rewritten, 1, m)
    BY DEF m
  <2> HIDE DEF kv
  <2>7. \A i \in 1..(Len(out) - 1) : i \in 1..m /\ i \in 1..Len(q.kv)
    BY <1>1, <2>1
  <2> QED
    BY <2>1, <2>2, <2>5, <2>6, <2>7
<1> HIDE DEF kv
<1>6. a = [q EXCEPT
             !.output_ids = out,
             !.finished_reason = IF pos < n THEN "none" ELSE q.finished_reason,
             !.verified = IF rolled > 0 THEN Len(out) ELSE v + n,
             !.next_input = IF rolled > 0 THEN out[Len(out)] ELSE q.next_input,
             !.kv = kv]
  BY DEF AfterVerify, AcceptedOutput, ReasonAfterVerify, KVAfterVerify,
         RewrittenKV, kv, rolled, out, pos, n
<1>7. (IF rolled > 0 THEN Len(out) ELSE v + n) = Len(out)
  BY <1>1, <1>3, <1>4, SMTT(30) DEF rolled
<1>8. (IF rolled > 0 THEN out[Len(out)] ELSE q.next_input) \in Token
  BY <1>1, <1>3, <1>4, ElementOfSeq DEF RequestType
<1> HIDE DEF a
<1>9. /\ a \in RequestType
      /\ a.output_ids = out /\ a.verified = Len(out) /\ a.kv = kv
      /\ a.finished_reason = IF pos < n THEN "none" ELSE q.finished_reason
      /\ a.prompt_kv = q.prompt_kv /\ a.finished_len = q.finished_len
      /\ a.sent = q.sent /\ a.send_token_offset = q.send_token_offset
      /\ a.retraction_count = q.retraction_count /\ a.status = q.status
      /\ a.finished_output = q.finished_output
  BY <1>1, <1>3, <1>4, <1>5, <1>6, <1>7, <1>8 DEF RequestType, Reasons
<1>10. KeepsVerified(a, q)
  <2>1. \A i \in 1..v : out[i] = q.output_ids[i]
    BY <1>1, <1>2, <1>3
  <2> QED
    BY <1>1, <1>4, <1>9, <2>1, StageReflexive DEF KeepsVerified
<1>11. \A i \in 1..(Len(out) - 1) : out[i] = q.output_ids[i]
  BY <1>1, <1>2, <1>3
<1>12. Reproducible(q) => \A i \in 1..Len(out) : out[i] = Ref[r][i]
  <2> SUFFICES ASSUME Reproducible(q), NEW i \in 1..Len(out)
               PROVE  out[i] = ref[i]
    OBVIOUS
  <2>1. CASE i <= v
    <3>1. i \in 1..(v + pos) /\ i \in 1..v
      BY <1>1, <1>2, <1>4, <2>1
    <3>2. ref = Ref[r] /\ q.output_ids[i] = Ref[r][i]
      BY <3>1 DEF RecordOK
    <3> QED
      BY <1>3, <3>1, <3>2
  <2>2. CASE i > v /\ i <= v + pos
    <3>1. i - v \in 1..pos /\ v + (i - v) = i
      BY <1>1, <1>2, <1>4, <2>2
    <3>2. i \in 1..(v + pos)
      BY <1>1, <1>2, <2>2
    <3> QED
      BY <1>2, <1>3, <3>1, <3>2
  <2>3. CASE i > v + pos
    <3> DEFINE lo == Len(out)
    <3>1. /\ v \in Nat /\ n = L - v /\ L \in Nat /\ pos \in 0..n /\ lo \in Nat
          /\ lo = (IF pos < n THEN v + pos + 1 ELSE L) /\ i \in 1..lo
          /\ i > v + pos
      BY <1>1, <1>2, <1>3, <1>4, <2>3
    <3> HIDE DEF lo, v, L
    <3>2. pos < n /\ i = v + pos + 1
      BY <3>1
    <3> QED
      BY <1>3, <3>2
  <2> QED
    BY <1>1, <1>2, <1>4, <2>1, <2>2, <2>3
<1>13. RecordOK(r, a)
  <2>1. \A i \in 1..(Len(out) - 1) : out[i] \notin Stops
    BY <1>1, <1>4, <1>11, SMTT(30) DEF RecordOK
  <2>2. /\ q.send_token_offset \in Nat /\ q.send_token_offset <= v
        /\ Len(q.sent) = q.send_token_offset
        /\ \A i \in 1..q.send_token_offset : q.sent[i] = q.output_ids[i]
        /\ q.finished_len # 0 => q.send_token_offset <= q.finished_len
    BY DEF RecordOK, RequestType
  <2>3. \A i \in 1..q.send_token_offset : q.sent[i] = out[i]
    BY <1>1, <1>2, <1>3, <2>2
  <2>4. Reproducible(a) => Reproducible(q)
    BY <1>9 DEF Reproducible
  <2>5. /\ Len(out) <= MaxNewTokens /\ Len(out) >= 1
        /\ q.send_token_offset <= Len(out)
    BY <1>1, <1>4, <2>2
  <2> QED
    BY <1>9, <1>12, <1>4, <2>1, <2>2, <2>3, <2>4, <2>5 DEF RecordOK
<1>14. CacheOK(a)
  <2>1. Reproducible(a) => ContextTrusted(a)
    <3> SUFFICES ASSUME Reproducible(q)
                 PROVE  ContextTrusted(a)
      BY <1>9 DEF Reproducible
    <3>1. ContextTrusted(q)
      BY DEF CacheOK
    <3>2. ASSUME NEW i \in 1..(Len(out) - 1)
          PROVE  kv[i].tok = out[i] /\ kv[i].by \in TrustedPasses
      <4>1. CASE i >= v
        <5>1. kv[i] = [tok |-> q.output_ids[i], by |-> "verify"]
          BY <1>5, <4>1
        <5>2. kv[i].tok = q.output_ids[i] /\ kv[i].by = "verify"
          BY <5>1
        <5> QED
          BY <1>11, <5>2 DEF TrustedPasses
      <4>2. CASE ~(i >= v)
        <5>1. i \in 1..(v - 1)
          BY <1>1, <1>4, <4>2
        <5> QED
          BY <1>5, <1>11, <3>1, <4>2, <5>1 DEF ContextTrusted
      <4> QED
        BY <4>1, <4>2
    <3> QED
      BY <1>9, <3>1, <3>2 DEF ContextTrusted
  <2> QED
    BY <1>3, <1>5, <1>9, <2>1 DEF CacheOK
<1>15. Finished(a) => ReasonOK(a)
  <2>1. CASE pos < n
    BY <1>9, <2>1 DEF Finished
  <2>2. CASE ~(pos < n)
    <3>1. out = q.output_ids
      BY <2>2 DEF out
    <3> QED
      BY <1>9, <2>2, <3>1 DEF ReasonOK, LastToken
  <2> QED
    BY <2>1, <2>2
<1> QED
  BY <1>9, <1>10, <1>13, <1>14, <1>15 DEF a
\* Appending a token to the outputs of a request that has none of the finish
\* conditions keeps its record sound.
LEMMA AppendOK ==
  ASSUME NEW r \in Reqs, NEW q, RecordOK(r, q), NEW t \in Token,
         NEW p \in RequestType,
         Len(q.output_ids) < MaxNewTokens,
         \A i \in 1..Len(q.output_ids) : q.output_ids[i] \notin Stops,
         p.output_ids = Append(q.output_ids, t),
         p.verified = q.verified
           \/ /\ q.output_ids = <<>> /\ p.verified = 1
              /\ t = Ref[r][1],
         q.output_ids = <<>> => p.verified = 1,
         p.send_token_offset = q.send_token_offset, p.sent = q.sent,
         p.finished_len = q.finished_len,
         p.retraction_count = q.retraction_count
  PROVE  /\ RecordOK(r, p)
         /\ Len(p.output_ids) = Len(q.output_ids) + 1
         /\ \A i \in 1..Len(q.output_ids) : p.output_ids[i] = q.output_ids[i]
         /\ p.output_ids # <<>>
         /\ KeepsVerified(p, q)
<1> DEFINE L == Len(q.output_ids)
           out == p.output_ids
<1>1. /\ q.output_ids \in Seq(Token) /\ L \in Nat /\ q.verified \in Nat
      /\ q.verified <= L /\ p.verified \in Nat
      /\ q.send_token_offset \in Nat /\ q.send_token_offset <= q.verified
      /\ MaxNewTokens \in Nat
  BY DVRAssumption DEF RecordOK, RequestType
<1>2. /\ out \in Seq(Token) /\ Len(out) = L + 1 /\ out # <<>>
      /\ \A i \in 1..L : out[i] = q.output_ids[i]
      /\ out[L + 1] = t
  BY <1>1, AppendProperties
<1>3. q.output_ids = <<>> => L = 0 /\ q.verified = 0
  BY <1>1
<1> HIDE DEF out, L
<1>4. p.verified >= q.verified /\ p.verified <= L + 1 /\ p.verified >= 1
      /\ L + 1 <= MaxNewTokens
  <2>1. q.output_ids # <<>> => q.verified >= 1
    BY DEF RecordOK
  <2>2. L < MaxNewTokens
    BY DEF L
  <2> QED
    BY <1>1, <1>3, <2>1, <2>2
<1>5. \A i \in 1..((L + 1) - 1) : out[i] \notin Stops
  BY <1>1, <1>2 DEF L
<1>6. /\ q.finished_len # 0 => q.send_token_offset <= q.finished_len
      /\ Len(q.sent) = q.send_token_offset
      /\ \A i \in 1..q.send_token_offset : q.sent[i] = out[i]
  <2>1. /\ q.finished_len # 0 => q.send_token_offset <= q.finished_len
        /\ Len(q.sent) = q.send_token_offset
        /\ \A i \in 1..q.send_token_offset : q.sent[i] = q.output_ids[i]
    BY DEF RecordOK
  <2>2. \A i \in 1..q.send_token_offset : i \in 1..L
    BY <1>1
  <2> QED
    BY <1>2, <2>1, <2>2
<1>7. Reproducible(p) => \A i \in 1..p.verified : out[i] = Ref[r][i]
  <2> SUFFICES ASSUME Reproducible(q), NEW i \in 1..p.verified
               PROVE  out[i] = Ref[r][i]
    BY DEF Reproducible
  <2>1. CASE p.verified = q.verified
    <3>1. i \in 1..q.verified /\ i \in 1..L
      BY <1>1, <2>1
    <3> QED
      BY <1>2, <3>1 DEF RecordOK
  <2>2. CASE q.output_ids = <<>> /\ p.verified = 1 /\ t = Ref[r][1]
    <3>1. i = 1 /\ L + 1 = 1
      BY <1>3, <2>2
    <3> QED
      BY <1>2, <2>2, <3>1
  <2> QED
    BY <2>1, <2>2
<1>8. \A i \in 1..q.verified : out[i] = q.output_ids[i]
  BY <1>1, <1>2
<1>9. /\ RecordOK(r, p) /\ KeepsVerified(p, q)
  BY <1>1, <1>2, <1>4, <1>5, <1>6, <1>7, <1>8 DEF RecordOK, KeepsVerified, out
<1> QED
  BY <1>2, <1>9 DEF out, L
\* An unfinished request can take one more token, and was not output yet.
LEMMA UnfinishedOK ==
  ASSUME NEW r \in Reqs, NEW q, RequestOK(r, q), q.status # "released"
  PROVE  /\ RecordOK(r, q) /\ q \in RequestType
         /\ ~Finished(q) /\ ~q.finished_output
         /\ Len(q.output_ids) < MaxNewTokens
         /\ \A i \in 1..Len(q.output_ids) : q.output_ids[i] \notin Stops
BY DEF RequestOK, RecordOK, ReasonOK, Finished

\* The decode pass: one more KV entry, one more output token, and the finish
\* condition that token deserves.
LEMMA AfterDecodeOK ==
  ASSUME NEW r \in Reqs, NEW q, RequestOK(r, q), q.status = "running",
         NEW t \in Token
  PROVE  LET c == AfterDecode(q, t)
         IN  /\ RecordOK(r, c) /\ CacheOK(c) /\ ReasonOK(c)
             /\ c.status = "running" /\ ~c.finished_output
             /\ Unverified(c) = Unverified(q) + 1
             /\ Unverified(c) > 0
             /\ c.retraction_count = q.retraction_count
             /\ c.to_finish = FALSE
             /\ KeepsVerified(c, q)
<1> DEFINE e == [tok |-> q.next_input, by |-> "decode"]
           d == [q EXCEPT !.kv = Append(@, e), !.output_ids = Append(@, t),
                          !.next_input = t]
           c == AfterDecode(q, t)
<1>1. /\ RecordOK(r, q) /\ q \in RequestType /\ ~Finished(q)
      /\ ~q.finished_output /\ Len(q.output_ids) < MaxNewTokens
      /\ \A i \in 1..Len(q.output_ids) : q.output_ids[i] \notin Stops
  BY UnfinishedOK
<1>2. CacheOK(q)
  BY DEF RequestOK
<1>3. /\ q.output_ids \in Seq(Token) /\ q.kv \in Seq(KVEntry) /\ e \in KVEntry
      /\ q.verified \in Nat /\ Len(q.output_ids) \in Nat /\ Len(q.kv) \in Nat
      /\ q.verified <= Len(q.output_ids)
      /\ Len(q.kv) = Len(q.output_ids) - 1
  BY <1>1, <1>2 DEF RecordOK, RequestType, CacheOK, KVEntry, Passes
<1>4. /\ Append(q.kv, e) \in Seq(KVEntry) /\ Len(Append(q.kv, e)) = Len(q.kv) + 1
      /\ \A i \in 1..Len(q.kv) : Append(q.kv, e)[i] = q.kv[i]
      /\ Append(q.output_ids, t) \in Seq(Token)
  <2> HIDE DEF e
  <2> QED
    BY <1>3, AppendProperties
<1>5. /\ d \in RequestType
      /\ d.kv = Append(q.kv, e) /\ d.output_ids = Append(q.output_ids, t)
      /\ d.verified = q.verified /\ d.finished_reason = q.finished_reason
      /\ d.finished_len = q.finished_len /\ d.sent = q.sent
      /\ d.send_token_offset = q.send_token_offset
      /\ d.retraction_count = q.retraction_count /\ d.status = q.status
      /\ d.finished_output = q.finished_output /\ d.prompt_kv = q.prompt_kv
  <2> HIDE DEF e
  <2> QED
    BY <1>1, <1>4 DEF RequestType
<1> HIDE DEF d, e
<1>6. q.output_ids # <<>>
  BY <1>2 DEF CacheOK
<1>7. /\ RecordOK(r, d) /\ Len(d.output_ids) = Len(q.output_ids) + 1
      /\ \A i \in 1..Len(q.output_ids) : d.output_ids[i] = q.output_ids[i]
      /\ d.output_ids # <<>> /\ KeepsVerified(d, q)
  BY <1>1, <1>5, <1>6, AppendOK
<1>8. CacheOK(d)
  <2>1. ASSUME Reproducible(q)
        PROVE  ContextTrusted(d)
    <3>1. ContextTrusted(q)
      BY <1>2, <2>1 DEF CacheOK
    <3>2. \A i \in 1..(q.verified - 1) :
            i \in 1..Len(q.kv) /\ i \in 1..Len(q.output_ids)
      BY <1>3
    <3> QED
      BY <1>4, <1>5, <1>7, <3>1, <3>2, SMTT(30) DEF ContextTrusted
  <2>2. Len(d.kv) = Len(d.output_ids) - 1
    BY <1>3, <1>4, <1>5, <1>7
  <2> QED
    BY <1>5, <1>7, <2>1, <2>2 DEF CacheOK, Reproducible
<1>9. ~Finished(d)
  BY <1>1, <1>5 DEF Finished
<1>10. c = CheckFinished(d)
  BY DEF AfterDecode, d, e
<1>11. /\ RecordOK(r, c) /\ CacheOK(c) /\ ReasonOK(c) /\ SameOutput(c, d)
       /\ c.status = d.status /\ c.finished_output = d.finished_output
  BY <1>7, <1>8, <1>9, <1>10, CheckFinishedOK, Zenon
<1>13. c.to_finish = FALSE
  BY <1>5, <1>9, <1>10 DEF CheckFinished, RequestType
<1> HIDE DEF c
<1>12. Unverified(c) = Unverified(q) + 1 /\ Unverified(c) > 0
  <2>1. /\ c.output_ids = d.output_ids /\ c.verified = q.verified
    BY <1>5, <1>11 DEF SameOutput
  <2> QED
    BY <1>3, <1>7, <2>1 DEF Unverified
<1> QED
  BY <1>1, <1>5, <1>7, <1>11, <1>12, <1>13 DEF SameOutput, KeepsVerified, c
\* The isolated prefill of a waiting request, fresh or resumed.
LEMMA AfterPrefillOK ==
  ASSUME NEW r \in Reqs, NEW q, RequestOK(r, q), q.status = "waiting",
         NEW t \in Token, q.output_ids = <<>> => t = Ref[r][1]
  PROVE  /\ RequestOK(r, AfterPrefill(r, q, t))
         /\ KeepsVerified(AfterPrefill(r, q, t), q)
<1> DEFINE first == q.output_ids = <<>>
           kv == [i \in 1..Len(q.output_ids) |->
                    [tok |-> q.output_ids[i], by |-> "reprefill"]]
           p == [q EXCEPT
                   !.status = "running",
                   !.output_ids = Append(@, t),
                   !.verified = IF first THEN 1 ELSE @,
                   !.next_input = t,
                   !.prompt_kv = IF first THEN "prefill" ELSE "reprefill",
                   !.kv = kv]
           c == CheckFinished(p)
<1>1. /\ RecordOK(r, q) /\ q \in RequestType /\ ~Finished(q)
      /\ ~q.finished_output /\ Len(q.output_ids) < MaxNewTokens
      /\ \A i \in 1..Len(q.output_ids) : q.output_ids[i] \notin Stops
  BY UnfinishedOK
<1>2. /\ q.output_ids \in Seq(Token) /\ Len(q.output_ids) \in Nat
      /\ q.verified \in Nat /\ q.verified <= Len(q.output_ids)
      /\ q.retraction_count \in Nat /\ WindowSize \in Nat \ {0}
      /\ Append(q.output_ids, t) \in Seq(Token)
  <2>1. q.output_ids \in Seq(Token)
    BY <1>1 DEF RequestType
  <2> QED
    BY <1>1, <2>1, AppendProperties, DVRAssumption DEF RecordOK, RequestType
<1>3. /\ kv \in Seq(KVEntry) /\ Len(kv) = Len(q.output_ids)
      /\ \A i \in 1..Len(q.output_ids) :
           kv[i].tok = q.output_ids[i] /\ kv[i].by = "reprefill"
  <2> DEFINE n == Len(q.output_ids)
  <2>1. \A i \in 1..n : kv[i] = [tok |-> q.output_ids[i], by |-> "reprefill"]
    OBVIOUS
  <2>2. \A i \in 1..n : kv[i] \in KVEntry
    <3>1. \A i \in 1..n : q.output_ids[i] \in Token
      BY <1>2, ElementOfSeq
    <3> QED
      BY <2>1, <3>1 DEF KVEntry, Passes
  <2>3. n \in Nat /\ DOMAIN kv = 1..n
    BY <1>2
  <2>4. kv \in Seq(KVEntry) /\ Len(kv) = n
    <3>1. kv = [i \in 1..n |-> kv[i]]
      OBVIOUS
    <3> HIDE DEF kv, n
    <3>2. kv \in [1..n -> KVEntry]
      BY <2>2, <2>3, <3>1
    <3> QED
      BY <2>3, <3>2, SeqDef, LenProperties
  <2>5. \A i \in 1..n : kv[i].tok = q.output_ids[i] /\ kv[i].by = "reprefill"
    BY <2>1
  <2> QED
    BY <2>4, <2>5
<1> HIDE DEF kv
<1>4. /\ p \in RequestType
      /\ p.kv = kv /\ p.output_ids = Append(q.output_ids, t)
      /\ p.verified = (IF first THEN 1 ELSE q.verified)
      /\ p.prompt_kv = (IF first THEN "prefill" ELSE "reprefill")
      /\ p.finished_reason = q.finished_reason
      /\ p.finished_len = q.finished_len /\ p.sent = q.sent
      /\ p.send_token_offset = q.send_token_offset
      /\ p.retraction_count = q.retraction_count /\ p.status = "running"
      /\ p.finished_output = q.finished_output
  BY <1>1, <1>2, <1>3 DEF RequestType, Status, Passes
<1> HIDE DEF p
<1>5. /\ RecordOK(r, p) /\ Len(p.output_ids) = Len(q.output_ids) + 1
      /\ \A i \in 1..Len(q.output_ids) : p.output_ids[i] = q.output_ids[i]
      /\ p.output_ids # <<>> /\ KeepsVerified(p, q)
  <2>1. /\ \/ p.verified = q.verified
           \/ q.output_ids = <<>> /\ p.verified = 1 /\ t = Ref[r][1]
        /\ q.output_ids = <<>> => p.verified = 1
    BY <1>4
  <2> QED
    BY <1>1, <1>4, <2>1, AppendOK
<1>6. ~first => /\ q.retraction_count > 0
                /\ Unverified(q) + 1 < WindowSize + q.retraction_count
  BY DEF RequestOK
<1>7. CacheOK(p)
  <2>1. ASSUME Reproducible(p)
        PROVE  ContextTrusted(p)
    <3>1. CASE first
      <4>1. p.verified - 1 = 0 /\ p.prompt_kv \in TrustedPasses
        BY <1>4, <3>1 DEF TrustedPasses
      <4> QED
        BY <4>1 DEF ContextTrusted
    <3>2. CASE ~first
      <4>1. "reprefill" \in TrustedPasses
        BY <1>2, <1>4, <1>6, <2>1, <3>2 DEF Reproducible, TrustedPasses
      <4>2. \A i \in 1..(p.verified - 1) : i \in 1..Len(q.output_ids)
        BY <1>2, <1>4, <3>2
      <4> QED
        BY <1>3, <1>4, <1>5, <3>2, <4>1, <4>2 DEF ContextTrusted
    <3> QED
      BY <3>1, <3>2
  <2>2. Len(p.kv) = Len(p.output_ids) - 1
    BY <1>2, <1>3, <1>4, <1>5
  <2> QED
    BY <1>5, <2>1, <2>2 DEF CacheOK
<1>8. /\ RecordOK(r, c) /\ CacheOK(c) /\ ReasonOK(c) /\ SameOutput(c, p)
      /\ c.status = p.status /\ c.finished_output = p.finished_output
  <2>1. ~Finished(p)
    BY <1>1, <1>4 DEF Finished
  <2> QED
    BY <1>5, <1>7, <2>1, CheckFinishedOK, Zenon
<1> HIDE DEF c
<1>9. /\ c.output_ids = p.output_ids /\ c.verified = p.verified
      /\ c.retraction_count = q.retraction_count
  BY <1>4, <1>8 DEF SameOutput
<1>10. /\ Unverified(c) < WindowSize + c.retraction_count
       /\ c.retraction_count = 0 => c.verified = Len(c.output_ids)
  <2>1. CASE first
    <3>1. Len(q.output_ids) = 0
      BY <2>1
    <3>2. p.verified = 1 /\ Len(p.output_ids) = 1
      BY <1>4, <1>5, <2>1, <3>1
    <3> QED
      BY <1>2, <1>9, <3>2 DEF Unverified
  <2>2. CASE ~first
    <3>1. p.verified = q.verified /\ q.retraction_count # 0
      BY <1>2, <1>4, <1>6, <2>2
    <3> QED
      BY <1>2, <1>5, <1>6, <1>9, <2>2, <3>1 DEF Unverified
  <2> QED
    BY <2>1, <2>2
<1>11. /\ RequestOK(r, StreamOutput(r, Release(c)))
       /\ SameOutput(StreamOutput(r, Release(c)), c)
  BY <1>1, <1>4, <1>8, <1>10, SettleOK
<1>12. AfterPrefill(r, q, t) = StreamOutput(r, Release(c))
  BY DEF AfterPrefill, c, p, kv
<1>13. KeepsVerified(StreamOutput(r, Release(c)), q)
  <2>1. RecordOK(r, StreamOutput(r, Release(c)))
    BY <1>11 DEF RequestOK
  <2>2. KeepsVerified(c, q)
    BY <1>1, <1>5, <1>8, StageTransitive
  <2> QED
    BY <1>1, <1>8, <1>11, <2>1, <2>2, StageTransitive
<1> QED
  BY <1>11, <1>12, <1>13
=============================================================================

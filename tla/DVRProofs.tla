----------------------------- MODULE DVRProofs -----------------------------
(***************************************************************************)
(* Proofs about DVR, for every set of requests, vocabulary, window, group  *)
(* size, mode and bound on retractions: its invariants, and that it        *)
(* implements one deterministic stream per request (DVRStream).            *)
(***************************************************************************)
EXTENDS DVRStages, DVRStream

-----------------------------------------------------------------------------
(* The whole iteration of one request                                      *)

\* A request the verifier checked: the finish conditions are looked at again,
\* and whatever is sent is verified.
LEMMA VerifiedRequestOK ==
  ASSUME NEW r \in Reqs, NEW q, RecordOK(r, q), CacheOK(q), ReasonOK(q),
         q.status = "running", ~q.finished_output, Unverified(q) > 0,
         NEW ref \in [1..MaxNewTokens -> Token],
         Reproducible(q) => ref = Ref[r]
  PROVE  LET s == StreamOutput(r, Release(CheckFinished(AfterVerify(q, ref))))
         IN  RequestOK(r, s) /\ KeepsVerified(s, q)
<1> DEFINE a == AfterVerify(q, ref)
           c == CheckFinished(a)
           s == StreamOutput(r, Release(c))
<1>1. /\ RecordOK(r, a) /\ CacheOK(a)
      /\ Finished(a) => ReasonOK(a)
      /\ a.verified = Len(a.output_ids) /\ KeepsVerified(a, q)
      /\ a.status = q.status /\ a.finished_output = q.finished_output
  BY AfterVerifyOK
<1> HIDE DEF a
<1>2. /\ RecordOK(r, c) /\ CacheOK(c) /\ ReasonOK(c) /\ SameOutput(c, a)
      /\ c.status = a.status /\ c.finished_output = a.finished_output
  BY <1>1, CheckFinishedOK
<1> HIDE DEF c
<1>3. c.verified = Len(c.output_ids) /\ KeepsVerified(c, q)
  BY <1>1, <1>2, StageTransitive DEF SameOutput
<1>4. Unverified(c) < WindowSize + c.retraction_count
  <2>1. /\ c.verified \in Nat /\ c.retraction_count \in Nat
        /\ WindowSize \in Nat /\ WindowSize > 0
    BY <1>2, DVRAssumption DEF RecordOK, RequestType
  <2>2. Unverified(c) = 0
    BY <1>3, <2>1 DEF Unverified
  <2> QED
    BY ONLY <2>1, <2>2
<1>5. RequestOK(r, s) /\ SameOutput(s, c)
  BY <1>1, <1>2, <1>3, <1>4, SettleOK
<1> HIDE DEF s
<1>6. KeepsVerified(s, q)
  BY <1>2, <1>3, <1>5, StageTransitive DEF RequestOK
<1> QED
  BY <1>5, <1>6 DEF s, c, a

\* A request no group took: its window is not full, and checking its finish
\* conditions again changes nothing.
LEMMA UncheckedRequestOK ==
  ASSUME NEW r \in Reqs, NEW q, RecordOK(r, q), CacheOK(q), ReasonOK(q),
         q.status = "running", ~q.finished_output, q.to_finish = FALSE,
         ~Ready(q)
  PROVE  LET s == StreamOutput(r, Release(CheckFinished(q)))
         IN  RequestOK(r, s) /\ KeepsVerified(s, q)
<1> DEFINE c == CheckFinished(q)
           s == StreamOutput(r, Release(c))
<1>1. /\ q \in RequestType /\ Len(q.output_ids) \in Nat /\ q.verified \in Nat
      /\ q.output_ids # <<>> /\ q.retraction_count \in Nat
      /\ WindowSize \in Nat
  BY DVRAssumption DEF RecordOK, RequestType, CacheOK
<1>2. ~Finished(q) /\ Unverified(q) < WindowSize + q.retraction_count
  BY <1>1 DEF Ready, Unverified
<1>3. FinishReason(q) = "none"
  <2>1. /\ Len(q.output_ids) < MaxNewTokens
        /\ \A i \in 1..Len(q.output_ids) : q.output_ids[i] \notin Stops
    BY <1>2 DEF ReasonOK, Finished
  <2>2. Len(q.output_ids) \in 1..Len(q.output_ids)
    BY <1>1
  <2>3. LastToken(q) \notin Stops
    BY <2>1, <2>2 DEF LastToken
  <2>4. ~(Len(q.output_ids) >= MaxNewTokens)
    BY <1>1, <2>1, DVRAssumption
  <2> QED
    BY <2>3, <2>4 DEF FinishReason, Stops
<1>4. ~Finished(c)
  BY <1>1, <1>2, <1>3 DEF CheckFinished, Finished, RequestType
<1>5. /\ RecordOK(r, c) /\ CacheOK(c) /\ ReasonOK(c) /\ SameOutput(c, q)
      /\ c.status = q.status /\ c.finished_output = q.finished_output
  BY CheckFinishedOK
<1> HIDE DEF c
<1>6. Unverified(c) < WindowSize + c.retraction_count
  BY <1>2, <1>5 DEF SameOutput, Unverified
<1>7. RequestOK(r, s) /\ SameOutput(s, c)
  BY <1>4, <1>5, <1>6, SettleOK
<1> HIDE DEF s
<1>8. KeepsVerified(s, q)
  <2>1. KeepsVerified(c, q)
    BY <1>5, StageReflexive, StageTransitive
  <2> QED
    BY <1>5, <1>7, <2>1, StageTransitive DEF RequestOK
<1> QED
  BY <1>7, <1>8 DEF s, c

\* Retraction keeps the outputs and counts itself.
LEMMA ResetForRetractOK ==
  ASSUME NEW r \in Reqs, NEW q, RequestOK(r, q), q.status = "running"
  PROVE  /\ RequestOK(r, ResetForRetract(q))
         /\ KeepsVerified(ResetForRetract(q), q)
<1> DEFINE p == ResetForRetract(q)
<1>1. /\ RecordOK(r, q) /\ q \in RequestType /\ ~Finished(q)
      /\ ~q.finished_output
  BY UnfinishedOK
<1>2. <<>> \in Seq(KVEntry)
  BY EmptySeq
<1>3. /\ p \in RequestType /\ p.status = "waiting"
      /\ p.output_ids = q.output_ids /\ p.verified = q.verified
      /\ p.finished_reason = q.finished_reason
      /\ p.finished_len = q.finished_len /\ p.sent = q.sent
      /\ p.send_token_offset = q.send_token_offset
      /\ p.finished_output = q.finished_output
      /\ p.retraction_count = q.retraction_count + 1
      /\ q.retraction_count \in Nat /\ q.verified \in Nat
      /\ Len(q.output_ids) \in Nat
  <2>1. /\ q.retraction_count \in Nat /\ q.retraction_count + 1 \in Nat
        /\ q.verified \in Nat /\ q.output_ids \in Seq(Token)
    BY <1>1 DEF RequestType
  <2> DEFINE k == q.retraction_count + 1
  <2>2. p = [q EXCEPT !.status = "waiting", !.kv = <<>>, !.retraction_count = k]
    BY DEF ResetForRetract
  <2>3. k \in Nat
    BY <2>1
  <2> HIDE DEF p, k
  <2>4. /\ p \in RequestType /\ p.status = "waiting"
        /\ p.output_ids = q.output_ids /\ p.verified = q.verified
        /\ p.finished_reason = q.finished_reason
        /\ p.finished_len = q.finished_len /\ p.sent = q.sent
        /\ p.send_token_offset = q.send_token_offset
        /\ p.finished_output = q.finished_output
        /\ p.retraction_count = k
    BY <1>1, <1>2, <2>2, <2>3 DEF RequestType, Status
  <2> QED
    BY <2>1, <2>4 DEF k
<1> HIDE DEF p
<1>4. RecordOK(r, p) /\ ReasonOK(p)
  <2>1. Reproducible(p) => Reproducible(q)
    BY <1>3 DEF Reproducible
  <2>2. ReasonOK(q)
    BY DEF RequestOK
  <2> QED
    BY <1>1, <1>3, <2>1, <2>2 DEF RecordOK, ReasonOK, LastToken
<1>5. /\ p.retraction_count > 0
      /\ Unverified(p) + 1 < WindowSize + p.retraction_count
  <2>1. Unverified(q) < WindowSize + q.retraction_count
    BY DEF RequestOK
  <2> QED
    BY <1>3, <2>1, DVRAssumption DEF Unverified
<1>6. RequestOK(r, p)
  BY <1>1, <1>3, <1>4, <1>5 DEF RequestOK, Finished
<1>7. KeepsVerified(p, q)
  BY <1>1, <1>3, StageReflexive DEF KeepsVerified
<1> QED
  BY <1>6, <1>7 DEF p
\* A round of fixed-size groups takes every ready request, and only fills up.
LEMMA FixedGroupSetsOK ==
  ASSUME NEW all, NEW ready, NEW n, NEW c \in FixedGroupSets(all, ready, n)
  PROVE  /\ \A r \in ready : r \in c
         /\ \A r \in c : r \in ready \/ r \in all
<1> DEFINE fill == Min2((n - (Cardinality(ready) % n)) % n,
                        Cardinality(all \ ready))
           G == {g \in SUBSET (all \ ready) : Cardinality(g) = fill}
<1>1. FixedGroupSets(all, ready, n) = {ready \cup f : f \in G}
  BY DEF FixedGroupSets
<1>2. G \subseteq SUBSET (all \ ready)
  OBVIOUS
<1> HIDE DEF G
<1> QED
  BY <1>1, <1>2

\* Every group the worker forms takes all ready requests, and none that has
\* nothing to verify.
LEMMA VerifySetsOK ==
  ASSUME NEW batch, NEW chosen \in VerifySets(batch)
  PROVE  /\ \A r \in chosen : r \in DOMAIN batch /\ Unverified(batch[r]) > 0
         /\ \A r \in DOMAIN batch :
              r \notin chosen /\ Unverified(batch[r]) > 0 => ~Ready(batch[r])
<1> DEFINE all == {r \in DOMAIN batch : Unverified(batch[r]) > 0}
           ready == {r \in all : Ready(batch[r])}
<1>1. /\ \A r \in ready : r \in chosen
      /\ \A r \in chosen : r \in ready \/ r \in all
  <2>1. CASE FixedPool
    <3>1. chosen \in FixedGroupSets(all, ready, VerifyBatchSize)
      BY <2>1 DEF VerifySets
    <3> HIDE DEF all, ready
    <3> QED
      BY <3>1, FixedGroupSetsOK
  <2>2. CASE ~FixedPool
    <3>1. chosen = ready
      BY <2>2 DEF VerifySets
    <3> QED
      BY <3>1
  <2> QED
    BY <2>1, <2>2
<1> QED
  BY <1>1

\* One running request over a whole decode iteration.
LEMMA DecodedRequestOK ==
  ASSUME NEW r \in Reqs, NEW q, RequestOK(r, q), q.status = "running",
         NEW t \in Token, NEW b, b = AfterDecode(q, t),
         NEW c, \/ c = b /\ ~Ready(b)
                \/ c = AfterVerify(b, Ref[r])
                \/ c = AfterVerify(b, AltRef[r]) /\ ~VerifierReproducible(b)
  PROVE  LET s == StreamOutput(r, Release(CheckFinished(c)))
         IN  RequestOK(r, s) /\ KeepsVerified(s, q)
<1> DEFINE s == StreamOutput(r, Release(CheckFinished(c)))
<1>1. /\ RecordOK(r, b) /\ CacheOK(b) /\ ReasonOK(b)
      /\ b.status = "running" /\ ~b.finished_output
      /\ Unverified(b) > 0 /\ b.to_finish = FALSE
      /\ KeepsVerified(b, q)
  BY AfterDecodeOK
<1>2. RequestOK(r, s) /\ KeepsVerified(s, b)
  <2>1. CASE c = b /\ ~Ready(b)
    BY <1>1, <2>1, UncheckedRequestOK
  <2>2. Ref[r] \in [1..MaxNewTokens -> Token]
        /\ AltRef[r] \in [1..MaxNewTokens -> Token]
    BY DVRAssumption
  <2>3. CASE c = AfterVerify(b, Ref[r])
    BY <1>1, <2>2, <2>3, VerifiedRequestOK
  <2>4. CASE c = AfterVerify(b, AltRef[r]) /\ ~VerifierReproducible(b)
    <3>1. ~Reproducible(b)
      BY <1>1, <2>4 DEF Reproducible, VerifierReproducible, CacheOK
    <3> QED
      BY <1>1, <2>2, <2>4, <3>1, VerifiedRequestOK
  <2> QED
    BY <2>1, <2>3, <2>4
<1> HIDE DEF s
<1>3. KeepsVerified(s, q)
  BY <1>1, <1>2, StageTransitive DEF RequestOK
<1> QED
  BY <1>2, <1>3 DEF s

\* An abort drops a waiting request and marks a running one.
LEMMA AbortOK ==
  ASSUME NEW r \in Reqs, NEW q, RequestOK(r, q), NEW p,
         \/ q.status = "waiting" /\ p = [q EXCEPT !.status = "aborted"]
         \/ q.status = "running" /\ p = [q EXCEPT !.to_finish = TRUE]
  PROVE  RequestOK(r, p) /\ KeepsVerified(p, q)
<1>1. q \in RequestType /\ q.verified \in Nat
  BY DEF RequestOK, RecordOK, RequestType
<1>2. /\ p \in RequestType
      /\ p.output_ids = q.output_ids /\ p.verified = q.verified
      /\ p.finished_reason = q.finished_reason
      /\ p.finished_len = q.finished_len /\ p.sent = q.sent
      /\ p.send_token_offset = q.send_token_offset
      /\ p.finished_output = q.finished_output
      /\ p.kv = q.kv /\ p.prompt_kv = q.prompt_kv
      /\ p.retraction_count = q.retraction_count
      /\ \/ q.status = "waiting" /\ p.status = "aborted"
         \/ q.status = "running" /\ p.status = "running"
  BY <1>1 DEF RequestType, Status
<1>3. RecordOK(r, p) /\ ReasonOK(p)
  <2>1. RecordOK(r, q) /\ ReasonOK(q)
    BY DEF RequestOK
  <2> QED
    BY <1>2, <2>1 DEF RecordOK, ReasonOK, LastToken, Reproducible
<1>4. p.status = "running" =>
        CacheOK(p) /\ Unverified(p) < WindowSize + p.retraction_count
  BY <1>2 DEF RequestOK, CacheOK, Reproducible, ContextTrusted, Unverified
<1>5. KeepsVerified(p, q)
  <2>1. RecordOK(r, q)
    BY DEF RequestOK
  <2> QED
    BY <1>2, <2>1, StageReflexive DEF KeepsVerified
<1>6. RequestOK(r, p)
  BY <1>1, <1>2, <1>3, <1>4 DEF RequestOK, Finished
<1> QED
  BY <1>5, <1>6

-----------------------------------------------------------------------------
(* The induction                                                            *)

LEMMA InitOK == Init => IndInv
<1> SUFFICES ASSUME Init PROVE IndInv
  OBVIOUS
<1>1. ASSUME NEW r \in Reqs
      PROVE  NewRequest(r) \in RequestType /\ RequestOK(r, NewRequest(r))
  <2> DEFINE q == NewRequest(r)
  <2>1. Ref[r][1] \in Token
    BY DVRAssumption
  <2>2. <<>> \in Seq(Token) /\ <<>> \in Seq(KVEntry)
    BY EmptySeq
  <2>3. /\ q.status = "waiting" /\ q.output_ids = <<>> /\ q.verified = 0
        /\ q.finished_reason = "none" /\ q.finished_len = 0
        /\ q.finished_output = FALSE /\ q.send_token_offset = 0
        /\ q.sent = <<>> /\ q.retraction_count = 0
    BY DEF NewRequest
  <2>4. q \in RequestType
    BY <2>1, <2>2 DEF NewRequest, RequestType, Status, Reasons, Passes
  <2> HIDE DEF q
  <2>5. Len(q.output_ids) = 0 /\ Len(q.sent) = 0
    BY <2>3
  <2>6. RecordOK(r, q)
    BY <2>3, <2>4, <2>5, DVRAssumption DEF RecordOK
  <2>7. ReasonOK(q)
    BY <2>3, <2>5, DVRAssumption DEF ReasonOK
  <2>8. RequestOK(r, q)
    BY <2>3, <2>6, <2>7 DEF RequestOK, Finished
  <2> QED
    BY <2>4, <2>8 DEF q
<1> QED
  BY <1>1 DEF Init, IndInv
\* What every step of the event loop does to every request.
StepOK ==
  /\ crashed' \in BOOLEAN
  /\ DOMAIN req' = Reqs /\ req' = [r \in Reqs |-> req'[r]]
  /\ \A r \in Reqs : RequestOK(r, req'[r]) /\ KeepsVerified(req'[r], req[r])

LEMMA UnchangedOK ==
  ASSUME IndInv, NEW r \in Reqs
  PROVE  RequestOK(r, req[r]) /\ KeepsVerified(req[r], req[r])
BY StageReflexive DEF IndInv, RequestOK

LEMMA PrefillOK ==
  ASSUME IndInv, NEW r \in Reqs, Prefill(r)
  PROVE  StepOK
<1>1. PICK t \in (IF req[r].output_ids = <<>> THEN {Ref[r][1]} ELSE Token) :
        req' = [req EXCEPT ![r] = AfterPrefill(r, req[r], t)]
  BY DEF Prefill
<1>2. t \in Token /\ (req[r].output_ids = <<>> => t = Ref[r][1])
  BY <1>1, DVRAssumption
<1>3. RequestOK(r, req[r]) /\ req[r].status = "waiting"
  BY DEF IndInv, Prefill
<1>4. /\ RequestOK(r, AfterPrefill(r, req[r], t))
      /\ KeepsVerified(AfterPrefill(r, req[r], t), req[r])
  BY <1>2, <1>3, AfterPrefillOK
<1>5. /\ DOMAIN req' = Reqs /\ req' = [x \in Reqs |-> req'[x]]
      /\ req'[r] = AfterPrefill(r, req[r], t)
      /\ \A x \in Reqs \ {r} : req'[x] = req[x]
  BY <1>1 DEF IndInv
<1>6. crashed' \in BOOLEAN
  BY DEF Prefill, IndInv
<1> QED
  BY <1>4, <1>5, <1>6, UnchangedOK DEF StepOK

LEMMA AbortRequestOK ==
  ASSUME IndInv, NEW r \in Reqs, AbortRequest(r)
  PROVE  StepOK
<1>1. /\ DOMAIN req' = Reqs /\ req' = [x \in Reqs |-> req'[x]]
      /\ \A x \in Reqs \ {r} : req'[x] = req[x]
      /\ \/ /\ req[r].status = "waiting"
            /\ req'[r] = [req[r] EXCEPT !.status = "aborted"]
         \/ /\ req[r].status = "running"
            /\ req'[r] = [req[r] EXCEPT !.to_finish = TRUE]
  BY DEF AbortRequest, IndInv
<1>2. RequestOK(r, req[r])
  BY DEF IndInv
<1>3. RequestOK(r, req'[r]) /\ KeepsVerified(req'[r], req[r])
  BY <1>1, <1>2, AbortOK
<1>4. crashed' \in BOOLEAN
  BY DEF AbortRequest, IndInv
<1> QED
  BY <1>1, <1>3, <1>4, UnchangedOK DEF StepOK

LEMMA PauseRetractOK ==
  ASSUME IndInv, PauseRetract
  PROVE  StepOK
<1>1. /\ DOMAIN req' = Reqs /\ req' = [x \in Reqs |-> req'[x]]
      /\ \A x \in Running : req'[x] = ResetForRetract(req[x])
      /\ \A x \in Reqs \ Running : req'[x] = req[x]
  BY DEF PauseRetract, Running
<1>2. \A x \in Running : x \in Reqs /\ RequestOK(x, req[x])
                         /\ req[x].status = "running"
  BY DEF IndInv, Running
<1>3. \A x \in Running : /\ RequestOK(x, req'[x])
                         /\ KeepsVerified(req'[x], req[x])
  BY <1>1, <1>2, ResetForRetractOK
<1>4. crashed' \in BOOLEAN
  BY DEF PauseRetract, IndInv
<1> QED
  BY <1>1, <1>3, <1>4, UnchangedOK DEF StepOK

LEMMA DecodeStepOK ==
  ASSUME IndInv, DecodeStep
  PROVE  StepOK
<1>0. PICK victims \in SUBSET Running :
      \E tok \in [Running \ victims -> Token] :
      \E batch \in {[r \in Running \ victims |-> AfterDecode(req[r], tok[r])]} :
      \E chosen \in VerifySets(batch) : VerifyAndStream(victims, batch, chosen)
  BY Zenon DEF DecodeStep
<1>1. PICK tok \in [Running \ victims -> Token] :
      \E batch \in {[r \in Running \ victims |-> AfterDecode(req[r], tok[r])]} :
      \E chosen \in VerifySets(batch) : VerifyAndStream(victims, batch, chosen)
  BY <1>0, Zenon
<1>2. PICK batch \in {[r \in Running \ victims |-> AfterDecode(req[r], tok[r])]} :
      \E chosen \in VerifySets(batch) : VerifyAndStream(victims, batch, chosen)
  BY <1>1, Zenon
<1>3. PICK chosen \in VerifySets(batch) : VerifyAndStream(victims, batch, chosen)
  BY <1>2, Zenon
<1>a. batch = [r \in Running \ victims |-> AfterDecode(req[r], tok[r])]
  BY <1>2
<1> DEFINE Checked(shifted) == AfterVerification(batch, chosen, shifted)
           Result(shifted) ==
             [r \in Reqs |->
                IF r \in victims THEN ResetForRetract(req[r])
                ELSE IF r \in Running
                THEN StreamOutput(r, Release(CheckFinished(Checked(shifted)[r])))
                ELSE req[r]]
           Shifts == SUBSET {r \in chosen : ~VerifierReproducible(batch[r])}
<1>4. CASE crashed' = TRUE /\ UNCHANGED req
  BY <1>4, UnchangedOK DEF StepOK, IndInv
<1>b. \/ crashed' = TRUE /\ UNCHANGED req
      \/ /\ UNCHANGED crashed
         /\ \E shifted \in Shifts : req' = Result(shifted)
  <2>1. CASE \E shifted \in Shifts : \E checked \in {Checked(shifted)} :
               req' = [r \in Reqs |->
                         IF r \in victims THEN ResetForRetract(req[r])
                         ELSE IF r \in Running
                         THEN StreamOutput(r, Release(CheckFinished(checked[r])))
                         ELSE req[r]]
    <3>1. \E shifted \in Shifts : req' = Result(shifted)
      BY <2>1
    <3> QED
      BY <1>3, <3>1 DEF VerifyAndStream
  <2> QED
    BY <1>3, <2>1 DEF VerifyAndStream
<1>5. ASSUME NEW shifted \in Shifts, req' = Result(shifted), UNCHANGED crashed
      PROVE  StepOK
  <2> DEFINE checked == Checked(shifted)
  <2>1. \A x \in Running : x \in Reqs /\ RequestOK(x, req[x])
                           /\ req[x].status = "running"
    BY DEF IndInv, Running
  <2>2. ASSUME NEW r \in victims
        PROVE  RequestOK(r, req'[r]) /\ KeepsVerified(req'[r], req[r])
    BY <1>5, <2>1, ResetForRetractOK
  <2>3. ASSUME NEW r \in Running \ victims
        PROVE  RequestOK(r, req'[r]) /\ KeepsVerified(req'[r], req[r])
    <3>1. /\ batch[r] = AfterDecode(req[r], tok[r]) /\ tok[r] \in Token
          /\ r \in DOMAIN batch /\ r \in Reqs
          /\ RequestOK(r, req[r]) /\ req[r].status = "running"
      BY <1>a, <2>1
    <3>2. checked[r] = IF r \in chosen
                       THEN AfterVerify(batch[r], IF r \in shifted THEN AltRef[r]
                                                                   ELSE Ref[r])
                       ELSE batch[r]
      BY <3>1 DEF AfterVerification
    <3>3. Unverified(batch[r]) > 0
      <4>1. Unverified(AfterDecode(req[r], tok[r])) > 0
        BY <3>1, AfterDecodeOK, Zenon
      <4> QED
        BY <3>1, <4>1
    <3>4. r \notin chosen => ~Ready(batch[r])
      BY <3>1, <3>3, VerifySetsOK
    <3>5. r \in shifted => r \in chosen /\ ~VerifierReproducible(batch[r])
      OBVIOUS
    <3>6. req'[r] = StreamOutput(r, Release(CheckFinished(checked[r])))
      BY <1>5, <3>1
    <3> HIDE DEF checked
    <3>7. \/ checked[r] = batch[r] /\ ~Ready(batch[r])
          \/ checked[r] = AfterVerify(batch[r], Ref[r])
          \/ /\ checked[r] = AfterVerify(batch[r], AltRef[r])
             /\ ~VerifierReproducible(batch[r])
      BY <3>2, <3>4, <3>5
    <3> DEFINE b == batch[r]
               c == checked[r]
               t == tok[r]
    <3>8. /\ r \in Reqs /\ RequestOK(r, req[r]) /\ req[r].status = "running"
          /\ t \in Token /\ b = AfterDecode(req[r], t)
          /\ \/ c = b /\ ~Ready(b)
             \/ c = AfterVerify(b, Ref[r])
             \/ c = AfterVerify(b, AltRef[r]) /\ ~VerifierReproducible(b)
      BY <3>1, <3>7
    <3>9. req'[r] = StreamOutput(r, Release(CheckFinished(c)))
      BY <3>6
    <3> HIDE DEF b, c, t
    <3> QED
      BY ONLY <3>8, <3>9, DecodedRequestOK
  <2>4. ASSUME NEW r \in Reqs \ Running
        PROVE  RequestOK(r, req'[r]) /\ KeepsVerified(req'[r], req[r])
    <3>1. req'[r] = req[r]
      BY <1>5
    <3> QED
      BY <3>1, UnchangedOK
  <2>5. /\ DOMAIN req' = Reqs /\ req' = [x \in Reqs |-> req'[x]]
        /\ crashed' \in BOOLEAN
    BY <1>5 DEF IndInv
  <2> QED
    BY <2>2, <2>3, <2>4, <2>5 DEF StepOK
<1> QED
  BY <1>b, <1>4, <1>5
LEMMA NextOK ==
  ASSUME IndInv, [Next]_vars
  PROVE  StepOK
<1>1. CASE Next
  BY <1>1, PrefillOK, AbortRequestOK, DecodeStepOK, PauseRetractOK DEF Next
<1>2. CASE UNCHANGED vars
  BY <1>2, UnchangedOK DEF vars, StepOK, IndInv
<1> QED
  BY <1>1, <1>2

\* The inductive invariant holds throughout.
THEOREM Inductive == Spec => []IndInv
<1>1. IndInv /\ [Next]_vars => IndInv'
  <2> SUFFICES ASSUME IndInv, [Next]_vars PROVE IndInv'
    OBVIOUS
  <2>1. StepOK
    BY NextOK
  <2>2. \A r \in Reqs : req'[r] \in RequestType
    BY <2>1 DEF StepOK, RequestOK, RecordOK
  <2> QED
    BY <2>1, <2>2 DEF StepOK, IndInv
<1> QED
  BY <1>1, InitOK, PTL DEF Spec

-----------------------------------------------------------------------------
(* What the induction gives                                                 *)

\* The fields of every Req object keep their types, and the verified count
\* stays between 1 and the number of outputs once there is one.
THEOREM TypeCorrect == Spec => []TypeOK
<1>1. IndInv => TypeOK
  BY DEF IndInv, TypeOK, RequestOK, RecordOK
<1> QED
  BY <1>1, Inductive, PTL

\* Determinism of the stream: stream_output_generation sends only tokens of the
\* reference continuation, whatever the decoder sampled and the scheduler did.
THEOREM StreamDeterminism == Spec => []StreamIsReference
<1>1. IndInv => StreamIsReference
  <2> SUFFICES ASSUME IndInv, NEW r \in Reqs, Reproducible(req[r])
               PROVE  SentIsReference(r)
    BY DEF StreamIsReference
  <2> DEFINE q == req[r]
  <2>1. RecordOK(r, q)
    BY DEF IndInv, RequestOK
  <2>2. /\ q.send_token_offset \in Nat /\ q.verified \in Nat
        /\ Len(q.output_ids) \in Nat /\ MaxNewTokens \in Nat
    BY <2>1, DVRAssumption DEF RecordOK, RequestType
  <2>3. \A i \in 1..q.send_token_offset : i <= MaxNewTokens /\ i \in 1..q.verified
    BY <2>1, <2>2 DEF RecordOK
  <2> QED
    BY <2>1, <2>2, <2>3 DEF RecordOK, SentIsReference
<1> QED
  BY <1>1, Inductive, PTL

\* A request that reached its length or a stop token got a whole answer.
LEMMA AnswerOK ==
  ASSUME NEW r \in Reqs, NEW q, RequestOK(r, q), Reproducible(q),
         q.finished_output, q.finished_reason \in {"length", "token"}
  PROVE  IsCompleteAnswer(r, q.sent)
<1>1. q.sent = q.output_ids /\ RecordOK(r, q) /\ ReasonOK(q)
  BY DEF RequestOK
<1>2. /\ q.send_token_offset \in Nat /\ q.verified \in Nat
      /\ Len(q.output_ids) \in Nat /\ MaxNewTokens \in Nat \ {0}
      /\ q.output_ids \in Seq(Token)
  BY <1>1, DVRAssumption DEF RecordOK, RequestType
<1>3. q.verified = Len(q.output_ids)
  BY <1>1, <1>2 DEF RecordOK
<1>4. Len(q.sent) = MaxNewTokens \/ q.sent[Len(q.sent)] \in Eos
  BY <1>1 DEF ReasonOK, LastToken
<1>5. Len(q.sent) \in 1..MaxNewTokens
  <2>1. CASE q.finished_reason = "length"
    BY <1>1, <1>2, <2>1 DEF ReasonOK
  <2>2. CASE q.finished_reason = "token"
    BY <1>1, <1>2, <2>2 DEF ReasonOK, RecordOK
  <2> QED
    BY <2>1, <2>2
<1> QED
  BY <1>1, <1>3, <1>4, <1>5 DEF RecordOK, IsCompleteAnswer

\* Determinism of the answer: check_finished and the rollback of its verdict
\* end a request exactly where the reference continuation ends.
THEOREM AnswerDeterminism == Spec => []CompleteAnswer
<1>1. IndInv => CompleteAnswer
  BY AnswerOK DEF IndInv, CompleteAnswer
<1> QED
  BY <1>1, Inductive, PTL

\* kv_committed_len and output_ids stay in step through decode, verification,
\* rollback and resumption.
THEOREM CacheLengthCorrect == Spec => []KVMatchesOutput
<1>1. IndInv => KVMatchesOutput
  BY DEF IndInv, RequestOK, CacheOK, KVMatchesOutput, Running
<1> QED
  BY <1>1, Inductive, PTL

\* The verifier only ever attends to KV entries that reproducible passes
\* computed.
THEOREM CacheCorrect == Spec => []ContextIsVerified
<1>1. IndInv => ContextIsVerified
  BY DEF IndInv, RequestOK, CacheOK, ContextIsVerified, Running
<1> QED
  BY <1>1, Inductive, PTL

\* The verification backlog is bounded by the window and the retractions.
THEOREM BacklogBounded == Spec => []BacklogBound
<1>1. IndInv => BacklogBound
  BY DEF IndInv, RequestOK, BacklogBound, Running
<1> QED
  BY <1>1, Inductive, PTL

\* No request that was never retracted is released before it is answered.
THEOREM ReleaseCorrect == Spec => []ReleasedIsAnswered
<1>1. IndInv => ReleasedIsAnswered
  BY DEF IndInv, RequestOK, ReleasedIsAnswered
<1> QED
  BY <1>1, Inductive, PTL

\* A rollback never reaches a verified token.
THEOREM RollbackCorrect == Spec => VerifiedIsStable
<1>1. IndInv /\ [Next]_vars =>
        [\A r \in Reqs :
           /\ req'[r].verified >= req[r].verified
           /\ \A i \in 1..req[r].verified :
                req'[r].output_ids[i] = req[r].output_ids[i]]_vars
  BY NextOK DEF StepOK, KeepsVerified
<1> QED
  BY <1>1, Inductive, PTL DEF Spec, VerifiedIsStable

-----------------------------------------------------------------------------
(* The stream that each client sees                                        *)

\* A request that was released or dropped is never touched again.
LEMMA DoneIsFrozen ==
  ASSUME IndInv, [Next]_vars, NEW r \in Reqs,
         req[r].status \in {"released", "aborted"}
  PROVE  req'[r] = req[r]
<1>0. r \notin Running /\ req[r].status # "waiting" /\ req[r].status # "running"
  BY DEF Running
<1>1. ASSUME NEW x \in Reqs, Prefill(x) PROVE req'[r] = req[r]
  BY <1>0, <1>1 DEF Prefill, IndInv
<1>2. ASSUME NEW x \in Reqs, AbortRequest(x) PROVE req'[r] = req[r]
  BY <1>0, <1>2 DEF AbortRequest, IndInv
<1>3. CASE PauseRetract
  BY <1>0, <1>3 DEF PauseRetract
<1>4. CASE DecodeStep
  <2>1. ASSUME NEW victims \in SUBSET Running, NEW batch, NEW chosen,
               VerifyAndStream(victims, batch, chosen)
        PROVE  req'[r] = req[r]
    <3>1. r \notin victims
      BY <1>0
    <3> QED
      BY <1>0, <2>1, <3>1 DEF VerifyAndStream
  <2> QED
    BY <1>4, <2>1, Zenon DEF DecodeStep
<1>5. CASE UNCHANGED vars
  BY <1>5 DEF vars
<1> QED
  BY <1>1, <1>2, <1>3, <1>4, <1>5 DEF Next

\* What a client holds, seen as a prefix of its reference continuation.
LEMMA SentIsPrefix ==
  ASSUME Mode # 3, NEW r \in Reqs, NEW q, RequestOK(r, q)
  PROVE  /\ q.send_token_offset \in 0..MaxNewTokens
         /\ Len(q.sent) = q.send_token_offset
         /\ q.sent = [i \in 1..q.send_token_offset |-> Ref[r][i]]
         /\ \A i \in 1..(q.send_token_offset - 1) : Ref[r][i] \notin Stops
         /\ ~q.finished_output =>
              \A i \in 1..q.send_token_offset : Ref[r][i] \notin Stops
<1>1. RecordOK(r, q) /\ ReasonOK(q) /\ Reproducible(q)
  BY DEF RequestOK, Reproducible
<1> DEFINE n == q.send_token_offset
<1>2. /\ n \in Nat /\ q.verified \in Nat /\ Len(q.output_ids) \in Nat
      /\ n <= q.verified /\ q.verified <= Len(q.output_ids)
      /\ Len(q.output_ids) <= MaxNewTokens /\ MaxNewTokens \in Nat
      /\ q.sent \in Seq(Token) /\ Len(q.sent) = n
  BY <1>1, DVRAssumption DEF RecordOK, RequestType
<1>3. \A i \in 1..n : /\ q.sent[i] = Ref[r][i]
                      /\ q.output_ids[i] = Ref[r][i]
  <2>1. \A i \in 1..n : i \in 1..q.verified
    BY <1>2
  <2> QED
    BY <1>1, <2>1 DEF RecordOK
<1>4. q.sent = [i \in 1..n |-> Ref[r][i]]
  <2>1. DOMAIN q.sent = 1..n /\ q.sent = [i \in DOMAIN q.sent |-> q.sent[i]]
    BY <1>2
  <2> QED
    BY <1>3, <2>1
<1>5. \A i \in 1..(n - 1) : Ref[r][i] \notin Stops
  <2>1. \A i \in 1..(n - 1) : i \in 1..n /\ i \in 1..(Len(q.output_ids) - 1)
    BY <1>2
  <2> QED
    BY <1>1, <1>3, <2>1 DEF RecordOK
<1>6. ~q.finished_output => \A i \in 1..n : Ref[r][i] \notin Stops
  <2>1. CASE Finished(q) /\ ~q.finished_output
    <3>1. q.verified < Len(q.output_ids)
      BY <2>1 DEF RequestOK
    <3>2. \A i \in 1..n : i \in 1..(Len(q.output_ids) - 1)
      BY <1>2, <3>1
    <3> QED
      BY <1>1, <1>3, <3>2 DEF RecordOK
  <2>2. CASE ~Finished(q)
    <3>1. \A i \in 1..n : i \in 1..Len(q.output_ids)
      BY <1>2
    <3> QED
      BY <1>1, <1>3, <2>2, <3>1 DEF ReasonOK, Finished
  <2> QED
    BY <2>1, <2>2
<1> QED
  BY <1>2, <1>4, <1>5, <1>6

\* One step of the scheduler is, for each client, a step of its stream.
LEMMA ClientStep ==
  ASSUME Mode # 3, IndInv, [Next]_vars, NEW r \in Reqs
  PROVE  [Client(r)!Next]_(Client(r)!clientVars)
<1> DEFINE q == req[r]
           p == req'[r]
           n == p.send_token_offset
<1>1. RequestOK(r, q) /\ RequestOK(r, p) /\ KeepsVerified(p, q)
  BY NextOK DEF IndInv, StepOK
<1>2. Len(q.sent) = q.send_token_offset /\ q.send_token_offset \in Nat
  BY <1>1 DEF RequestOK, RecordOK, RequestType
<1>3. /\ n \in 0..MaxNewTokens
      /\ p.sent = [i \in 1..n |-> Ref[r][i]] /\ Len(p.sent) = n
      /\ \A i \in 1..(n - 1) : Ref[r][i] \notin Stops
      /\ ~p.finished_output => \A i \in 1..n : Ref[r][i] \notin Stops
  BY <1>1, SentIsPrefix
<1>4. n \in Len(q.sent)..MaxNewTokens
  BY <1>1, <1>2, <1>3, DVRAssumption DEF KeepsVerified
<1>5. CASE Outcome(q) # "open"
  <2>1. q.status \in {"released", "aborted"}
    BY <1>1, <1>5 DEF Outcome, RequestOK, Finished
  <2>2. p = q
    BY <2>1, DoneIsFrozen
  <2> QED
    BY <2>2 DEF Client!clientVars, Outcome
<1>6. CASE Outcome(q) = "open" /\ Outcome(p) = "open"
  <2>1. ~p.finished_output
    BY <1>6 DEF Outcome
  <2>2. Client(r)!Deliver
    BY <1>3, <1>4, <1>6, <2>1 DEF Client!Deliver, Client!Further, Client!Prefix,
       Client!StopFree, Stops
  <2> QED
    BY <2>2 DEF Client!Next
<1>7. CASE Outcome(q) = "open" /\ Outcome(p) = "complete"
  <2>1. p.finished_output /\ p.finished_reason \in {"length", "token"}
    BY <1>7 DEF Outcome
  <2>2. IsCompleteAnswer(r, p.sent)
    BY <1>1, <2>1, AnswerOK DEF Reproducible
  <2>3. n > 0 /\ (n = MaxNewTokens \/ Ref[r][n] \in Eos)
    BY <1>3, <2>2 DEF IsCompleteAnswer
  <2>4. Client(r)!Complete
    BY <1>3, <1>4, <1>7, <2>3 DEF Client!Complete, Client!Further, Client!Prefix,
       Client!StopFree, Client!Answer, Stops
  <2> QED
    BY <2>4 DEF Client!Next
<1>8. CASE Outcome(q) = "open" /\ Outcome(p) = "cut"
  <2>1. Client(r)!CutShort
    BY <1>3, <1>4, <1>8 DEF Client!CutShort, Client!Further, Client!Prefix,
       Client!StopFree, Stops
  <2> QED
    BY <2>1 DEF Client!Next
<1>9. Outcome(p) \in {"open", "complete", "cut"}
  BY DEF Outcome
<1> QED
  BY <1>5, <1>6, <1>7, <1>8, <1>9

\* The scheduler implements a deterministic stream for every request.
THEOREM ClientsServed ==
  ASSUME Mode # 3
  PROVE  Spec => EveryClientServed
<1>1. Init => \A r \in Reqs : Client(r)!Init
  BY DEF Init, NewRequest, Client!Init, Outcome
<1>2. IndInv /\ [Next]_vars =>
        [\A r \in Reqs : [Client(r)!Next]_(Client(r)!clientVars)]_vars
  BY ClientStep
<1> QED
  BY <1>1, <1>2, Inductive, PTL DEF Spec, EveryClientServed
=============================================================================

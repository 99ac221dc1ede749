----------------------------- MODULE DVRClient -----------------------------
(***************************************************************************)
(* The decode-verify-rollback scheduler composed with the detokenizer: the *)
(* text a client reads.  stream_output_generation hands every chunk over   *)
(* through an ordered, reliable socket, and the detokenizer serves it with *)
(* no other input, so a chunk is decoded in the step that sends it.        *)
(***************************************************************************)
EXTENDS DVRStream, SequencesExt

CONSTANTS
  Partial,  \* tokens that end inside a character
  Blank     \* tokens that end with a blank

INSTANCE Detokenizer WITH StopText <- StopStr

VARIABLES
  cur_decode_ids_len,  \* request -> output tokens handed over so far
  decode_status        \* request -> its DecodeStatus

clientVars == <<cur_decode_ids_len, decode_status>>

\* Whether stream_output_generation sends a chunk for r in a step that leads to
\* q: the last one, or one that is due given what was sent before.
SendsChunk(r, q) ==
  \/ q.finished_output /\ ~req[r].finished_output
  \/ /\ ~Finished(q)
     /\ DueForStreaming(r, [q EXCEPT !.send_token_offset = req[r].send_token_offset])

\* init_incremental_detokenize: the verified tokens not handed over yet.
DecodeIds(r, q) ==
  LET out == OutputThroughStop(q)
  IN  SubSeq(out, cur_decode_ids_len[r] + 1, Min2(q.verified, Len(out)))

\* The chunks of a step that streams the requests of S.
HandOver(S) ==
  LET sent == {r \in S : SendsChunk(r, req'[r])}
  IN  /\ decode_status' =
           [r \in Reqs |->
              IF r \in sent
              THEN Decoded(decode_status[r], DecodeIds(r, req'[r]),
                           req'[r].finished_reason)
              ELSE decode_status[r]]
      /\ cur_decode_ids_len' =
           [r \in Reqs |-> IF r \in sent THEN req'[r].verified
                           ELSE cur_decode_ids_len[r]]

ClientInit ==
  /\ Init
  /\ cur_decode_ids_len = [r \in Reqs |-> 0]
  /\ decode_status = [r \in Reqs |-> NewStatus]

ClientNext ==
  \/ \E r \in Reqs : Prefill(r) /\ HandOver({r})
  \/ \E r \in Reqs : AbortRequest(r) /\ UNCHANGED clientVars
  \/ /\ DecodeStep
     /\ HandOver({r \in Running : ~crashed' /\ req'[r].status # "waiting"})
  \/ PauseRetract /\ UNCHANGED clientVars

ClientSpec == ClientInit /\ [][ClientNext]_<<vars, clientVars>> /\ Fairness

-----------------------------------------------------------------------------
(* Properties                                                               *)

\* What a client reads is the text of the tokens it is sent: whatever the size
\* of the chunks and wherever they cut a character or a word, the pieces that
\* _decode_batch_token_id_output sends are a prefix of the text of the tokens,
\* none of it twice or with a character that was not complete, and the last
\* piece completes it, without the stop token or stop string.
ClientReadsText ==
  \A r \in Reqs :
    LET s == decode_status[r]
        reason == req[r].finished_reason
    IN  s.decode_ids = req[r].sent =>
          IF req[r].finished_output
          THEN s.shown = TrimText(Text(TrimIds(req[r].sent, reason)), reason)
          ELSE IsPrefix(s.shown, Text(req[r].sent)) /\ ~EndsInside(s.shown)

\* init_incremental_detokenize: "LLM-42 DVR: only expose verified tokens to
\* detokenizer".  The tokens it hands over are the tokens the client is sent.
TextMatchesTokens ==
  \A r \in Reqs : decode_status[r].decode_ids = req[r].sent
=============================================================================

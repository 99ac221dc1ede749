---------------------------- MODULE Detokenizer ----------------------------
(***************************************************************************)
(* Incremental detokenization of one request, as DetokenizerManager does   *)
(* it chunk by chunk.  A token is decoded to a part of a character or to   *)
(* the end of one, so a text is a sequence of characters, each the         *)
(* sequence of the tokens it is made of.  The prompt's last tokens, which  *)
(* only give the tokenizer its left context, are left out.                 *)
(***************************************************************************)
EXTENDS Integers, Sequences, SequencesExt

CONSTANTS
  Partial,    \* tokens that end inside a character
  Blank,      \* tokens that end with a blank
  StopText    \* tokens whose text is a stop string

\* The replacement character, which stands for an incomplete one.
Replacement == <<>>

\* tokenizer.decode: a character ends with the first token that is not partial.
RECURSIVE TextFrom(_, _)
TextFrom(open, ids) ==
  IF ids = <<>> THEN IF open = <<>> THEN <<>> ELSE <<Replacement>>
  ELSE LET char == Append(open, Head(ids))
       IN  IF Head(ids) \in Partial THEN TextFrom(char, Tail(ids))
           ELSE <<char>> \o TextFrom(<<>>, Tail(ids))

Text(ids) == TextFrom(<<>>, ids)

\* Mutation: an incomplete character is not held back.
EndsInsideNever(text) == FALSE

EndsInside(text) == text # <<>> /\ Last(text) = Replacement

\* Up to the last blank, the longest prefix of length n with that end.
Printable(text) ==
  LET ends == {n \in 1..Len(text) : text[n] # Replacement /\ Last(text[n]) \in Blank}
  IN  IF ends = {} THEN <<>> ELSE SubSeq(text, 1, Max(ends))

\* trim_matched_stop, for a list of ids and for a text.
TrimIds(ids, reason) == IF reason = "token" THEN Front(ids) ELSE ids

TrimText(text, reason) ==
  LET hits == {n \in 1..Len(text) : text[n] # Replacement /\ Last(text[n]) \in StopText}
  IN  IF reason = "str" /\ hits # {} THEN SubSeq(text, 1, Min(hits) - 1) ELSE text

(***************************************************************************)
(* The DecodeStatus of a request, and shown: all the text that was sent on *)
(* for it.                                                                 *)
(***************************************************************************)
NewStatus ==
  [decode_ids |-> <<>>, surr_offset |-> 0, read_offset |-> 0,
   decoded_text |-> <<>>, sent_offset |-> 0, shown |-> <<>>]

\* _decode_batch_token_id_output for one request and a chunk of ids.
Decoded(status, ids, reason) ==
  LET s == [status EXCEPT !.decode_ids = @ \o ids]
      read_ids == TrimIds(SubSeq(s.decode_ids, s.surr_offset + 1, Len(s.decode_ids)),
                          reason)
      surr_ids == SubSeq(s.decode_ids, s.surr_offset + 1, s.read_offset)
      new_text == SubSeq(Text(read_ids), Len(Text(surr_ids)) + 1, Len(Text(read_ids)))
      whole == reason = "none" /\ new_text # <<>> /\ ~EndsInside(new_text)
      d == IF whole
           THEN [s EXCEPT !.decoded_text = @ \o new_text,
                          !.surr_offset = s.read_offset,
                          !.read_offset = Len(s.decode_ids)]
           ELSE s
      rest == CASE whole -> <<>>
                [] ~whole /\ reason = "none" -> Printable(new_text)
                [] OTHER -> new_text
      output == TrimText(d.decoded_text \o rest, reason)
  IN  [d EXCEPT !.shown = @ \o SubSeq(output, d.sent_offset + 1, Len(output)),
                !.sent_offset = Len(output)]
=============================================================================

----------------------------- MODULE MCTransport -----------------------------
(***************************************************************************)
(* TransportCodec for TLC.  The lengths are scaled down: frames of at most *)
(* 20 bytes, abridged lengths extended from 3 words on, and an error whose *)
(* first byte announces one word.                                          *)
(***************************************************************************)
EXTENDS TransportCodec

H(tag, len, mark) ==
    [tag |-> tag, len |-> len, mark |-> mark, ok |-> TRUE, seq |-> 0]

F(means, head, size) == [means |-> means, head |-> head, size |-> size]

(* Acks and errors that every parser recognises.                           *)
PlainServer == [c \in Codecs |->
    CASE c = "abridged"     -> {F("ack", H("msb", 0, FALSE), 4),
                                F("error", H("len", 4 * ErrorByte, TRUE), 4)}
      [] c = "intermediate" -> {F("ack", H("msb", 0, FALSE), 4),
                                F("error", H("err", 0, FALSE), 4)}
      [] c = "padded"       -> {F("ack", H("len", 8, TRUE), 12),
                                F("error", H("err", 0, FALSE), 4)}
      [] c = "full"         -> {F("error", H("err", 0, FALSE), 4)}]

(* And the ones that they take for something else: an ack that starts with *)
(* 0xff, an error code other than 404; and lengths beyond the limit.       *)
AnyServer == [c \in Codecs |->
    PlainServer[c] \cup
    CASE c = "abridged"     -> {F("ack", H("ext", 4, FALSE), 4),
                                F("error", H("len", 8, TRUE), 4),
                                F("bad", H("len", MaxFrame + 4, FALSE), 4)}
      [] c = "intermediate" -> {F("bad", H("len", MaxFrame + 4, FALSE), 8)}
      [] c = "padded"       -> {F("bad", H("msb", 0, FALSE), 8)}
      [] c = "full"         -> {F("bad", H("len", 13, FALSE), 8)}]

(* The middle of a frame reads as a valid frame of 12 bytes, at worst.      *)
(* for a codec that has lost its place.                                    *)
InnerHeads == {H("len", 12, TRUE)}
=============================================================================

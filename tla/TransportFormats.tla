-------------------------- MODULE TransportFormats --------------------------
(***************************************************************************)
(* The four MTProto TCP framings of mtproto/transports.py, as functions:   *)
(* what encode() puts on the wire and what _parse_one() makes of the bytes *)
(* at the read offset.                                                     *)
(*                                                                         *)
(* Bytes are abstracted to what the parsers test.  A header is what the    *)
(* four bytes at the read offset decode as (one byte, then up to three     *)
(* more, for the abridged framing):                                        *)
(*   tag   which range the header falls in                                 *)
(*           "len"  a length (abridged: first byte below 0x7f)             *)
(*           "ext"  abridged only: first byte 0x7f or 0xff                 *)
(*           "msb"  most significant bit set, and not a small negative     *)
(*           "err"  a signed value in (-1000, 0)                           *)
(*   len   the length in bytes that the header announces                   *)
(*   mark  abridged: the four bytes, read as one integer, lie in (-1000,0) *)
(*         padded:   the four bytes after the header are 0xFFFFFFFF        *)
(*   ok    full: the CRC32 at the end of the frame matches                 *)
(*   seq   full: the sequence number in the frame                          *)
(* A length too big to be written with 31 bits has the tag "msb".          *)
(***************************************************************************)
EXTENDS Integers

CONSTANTS
    MaxFrame,       \* limits.max_transport_frame_size
    ExtendedFrom,   \* abridged: words from which the length is extended (127)
    ErrorByte       \* abridged: the first byte of -404 on the wire (108)

ASSUME FormatAssumption ==
    /\ MaxFrame \in Nat
    /\ ExtendedFrom \in Nat
    /\ ErrorByte \in Nat \ {0}
    /\ 4 * ErrorByte <= MaxFrame

Codecs == {"abridged", "intermediate", "padded", "full"}

Kinds == {"payload", "ack", "error"}

Header ==
    [tag : {"len", "ext", "msb", "err"}, len : Nat, mark : BOOLEAN,
     ok : BOOLEAN, seq : Nat]

(* A frame on the wire: what its sender means by it, its header, how many  *)
(* bytes it takes and where in the stream it starts.                       *)
Frame ==
    [means : Kinds \cup {"bad"}, head : Header, size : Nat \ {0}, at : Nat]

-----------------------------------------------------------------------------
(* The result of one _parse_one(): None, an event that consumes `take`     *)
(* bytes and carries `body` payload bytes, or an exception.                *)

None           == [out |-> "none",  what |-> "none", take |-> 0, body |-> 0]
Event(k, t, b) == [out |-> "event", what |-> k,      take |-> t, body |-> b]
Raise(err)     == [out |-> "raise", what |-> err,    take |-> 0, body |-> 0]

(* The two exceptions before which the full codec calls self.reset().      *)
Resets(r) == r.what \in {"checksum", "sequence"}

TooLong(h) == h.tag = "msb" \/ h.len > MaxFrame

(* Fault: the three bytes of an extended length are not counted.           *)
AbridgedParse_ShortHeader(h, avail) ==
    IF avail < 1 THEN None
    ELSE IF h.tag = "msb" THEN IF avail < 4 THEN None ELSE Event("ack", 4, 0)
    ELSE IF h.tag = "len" /\ h.len = 4 * ErrorByte /\ avail >= 4 /\ h.mark
        THEN Event("error", 4, 0)
    ELSE IF h.len > MaxFrame THEN Raise("too_large")
    ELSE IF avail < 4 + h.len THEN None
    ELSE Event("payload", 1 + h.len, h.len)

AbridgedParse(h, avail) ==
    LET hlen == IF h.tag = "ext" THEN 4 ELSE 1
    IN  IF avail < 1 THEN None
        ELSE IF h.tag = "msb" THEN
            IF avail < 4 THEN None ELSE Event("ack", 4, 0)
        ELSE IF avail < hlen THEN None
        ELSE IF hlen = 1 /\ h.len = 4 * ErrorByte /\ avail >= 4 /\ h.mark
            THEN Event("error", 4, 0)
        ELSE IF h.len > MaxFrame THEN Raise("too_large")
        ELSE IF avail < hlen + h.len THEN None
        ELSE Event("payload", hlen + h.len, h.len)

(* Fault: the limit on a frame is not checked before waiting for it.       *)
IntermediateParse_NoLimit(h, avail) ==
    IF avail < 4 THEN None
    ELSE IF h.tag = "err" THEN Event("error", 4, 0)
    ELSE IF h.tag = "msb" THEN Event("ack", 4, 0)
    ELSE IF avail < 4 + h.len THEN None
    ELSE Event("payload", 4 + h.len, h.len)

IntermediateParse(h, avail) ==
    IF avail < 4 THEN None
    ELSE IF h.tag = "err" THEN Event("error", 4, 0)
    ELSE IF h.tag = "msb" THEN Event("ack", 4, 0)
    ELSE IF h.len > MaxFrame THEN Raise("too_large")
    ELSE IF avail < 4 + h.len THEN None
    ELSE Event("payload", 4 + h.len, h.len)

(* Fault: a frame of up to 16 bytes is tested for an ack as it comes in.   *)
PaddedParse_Eager(h, avail) ==
    LET short == h.tag = "len" /\ h.len <= 16
    IN  IF avail < 4 THEN None
        ELSE IF short /\ avail < 8 THEN Raise("struct")
        ELSE IF short /\ h.mark THEN Event("ack", 4 + h.len, 0)
        ELSE IF h.tag = "err" THEN Event("error", 4, 0)
        ELSE IF TooLong(h) THEN Raise("too_large")
        ELSE IF avail < 4 + h.len THEN None
        ELSE Event("payload", 4 + h.len, h.len)

(* Lengths up to 16 may be a quick ack: the words at +4 and at +8 are read *)
(* even if the frame is shorter than that, and struct.error escapes when   *)
(* the buffer is.                                                          *)
PaddedParse(h, avail) ==
    LET short == h.tag = "len" /\ h.len <= 16
    IN  IF avail < 4 \/ (short /\ avail < 4 + h.len) THEN None
        ELSE IF short /\ (avail < 8 \/ (h.mark /\ avail < 12))
            THEN Raise("struct")
        ELSE IF short /\ h.mark THEN Event("ack", 4 + h.len, 0)
        ELSE IF h.tag = "err" THEN Event("error", 4, 0)
        ELSE IF TooLong(h) THEN Raise("too_large")
        ELSE IF avail < 4 + h.len THEN None
        ELSE Event("payload", 4 + h.len, h.len)

FullParse(h, avail, inSeq) ==
    IF avail < 4 THEN None
    ELSE IF h.tag = "err" THEN Event("error", 4, 0)
    ELSE IF h.tag # "msb" /\ (h.len % 4 # 0 \/ h.len < 12)
        THEN Raise("bad_length")
    ELSE IF TooLong(h) THEN Raise("too_large")
    ELSE IF avail < h.len THEN None
    ELSE IF ~h.ok THEN Raise("checksum")
    ELSE IF h.seq # inSeq THEN Raise("sequence")
    ELSE Event("payload", h.len, h.len - 12)

Parse(codec, h, avail, inSeq) ==
    CASE codec = "abridged"     -> AbridgedParse(h, avail)
      [] codec = "intermediate" -> IntermediateParse(h, avail)
      [] codec = "padded"       -> PaddedParse(h, avail)
      [] codec = "full"         -> FullParse(h, avail, inSeq)

-----------------------------------------------------------------------------
(* encode(payload, request_quick_ack): n is len(payload), pad the random   *)
(* padding of the padded codec, mark and seq as in the header.  Only the   *)
(* padded codec accepts a payload that is not a whole number of words.     *)

Encodable(codec, n) == codec = "padded" \/ n % 4 = 0

EncodedHead(codec, n, pad, quick, mark, seq) ==
    [tag  |-> IF codec = "abridged" /\ n \div 4 >= ExtendedFrom THEN "ext"
              ELSE IF quick /\ codec # "full" THEN "msb" ELSE "len",
     len  |-> IF codec = "full" THEN n + 12 ELSE n + pad,
     mark |-> mark, ok |-> TRUE, seq |-> seq]

EncodedSize(codec, n, pad) ==
    CASE codec = "abridged" -> n + (IF n \div 4 >= ExtendedFrom THEN 4 ELSE 1)
      [] codec = "full"     -> n + 12
      [] OTHER              -> n + pad + 4

-----------------------------------------------------------------------------
(* The frames that each parser can tell apart.  The rest of what the       *)
(* encoders and the server can send is ambiguous to this code: a payload   *)
(* that asks for a quick ack, an abridged payload of 108 words that starts *)
(* FE FF FF, abridged acks that start 0xff, abridged error codes other     *)
(* than 404, padded bodies shorter than a word or that start FF FF FF FF.  *)

Plain(codec, f) ==
    LET h == f.head IN
    /\ f.size >= 4 \/ f.means = "payload"
    /\ CASE codec = "abridged" ->
            \/ /\ f.means = "payload"
               /\ h.tag \in {"len", "ext"} /\ h.len <= MaxFrame
               /\ f.size = h.len + (IF h.tag = "ext" THEN 4 ELSE 1)
               /\ ~(h.tag = "len" /\ h.len = 4 * ErrorByte /\ h.mark)
            \/ f.means = "ack" /\ h.tag = "msb" /\ f.size = 4
            \/ /\ f.means = "error" /\ f.size = 4
               /\ h.tag = "len" /\ h.len = 4 * ErrorByte /\ h.mark
            \/ /\ f.means = "bad"
               /\ h.tag \in {"len", "ext"} /\ h.len > MaxFrame
      [] codec = "intermediate" ->
            \/ /\ f.means = "payload" /\ h.tag = "len" /\ h.len <= MaxFrame
               /\ f.size = 4 + h.len
            \/ f.means = "ack" /\ h.tag = "msb" /\ f.size = 4
            \/ f.means = "error" /\ h.tag = "err" /\ f.size = 4
            \/ f.means = "bad" /\ h.tag = "len" /\ h.len > MaxFrame
      [] codec = "padded" ->
            \/ /\ f.means = "payload" /\ h.tag = "len" /\ h.len <= MaxFrame
               /\ f.size = 4 + h.len
               /\ h.len >= 4 /\ ~(h.len <= 16 /\ h.mark)
            \/ /\ f.means = "ack" /\ h.tag = "len" /\ h.mark
               /\ h.len \in 8 .. 16 /\ f.size = 4 + h.len
            \/ f.means = "error" /\ h.tag = "err" /\ f.size = 4
            \/ /\ f.means = "bad" /\ h.tag \in {"len", "msb"}
               /\ h.tag = "len" => h.len > MaxFrame /\ h.len > 16
      [] codec = "full" ->
            \/ /\ f.means = "payload" /\ h.tag = "len" /\ h.len <= MaxFrame
               /\ f.size = h.len /\ h.len >= 12 /\ h.len % 4 = 0
            \/ f.means = "error" /\ h.tag = "err" /\ f.size = 4
            \/ /\ f.means = "bad" /\ h.tag \in {"len", "msb"}
               /\ h.tag = "len" => \/ h.len > MaxFrame
                                   \/ h.len % 4 # 0 \/ h.len < 12

(* The number of payload bytes of a frame, as the parser reports it.       *)
BodyOf(codec, f) ==
    IF f.means # "payload" THEN 0
    ELSE IF codec = "full" THEN f.head.len - 12 ELSE f.head.len
=============================================================================

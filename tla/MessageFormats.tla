--------------------------- MODULE MessageFormats ---------------------------
(***************************************************************************)
(* The formats of the MTProto stack that need no key: a container of       *)
(* several messages (mtproto/containers.py) and an unencrypted message     *)
(* (mtproto/envelope.py), encoded, perhaps changed on the way, and         *)
(* decoded; and the seen ids of MTProtoSessionState (mtproto/session.py).  *)
(*                                                                         *)
(* Data is a sequence of four-byte words, followed by up to three bytes    *)
(* more.  Numbers of eight bytes are two words, the lower one first.       *)
(***************************************************************************)
EXTENDS Integers, SequencesExt

CONSTANTS
    WordMod,        \* 2^32
    Constructor,    \* of msg_container (0x73f1f8dc)
    FormatIds,      \* message ids that are encoded
    SeqNos,         \* sequence numbers
    FormatBodies,   \* bodies, as data
    OuterIds,       \* container_msg_id, <<>> where it is None
    MaxContained,   \* max_contained_message_count (1024)
    MaxContainer,   \* max_container_size, in words
    MaxBatch,       \* bound: messages that are put into a container
    SeenLimits,     \* max_entries
    Seeable,        \* ids that are added to the seen ones
    MaxSeen         \* bound: calls of add_seen_message()

Word == 0 .. WordMod - 1
Data == [words : Seq(Word), odd : 0 .. 3]
LongWords == 0 .. WordMod * WordMod - 1

ASSUME FormatsAssumption ==
    /\ WordMod \in Nat \ {0} /\ Constructor \in Word
    /\ FormatIds \subseteq LongWords /\ SeqNos \subseteq LongWords
    /\ FormatBodies \subseteq Data
    \* What struct.pack("<I", ...) takes: lengths of bodies, and counts.
    /\ \A b \in FormatBodies : 4 * Len(b.words) \in Word
    /\ MaxContained \in Word
    /\ \A o \in OuterIds : o = <<>> \/ \E n \in LongWords : o = <<n>>
    /\ MaxContainer \in Nat /\ MaxBatch \in Nat
    /\ SeenLimits \subseteq Nat /\ Seeable \subseteq LongWords /\ MaxSeen \in Nat

VARIABLES
    job,            \* "container", "plain" or "seen"
    step,
    batch,          \* the messages to be encoded
    outer,          \* container_msg_id
    data, rdata,    \* what was encoded, and what arrives
    offset,         \* of the decoder, in words
    todo,           \* messages that it still expects
    found,          \* messages that it has decoded
    limit,          \* max_entries
    seenIds,        \* seen_message_ids
    added           \* the ids that were added, in order (history)

format == <<job, batch, outer, limit>>
ids    == <<seenIds, added>>
formatVars == <<format, step, data, rdata, offset, todo, found, ids>>

-----------------------------------------------------------------------------
(* struct.pack("<Q", n) and its inverse                                    *)
Pack(n) == <<n % WordMod, n \div WordMod>>
Unpack(lo, hi) == lo + WordMod * hi

ByteSize(words) == 4 * Len(words)

EncodedMessage(m) == Pack(m.id) \o Pack(m.seq) \o <<ByteSize(m.body)>> \o m.body

ContainerOf(messages) ==
    <<Constructor, Len(messages)>>
        \o FlattenSeq([k \in 1 .. Len(messages) |-> EncodedMessage(messages[k])])

PlainOf(m) == <<0, 0>> \o Pack(m.id) \o <<ByteSize(m.body)>> \o m.body

NestedMessage == [id : FormatIds, seq : SeqNos, body : FormatBodies]

FormatsInit ==
    /\ \/ /\ job = "container"
          /\ batch \in UNION {[1 .. k -> NestedMessage] : k \in 0 .. MaxBatch}
          /\ outer \in OuterIds
          /\ step = "encode" /\ limit = 0
       \/ /\ job = "plain"
          /\ batch \in [1 .. 1 -> [id : FormatIds, seq : {0}, body : FormatBodies]]
          /\ outer = <<>> /\ step = "encode" /\ limit = 0
       \/ /\ job = "seen"
          /\ batch = <<>> /\ outer = <<>> /\ step = "adding"
          /\ limit \in SeenLimits
    /\ data = <<>> /\ rdata = [words |-> <<>>, odd |-> 0]
    /\ offset = 0 /\ todo = 0 /\ found = <<>>
    /\ seenIds = {} /\ added = <<>>

(* The messages with their bodies as words, where they are words.          *)
Whole == [k \in 1 .. Len(batch) |-> [batch[k] EXCEPT !.body = @.words]]

(* What the encoders refuse.                                               *)
OddBody   == \E k \in 1 .. Len(batch) : batch[k].body.odd # 0
TooLarge  == Len(ContainerOf(Whole)) > MaxContainer
Unencoded == OddBody \/ (job = "container" /\ (Len(batch) > MaxContained \/ TooLarge))

(* encode_msg_container(), encode_unencrypted_message()                    *)
EncodeFormat ==
    /\ step = "encode"
    /\ IF Unencoded THEN step' = "not_encoded" /\ UNCHANGED data
       ELSE /\ step' = "on_its_way"
            /\ data' = IF job = "container" THEN ContainerOf(Whole) ELSE PlainOf(Whole[1])
    /\ UNCHANGED <<format, rdata, offset, todo, found, ids>>

(* It arrives as it is, with a word changed, cut, or with something behind *)
(* it.                                                                     *)
FormatArrives ==
    /\ step = "on_its_way"
    /\ step' = "arrived"
    /\ \/ rdata' = [words |-> data, odd |-> 0]
       \/ \E k \in 1 .. Len(data), w \in Word :
              rdata' = [words |-> [data EXCEPT ![k] = w], odd |-> 0]
       \/ \E k \in 0 .. Len(data) - 1, b \in {0, 1} :
              rdata' = [words |-> SubSeq(data, 1, k), odd |-> b]
       \/ rdata' = [words |-> data, odd |-> 1]
       \/ \E w \in {0, Constructor} : rdata' = [words |-> Append(data, w), odd |-> 0]
    /\ UNCHANGED <<format, data, offset, todo, found, ids>>

-----------------------------------------------------------------------------
received == rdata.words
BytesLeft(n) == ByteSize(received) + rdata.odd - 4 * n

(* The decoder raises.                                                     *)
RefuseFormat ==
    step' = "raised" /\ UNCHANGED <<offset, todo, found>>

DecodeHeader ==
    /\ job = "container" /\ step = "arrived"
    /\ IF BytesLeft(0) >= 8 /\ received[1] = Constructor /\ received[2] <= MaxContained
       THEN /\ step' = "decoding"
            /\ todo' = received[2] /\ offset' = 2
            /\ UNCHANGED found
       ELSE RefuseFormat
    /\ UNCHANGED <<format, data, rdata, ids>>

(* The gates of one round of the loop, once its header is there.           *)
NestedOK ==
    LET length == received[offset + 5] IN
    /\ length % 4 = 0
    /\ BytesLeft(offset + 5) >= length
    /\ outer # <<>> => Unpack(received[offset + 1], received[offset + 2]) < outer[1]
    /\ length >= 4 => received[offset + 6] # Constructor

(* One round of the loop.                                                  *)
DecodeNested ==
    /\ job = "container" /\ step = "decoding" /\ todo > 0
    /\ IF BytesLeft(offset) >= 20 /\ NestedOK
       THEN LET end == offset + 5 + received[offset + 5] \div 4 IN
            /\ found' = Append(found,
                   [id   |-> Unpack(received[offset + 1], received[offset + 2]),
                    seq  |-> Unpack(received[offset + 3], received[offset + 4]),
                    body |-> SubSeq(received, offset + 6, end)])
            /\ offset' = end /\ todo' = todo - 1
            /\ UNCHANGED step
       ELSE RefuseFormat
    /\ UNCHANGED <<format, data, rdata, ids>>

(* Fault: nobody looks whether something is left.                          *)
DecodeEnd_Trailing ==
    /\ job = "container" /\ step = "decoding" /\ todo = 0
    /\ step' = "decoded" /\ UNCHANGED <<offset, todo, found>>
    /\ UNCHANGED <<format, data, rdata, ids>>

DecodeEnd ==
    /\ job = "container" /\ step = "decoding" /\ todo = 0
    /\ IF BytesLeft(offset) = 0
       THEN step' = "decoded" /\ UNCHANGED <<offset, todo, found>>
       ELSE RefuseFormat
    /\ UNCHANGED <<format, data, rdata, ids>>

PlainOK ==
    /\ received[1] = 0 /\ received[2] = 0
    /\ received[5] % 4 = 0
    /\ BytesLeft(5) >= received[5]

(* decode_unencrypted_message(), which takes no notice of what is behind   *)
(* the body.                                                               *)
DecodePlain ==
    /\ job = "plain" /\ step = "arrived"
    /\ IF BytesLeft(0) >= 20 /\ PlainOK
       THEN /\ step' = "decoded"
            /\ found' = <<[id   |-> Unpack(received[3], received[4]),
                           seq  |-> 0,
                           body |-> SubSeq(received, 6, 5 + received[5] \div 4)]>>
            /\ UNCHANGED <<offset, todo>>
       ELSE RefuseFormat
    /\ UNCHANGED <<format, data, rdata, ids>>

-----------------------------------------------------------------------------
Smaller(s, n) == {m \in s : m < n}
Larger(s, n)  == {m \in s : m > n}

(* Fault: the older half is kept.                                          *)
Recent_Oldest(s, half) == {n \in s : Cardinality(Smaller(s, n)) < half}

(* sorted_msgs[-half:], which is the whole list if half is zero.           *)
Recent(s, half) ==
    IF half = 0 THEN s ELSE {n \in s : Cardinality(Larger(s, n)) < half}

(* add_seen_message()                                                      *)
AddSeen(n) ==
    /\ job = "seen"
    /\ Len(added) < MaxSeen
    /\ seenIds' = {n} \cup (IF Cardinality(seenIds) >= limit
                           THEN Recent(seenIds, limit \div 2) ELSE seenIds)
    /\ added' = Append(added, n)
    /\ UNCHANGED <<format, step, data, rdata, offset, todo, found>>

(* Every call has returned or raised: nothing more happens in the model.   *)
Returned ==
    /\ step \in {"not_encoded", "decoded", "raised"} \/ (job = "seen" /\ Len(added) = MaxSeen)
    /\ UNCHANGED formatVars

FormatsNext ==
    \/ EncodeFormat \/ FormatArrives
    \/ DecodeHeader \/ DecodeNested \/ DecodeEnd
    \/ DecodePlain
    \/ \E n \in Seeable : AddSeen(n)
    \/ Returned

FormatsSpec == FormatsInit /\ [][FormatsNext]_formatVars

-----------------------------------------------------------------------------
(* A container that decode_msg_container() may hold: ids below its own,    *)
(* and no other container in it.                                           *)
Holds(messages) ==
    \A k \in 1 .. Len(messages) :
        /\ outer # <<>> => messages[k].id < outer[1]
        /\ messages[k].body = <<>> \/ messages[k].body[1] # Constructor

(* Nothing is decoded but the exact encoding of what the decoder returns,  *)
(* whatever happened on the way; for an unencrypted message, this and      *)
(* anything behind it.  And what arrives as it was encoded is decoded to   *)
(* what was encoded, unless it may not be in a container.                  *)
FormatsExact ==
    /\ step = "decoded" /\ job = "container" =>
          /\ rdata = [words |-> ContainerOf(found), odd |-> 0]
          /\ Holds(found)
    /\ step = "decoded" /\ job = "plain" => IsPrefix(PlainOf(found[1]), rdata.words)
    /\ rdata = [words |-> data, odd |-> 0] =>
          /\ step = "decoded" => found = Whole
          /\ step = "raised" => job = "container" /\ ~Holds(Whole)

(* "ensures the set doesn't grow unbounded" and "keep the most recent      *)
(* elements" (MTProtoSessionState.add_seen_message), for two entries or    *)
(* more: the bound is never passed, and an id is forgotten only while half *)
(* as many ids as there may be entries, all above it, are remembered.      *)
SeenRecent ==
    job = "seen" /\ limit >= 2 =>
        /\ Cardinality(seenIds) <= limit
        /\ \A k \in 1 .. Len(added) :
               added[k] \in seenIds \/ Cardinality(Larger(seenIds, added[k])) >= limit \div 2
=============================================================================

--------------------------- MODULE TransportCodec ---------------------------
(***************************************************************************)
(* One transport codec object of mtproto/transports.py, between a peer     *)
(* that writes frames to a TCP stream and an application that feeds the    *)
(* codec whatever the socket returned.                                     *)
(*                                                                         *)
(* The stream is a sequence of positions.  The peer's frames lie end to    *)
(* end on it; TCP keeps bytes and order but not the boundaries of writes,  *)
(* so feed_data() is called with chunks cut anywhere.  _buffer holds the   *)
(* bytes from lo up to hi, and _offset counts the ones already parsed:     *)
(*                                                                         *)
(*        0 ......... lo ....... Pos = lo+offset ....... hi ....... sent   *)
(*        deleted     | parsed   | to be parsed          | in flight |     *)
(*                    |<---------- _buffer ------------->|                 *)
(*                                                                         *)
(* feed_data() is one call, but its loop is modelled step by step, since   *)
(* an exception inside it leaves the object between two steps.             *)
(***************************************************************************)
EXTENDS TransportFormats, Sequences

CONSTANTS
    RetainedLimits, \* values of limits.max_retained_incremental_buffer_size
    Payloads,       \* lengths of the payloads that are encoded
    Paddings,       \* lengths of the padding that the padded codec draws
    Quick,          \* values of request_quick_ack
    Marks,          \* values of header.mark that payloads may produce
    Fates,          \* what may happen to a frame of the full codec on its way
    ServerFrames,   \* codec -> the other frames that a server may send
    Inner,          \* what four bytes from the middle of a frame decode as
    Chunks,         \* how many bytes one feed_data() may bring
    MaxFrames,      \* bound: frames encoded or sent
    MaxResets       \* bound: reset() calls by the application

ASSUME CodecAssumption ==
    /\ RetainedLimits \subseteq Nat
    /\ Payloads \subseteq Nat
    /\ Paddings \subseteq 0 .. 15
    /\ Quick \subseteq BOOLEAN /\ Marks \subseteq BOOLEAN
    /\ Fates \subseteq {"intact", "corrupt", "lost"}
    /\ ServerFrames \in [Codecs -> SUBSET
           [means : Kinds \cup {"bad"}, head : Header, size : Nat \ {0}]]
    /\ Inner \subseteq Header
    /\ Chunks \subseteq Nat \ {0}
    /\ MaxFrames \in Nat
    /\ MaxResets \in Nat

VARIABLES
    codec,          \* the class of the object
    maxRetained,    \* its limit on the bytes kept between two calls
    inner,          \* an element of Inner, fixed
    wire,           \* the frames written to the stream
    sent,           \* bytes written to the stream
    encoded,        \* the peer's encode() calls: its out_seq_no, if full
    lo,             \* bytes deleted from the front of _buffer
    offset,         \* _offset
    hi,             \* bytes received
    inSeq,          \* in_seq_no of the full codec
    sentHeader,     \* _sent_header
    pc,             \* "parsing" inside feed_data() or feed_eof(), else "idle"
    events,         \* the local list of that call
    out,            \* the events returned to the application so far
    dropped,        \* events parsed but lost, their call having raised
    aligned,        \* no byte has been thrown away unparsed
    headers,        \* times connection_header() returned bytes
    resets          \* reset() calls by the application

fixed  == <<codec, maxRetained, inner>>
peer   == <<wire, sent, encoded>>
outer  == <<headers, resets>>
vars   == <<fixed, peer, lo, offset, hi, inSeq, sentHeader, pc, events, out,
            dropped, aligned, outer>>

Pos   == lo + offset
Avail == hi - Pos

(* What the bytes at position p decode as: the header of a frame if one    *)
(* starts there, something inside a frame if none does.                    *)
HeadAt(p) ==
    LET starts == {k \in 1 .. Len(wire) : wire[k].at = p}
    IN  IF starts = {} THEN inner
        ELSE wire[CHOOSE k \in starts : TRUE].head

ParseOne == Parse(codec, HeadAt(Pos), Avail, inSeq)

(* The event object, with the position it was read at.                     *)
EventAt(p, r) ==
    [kind |-> r.what, at |-> p, body |-> r.body,
     seq |-> IF codec = "full" /\ r.what = "payload" THEN inSeq ELSE 0]

-----------------------------------------------------------------------------
Init ==
    /\ codec \in Codecs
    /\ maxRetained \in RetainedLimits
    /\ inner \in Inner
    /\ wire = <<>> /\ sent = 0 /\ encoded = 0
    /\ lo = 0 /\ offset = 0 /\ hi = 0
    /\ inSeq = 0
    /\ sentHeader = FALSE
    /\ pc = "idle"
    /\ events = <<>> /\ out = <<>> /\ dropped = 0
    /\ aligned = TRUE
    /\ headers = 0 /\ resets = 0

Write(means, head, size) ==
    /\ wire' = Append(wire, [means |-> means, head |-> head, size |-> size,
                             at |-> sent])
    /\ sent' = sent + size

codecVars == <<lo, offset, hi, inSeq, sentHeader, pc, events, out, dropped,
               aligned>>

(* The peer, an object of the same class, encodes a payload and writes it. *)
(* Only the full framing numbers its frames and adds a checksum, so only   *)
(* there the model lets frames be damaged or lost.                         *)
Encode(n, pad, quick, mark, fate) ==
    /\ Len(wire) < MaxFrames /\ encoded < MaxFrames
    /\ Encodable(codec, n)
    /\ encoded' = encoded + 1
    /\ LET h == EncodedHead(codec, n, pad, quick, mark, encoded)
       IN  IF fate = "lost"
           THEN UNCHANGED <<wire, sent>>
           ELSE Write("payload", [h EXCEPT !.ok = (fate = "intact")],
                      EncodedSize(codec, n, pad))
    /\ UNCHANGED <<fixed, codecVars, outer>>

(* The peer is a server and writes a frame that encode() cannot make: a    *)
(* quick ack, a transport error, a malformed length.                       *)
ServerSend(s) ==
    /\ Len(wire) < MaxFrames
    /\ Write(s.means, s.head, s.size)
    /\ UNCHANGED <<fixed, encoded, codecVars, outer>>

(* connection_header(): the marker bytes the first time, then none.  The   *)
(* full codec has no marker.                                               *)
ConnectionHeader ==
    /\ pc = "idle"
    /\ sentHeader' = TRUE
    /\ headers' = IF sentHeader \/ codec = "full" THEN headers ELSE headers + 1
    /\ UNCHANGED <<fixed, peer, lo, offset, hi, inSeq, pc, events, out,
                   dropped, aligned, resets>>

FeedData(n) ==
    /\ pc = "idle"
    /\ hi + n <= sent
    /\ hi' = hi + n
    /\ pc' = "parsing"
    /\ events' = <<>>
    /\ UNCHANGED <<fixed, peer, lo, offset, inSeq, sentHeader, out, dropped,
                   aligned, outer>>

(* The socket signals EOF only after its last byte.                        *)
FeedEof ==
    /\ pc = "idle"
    /\ hi = sent
    /\ pc' = "parsing"
    /\ events' = <<>>
    /\ UNCHANGED <<fixed, peer, lo, offset, hi, inSeq, sentHeader, out,
                   dropped, aligned, outer>>

(* reset(): _buffer, _offset and _sent_header, but no sequence number.     *)
ClearBuffer ==
    /\ lo' = hi
    /\ offset' = 0
    /\ sentHeader' = FALSE

(* Fault: feed_data() returns after the first event.                       *)
ParseEvent_Once ==
    /\ pc = "parsing"
    /\ ParseOne.out = "event"
    /\ lo' = Pos + ParseOne.take
    /\ offset' = 0
    /\ out' = Append(out, EventAt(Pos, ParseOne))
    /\ inSeq' = IF codec = "full" /\ ParseOne.what = "payload"
                THEN inSeq + 1 ELSE inSeq
    /\ pc' = "idle"
    /\ UNCHANGED <<fixed, peer, hi, sentHeader, events, dropped, aligned, outer>>

(* The loop of feed_data(): _parse_one() returned an event.                *)
ParseEvent ==
    /\ pc = "parsing"
    /\ ParseOne.out = "event"
    /\ offset' = offset + ParseOne.take
    /\ events' = Append(events, EventAt(Pos, ParseOne))
    /\ inSeq' = IF codec = "full" /\ ParseOne.what = "payload"
                THEN inSeq + 1 ELSE inSeq
    /\ UNCHANGED <<fixed, peer, lo, hi, sentHeader, pc, out, dropped, aligned,
                   outer>>

(* An exception leaves feed_data(): the events parsed by this call go with *)
(* the local list, and what was consumed stays consumed.                   *)
Raised ==
    /\ pc' = "idle"
    /\ dropped' = dropped + Len(events)
    /\ events' = <<>>
    /\ UNCHANGED <<fixed, peer, hi, inSeq, out, outer>>

(* _parse_one() raised without touching the buffer: the read offset stays  *)
(* at the header that cannot be parsed, and _compact() is not reached.     *)
ParseRaise ==
    /\ pc = "parsing"
    /\ ParseOne.out = "raise" /\ ~Resets(ParseOne)
    /\ Raised
    /\ UNCHANGED <<lo, offset, sentHeader, aligned>>

(* _parse_one() of the full codec called reset() and raised.               *)
ParseRaiseReset ==
    /\ pc = "parsing"
    /\ ParseOne.out = "raise" /\ Resets(ParseOne)
    /\ Raised
    /\ ClearBuffer
    /\ aligned' = FALSE

(* _parse_one() returned None: _compact() deletes the parsed prefix and    *)
(* feed_data() returns the events ...                                      *)
CompactReturn ==
    /\ pc = "parsing"
    /\ ParseOne.out = "none"
    /\ Avail <= maxRetained
    /\ lo' = Pos
    /\ offset' = 0
    /\ pc' = "idle"
    /\ out' = out \o events
    /\ events' = <<>>
    /\ UNCHANGED <<fixed, peer, hi, inSeq, sentHeader, dropped, aligned, outer>>

(* Fault: the limit is compared with the buffer before compaction.         *)
CompactOverflow_BeforeDelete ==
    /\ pc = "parsing"
    /\ ParseOne.out = "none"
    /\ hi - lo > maxRetained
    /\ Raised
    /\ ClearBuffer
    /\ aligned' = FALSE

(* ... unless what is left exceeds the limit: then it resets and raises.   *)
CompactOverflow ==
    /\ pc = "parsing"
    /\ ParseOne.out = "none"
    /\ Avail > maxRetained
    /\ Raised
    /\ ClearBuffer
    /\ aligned' = FALSE

(* Fault: reset() starts the numbers of the full codec again.              *)
Reset_Numbers ==
    /\ pc = "idle"
    /\ resets < MaxResets
    /\ resets' = resets + 1
    /\ ClearBuffer
    /\ inSeq' = 0
    /\ aligned' = (aligned /\ Avail = 0)
    /\ UNCHANGED <<fixed, peer, hi, pc, events, out, dropped, headers>>

(* The application calls reset().                                          *)
Reset ==
    /\ pc = "idle"
    /\ resets < MaxResets
    /\ resets' = resets + 1
    /\ ClearBuffer
    /\ aligned' = (aligned /\ Avail = 0)
    /\ UNCHANGED <<fixed, peer, hi, inSeq, pc, events, out, dropped, headers>>

Peer ==
    \/ \E n \in Payloads, quick \in Quick,
          pad  \in IF codec = "padded" THEN Paddings ELSE {0},
          mark \in IF codec \in {"abridged", "padded"} THEN Marks ELSE {FALSE},
          fate \in IF codec = "full" THEN Fates ELSE {"intact"} :
            Encode(n, pad, quick, mark, fate)
    \/ \E s \in ServerFrames[codec] : ServerSend(s)

Loop == ParseEvent \/ ParseRaise \/ ParseRaiseReset \/ CompactReturn \/ CompactOverflow

Next ==
    \/ Peer
    \/ ConnectionHeader
    \/ \E n \in Chunks : FeedData(n)
    \/ FeedEof
    \/ Loop
    \/ Reset

Spec == Init /\ [][Next]_vars

(* The loop of feed_data() is code that runs to its end; the socket goes   *)
(* on returning what is in flight.  Nothing is assumed of the peer, nor of *)
(* when the application asks for the header, signals EOF or resets.        *)
FairSpec == Spec /\ WF_vars(Loop) /\ WF_vars(\E n \in Chunks : FeedData(n))

-----------------------------------------------------------------------------
Record ==
    [kind : Kinds, at : Nat, body : Nat, seq : Nat]

TypeOK ==
    /\ codec \in Codecs
    /\ maxRetained \in RetainedLimits
    /\ inner \in Header
    /\ wire \in Seq(Frame)
    /\ sent \in Nat /\ encoded \in Nat
    /\ lo \in Nat /\ offset \in Nat /\ hi \in Nat
    /\ Pos <= hi /\ hi <= sent
    /\ inSeq \in Nat
    /\ sentHeader \in BOOLEAN /\ aligned \in BOOLEAN
    /\ pc \in {"idle", "parsing"}
    /\ events \in Seq(Record) /\ out \in Seq(Record)
    /\ pc = "idle" => events = <<>>
    /\ dropped \in Nat /\ headers \in Nat /\ resets \in Nat

(* The frames that the codec has read, returned or lost.                   *)
Done == Len(out) + dropped + Len(events)

Start(k) == IF k \in 1 .. Len(wire) THEN wire[k].at ELSE sent

Reads(e, f) ==
    /\ e.kind = f.means
    /\ e.at = f.at
    /\ e.body = BodyOf(codec, f)

(* As long as no byte was thrown away and the parser met frames that it    *)
(* can tell apart, the read offset is at the start of the first frame not  *)
(* yet read, whatever the chunks were; the events of the current call are  *)
(* the frames before it, one for one and in order; and what was returned   *)
(* before is frames in order too, without a gap unless a call raised after *)
(* having parsed some (feed_data, _parse_one).                             *)
FramesInOrder ==
    aligned /\ (\A k \in 1 .. Len(wire) : wire[k].at < Pos => Plain(codec, wire[k])) =>
        /\ Done <= Len(wire)
        /\ Pos = Start(Done + 1)
        /\ \A i \in 1 .. Len(events) :
               Reads(events[i], wire[Len(out) + dropped + i])
        /\ \A i \in 1 .. Len(out) :
               \E k \in i .. i + dropped : Reads(out[i], wire[k])
        /\ \A i, j \in 1 .. Len(out) : i < j => out[i].at < out[j].at

(* Between two calls the parser stands where no more can be parsed: a      *)
(* frame that has arrived whole is never held back until the next chunk,   *)
(* unless it is one that makes _parse_one() raise.                         *)
NothingHeldBack ==
    /\ pc = "idle" => ParseOne.out # "event"
    /\ /\ pc = "idle" /\ aligned /\ ParseOne.out # "raise" /\ Done < Len(wire)
       /\ \A k \in 1 .. Len(wire) : wire[k].at <= Pos => Plain(codec, wire[k])
       => hi < wire[Done + 1].at + wire[Done + 1].size

(* What the parsers can wait for: the longest frame, less a byte.          *)
Longest == IF MaxFrame > 16 THEN MaxFrame ELSE 16

(* A call that did not raise leaves at most one incomplete frame behind,   *)
(* at offset 0, so the limit on the retained buffer is never reached when  *)
(* it leaves room for one (_compact; 2 MiB and 4 MiB by default).          *)
OneFrameRetained ==
    pc = "idle" /\ ParseOne.out # "raise" =>
        /\ offset = 0
        /\ hi - lo < Longest + 4

(* The marker of the connection is written once, unless the application    *)
(* itself resets the codec: no failure of the receiving side re-arms       *)
(* connection_header() behind its back, if the limit leaves that room.     *)
MarkerOnce ==
    codec # "full" /\ maxRetained >= Longest + 4 =>
        /\ headers <= resets + 1
        /\ ~sentHeader => headers <= resets

(* Whatever is lost, damaged or cleared, the full codec only lets a frame  *)
(* through whose checksum is right, and the numbers of those it returns    *)
(* never repeat or go back, across reset() too (in_seq_no).                *)
FullStrict ==
    codec = "full" =>
        LET all == out \o events IN
        \A j \in 1 .. Len(all) :
            all[j].kind = "payload" =>
                /\ HeadAt(all[j].at).ok
                /\ HeadAt(all[j].at).seq = all[j].seq
                /\ all[j].seq < inSeq
                /\ \A i \in 1 .. j - 1 :
                       all[i].kind = "payload" => all[i].seq < all[j].seq

(* docs/MTPROTO.md: the parsers work "without allocating unbounded         *)
(* buffers", and _compact() is there to enforce the limit.                 *)
BufferBounded == pc = "idle" => hi - lo <= maxRetained

(* The promise of the codec as seen by the application: a FIFO channel of  *)
(* frames.                                                                 *)
View(s) == [i \in 1 .. Len(s) |-> [kind |-> s[i].kind, body |-> s[i].body]]

Channel == INSTANCE FrameChannel WITH
    written  <- View([k \in 1 .. Len(wire) |->
                    [kind |-> wire[k].means, body |-> BodyOf(codec, wire[k])]]),
    received <- View(out)

ImplementsChannel == Channel!FairSpec
=============================================================================

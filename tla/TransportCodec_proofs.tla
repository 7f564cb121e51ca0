------------------------ MODULE TransportCodec_proofs ------------------------
(***************************************************************************)
(* Proofs about TransportCodec, for all limits, payloads, chunkings and    *)
(* faults.                                                                 *)
(***************************************************************************)
EXTENDS TransportCodec, SequenceTheorems, TLAPS

-----------------------------------------------------------------------------
(* The four parsers.                                                       *)

(* An event takes something, and no more than there is.                    *)
LEMMA ParseTakes ==
  ASSUME NEW c \in Codecs, NEW h \in Header, NEW avail \in Nat, NEW inSq \in Nat,
         Parse(c, h, avail, inSq).out = "event"
  PROVE  /\ Parse(c, h, avail, inSq).take \in 1 .. avail
         /\ Parse(c, h, avail, inSq).body \in Nat
         /\ Parse(c, h, avail, inSq).what \in Kinds
<1> USE FormatAssumption DEF Event, None, Raise, Kinds, Header, TooLong
<1>1. CASE c = "abridged"
    BY <1>1 DEF Parse, AbridgedParse
<1>2. CASE c = "intermediate"
    BY <1>2 DEF Parse, IntermediateParse
<1>3. CASE c = "padded"
    BY <1>3 DEF Parse, PaddedParse
<1>4. CASE c = "full"
  <2>1. Parse(c, h, avail, inSq) = Event("payload", h.len, h.len - 12)
            => h.len \in 12 .. avail
      BY <1>4 DEF Parse, FullParse
  <2>2. Parse(c, h, avail, inSq) \in {Event("error", 4, 0), Event("payload", h.len, h.len - 12)}
      BY <1>4 DEF Parse, FullParse
  <2>3. avail >= 4
      BY <1>4 DEF Parse, FullParse
  <2> QED
      BY <2>1, <2>2, <2>3
<1> QED
    BY <1>1, <1>2, <1>3, <1>4 DEF Codecs

(* A parser that waits, waits for one frame of a legal size.               *)
LEMMA ParseWaits ==
  ASSUME NEW c \in Codecs, NEW h \in Header, NEW avail \in Nat, NEW inSq \in Nat
  PROVE  /\ Parse(c, h, avail, inSq).out \in {"none", "event", "raise"}
         /\ Parse(c, h, avail, inSq).out = "none" => avail < Longest + 4
         /\ avail = 0 => Parse(c, h, avail, inSq).out = "none"
         /\ Resets(Parse(c, h, avail, inSq)) => c = "full"
<1> USE FormatAssumption DEF Event, None, Raise, Header, Longest, TooLong, Resets
<1>1. CASE c = "abridged"
    BY <1>1 DEF Parse, AbridgedParse
<1>2. CASE c = "intermediate"
    BY <1>2 DEF Parse, IntermediateParse
<1>3. CASE c = "padded"
    BY <1>3 DEF Parse, PaddedParse
<1>4. CASE c = "full"
    BY <1>4 DEF Parse, FullParse
<1> QED
    BY <1>1, <1>2, <1>3, <1>4 DEF Codecs

(* Without a byte to read, every parser waits.                             *)
LEMMA ParseNothing ==
  ASSUME NEW c \in Codecs, NEW h, NEW inSq
  PROVE  Parse(c, h, 0, inSq) = None
BY DEF Codecs, Parse, AbridgedParse, IntermediateParse, PaddedParse, FullParse

(* On a frame that can be told apart, a parser waits for the whole of it,  *)
(* and then takes it as what it is.                                        *)
LEMMA ParsePlain ==
  ASSUME NEW c \in Codecs, NEW f \in Frame, Plain(c, f),
         NEW avail \in Nat, NEW inSq \in Nat
  PROVE  LET r == Parse(c, f.head, avail, inSq)
         IN  /\ r.out = "event" => /\ r.what = f.means /\ r.take = f.size
                                   /\ r.body = BodyOf(c, f)
             /\ r.out = "none" => avail < f.size
<1> DEFINE h == f.head
<1>1. /\ h \in Header /\ h.len \in Nat /\ h.mark \in BOOLEAN
      /\ f.size \in Nat \ {0} /\ f.means \in Kinds \cup {"bad"}
    BY DEF Frame, Header
<1> USE <1>1, FormatAssumption DEF Event, None, Raise, Kinds, TooLong, BodyOf, Plain
<1>2. CASE c = "abridged"
    BY <1>2 DEF Parse, AbridgedParse
<1>3. CASE c = "intermediate"
    BY <1>3 DEF Parse, IntermediateParse
<1>4. CASE c = "padded"
    BY <1>4 DEF Parse, PaddedParse
<1>5. CASE c = "full"
    BY <1>5 DEF Parse, FullParse
<1> QED
    BY <1>2, <1>3, <1>4, <1>5 DEF Codecs

(* The full codec only takes a frame whose checksum and number are right.  *)
LEMMA ParseStrict ==
  ASSUME NEW h \in Header, NEW avail \in Nat, NEW inSq \in Nat,
         Parse("full", h, avail, inSq).out = "event",
         Parse("full", h, avail, inSq).what = "payload"
  PROVE  h.ok /\ h.seq = inSq
BY DEF Parse, FullParse, Event, None, Raise

-----------------------------------------------------------------------------
(* What is encoded is a header and takes some bytes.                       *)
LEMMA EncodedTypes ==
  ASSUME NEW c \in Codecs, NEW n \in Nat, NEW pad \in Nat, NEW quick \in BOOLEAN,
         NEW mark \in BOOLEAN, NEW sq \in Nat, NEW ok \in BOOLEAN
  PROVE  /\ [EncodedHead(c, n, pad, quick, mark, sq) EXCEPT !.ok = ok] \in Header
         /\ EncodedSize(c, n, pad) \in Nat \ {0}
<1>1. EncodedHead(c, n, pad, quick, mark, sq) \in Header
    BY DEF EncodedHead, Header
<1>2. [EncodedHead(c, n, pad, quick, mark, sq) EXCEPT !.ok = ok] \in Header
    BY <1>1 DEF Header
<1>3. EncodedSize(c, n, pad) \in Nat \ {0}
    BY DEF EncodedSize, Codecs
<1> QED
    BY <1>2, <1>3

(* The header at a position is a header.                                   *)
LEMMA HeadAtType ==
  ASSUME TypeOK, NEW p \in Nat
  PROVE  HeadAt(p) \in Header
<1> DEFINE starts == {k \in 1 .. Len(wire) : wire[k].at = p}
<1>1. CASE starts = {}
    BY <1>1 DEF HeadAt, TypeOK
<1>2. CASE starts # {}
  <2>1. (CHOOSE k \in starts : TRUE) \in starts
      BY <1>2
  <2>2. \A k \in 1 .. Len(wire) : wire[k] \in Frame
      BY DEF TypeOK
  <2>3. \A f \in Frame : f.head \in Header
      BY DEF Frame
  <2>4. HeadAt(p) = wire[CHOOSE k \in starts : TRUE].head
      BY <1>2 DEF HeadAt
  <2> HIDE DEF starts
  <2> QED
      BY <2>1, <2>2, <2>3, <2>4 DEF starts
<1> QED
    BY <1>1, <1>2

(* Parsing at the read offset, in any state of the codec.                  *)
LEMMA ParseOneType ==
  ASSUME TypeOK
  PROVE  /\ Pos \in Nat /\ Avail \in Nat /\ HeadAt(Pos) \in Header
         /\ ParseOne.out \in {"none", "event", "raise"}
         /\ ParseOne.out = "none" => Avail < Longest + 4
         /\ Avail = 0 => ParseOne.out = "none"
         /\ Resets(ParseOne) => codec = "full"
         /\ ParseOne.out = "event" =>
                /\ ParseOne.take \in 1 .. Avail
                /\ ParseOne.body \in Nat /\ ParseOne.what \in Kinds
                /\ EventAt(Pos, ParseOne) \in Record
<1>1. /\ Pos \in Nat /\ Avail \in Nat /\ HeadAt(Pos) \in Header
      /\ codec \in Codecs /\ inSeq \in Nat
  <2>1. Pos \in Nat
      BY DEF TypeOK, Pos
  <2>2. Avail \in Nat
      BY <2>1 DEF TypeOK, Avail
  <2> QED
      BY <2>1, <2>2, HeadAtType DEF TypeOK
<1>2. ParseOne = Parse(codec, HeadAt(Pos), Avail, inSeq)
    BY DEF ParseOne
<1>3. /\ ParseOne.out \in {"none", "event", "raise"}
      /\ ParseOne.out = "none" => Avail < Longest + 4
      /\ Avail = 0 => ParseOne.out = "none"
      /\ Resets(ParseOne) => codec = "full"
    BY <1>1, <1>2, ParseWaits
<1>4. ASSUME ParseOne.out = "event"
      PROVE  /\ ParseOne.take \in 1 .. Avail
             /\ ParseOne.body \in Nat /\ ParseOne.what \in Kinds
    BY <1>1, <1>2, <1>4, ParseTakes
<1>5. ASSUME ParseOne.out = "event" PROVE EventAt(Pos, ParseOne) \in Record
    BY <1>1, <1>4, <1>5 DEF EventAt, Record
<1> QED
    BY <1>1, <1>3, <1>4, <1>5

-----------------------------------------------------------------------------
(* The initial state is well-typed.                                        *)
LEMMA TypeInit == Init => TypeOK
<1> SUFFICES ASSUME Init PROVE TypeOK
    OBVIOUS
<1>1. codec \in Codecs /\ maxRetained \in RetainedLimits /\ inner \in Header
    BY CodecAssumption DEF Init
<1>2. /\ wire = <<>> /\ sent = 0 /\ encoded = 0 /\ lo = 0 /\ offset = 0 /\ hi = 0
      /\ inSeq = 0 /\ sentHeader = FALSE /\ pc = "idle" /\ events = <<>>
      /\ out = <<>> /\ dropped = 0 /\ aligned = TRUE /\ headers = 0 /\ resets = 0
    BY DEF Init
<1>3. wire \in Seq(Frame) /\ events \in Seq(Record) /\ out \in Seq(Record)
    BY <1>2, EmptySeq
<1>4. Pos <= hi /\ hi <= sent
    BY <1>2 DEF Pos
<1>5. /\ sent \in Nat /\ encoded \in Nat /\ lo \in Nat /\ offset \in Nat /\ hi \in Nat
      /\ inSeq \in Nat /\ dropped \in Nat /\ headers \in Nat /\ resets \in Nat
    BY <1>2
<1>6. sentHeader \in BOOLEAN /\ aligned \in BOOLEAN
    BY <1>2
<1>7. pc \in {"idle", "parsing"} /\ events = <<>>
    BY <1>2
<1> QED
    BY <1>1, <1>3, <1>4, <1>5, <1>6, <1>7, Zenon DEF TypeOK

(* All that a step of the peer does.                                       *)
LEMMA PeerStep ==
  ASSUME TypeOK, Peer
  PROVE  /\ UNCHANGED <<fixed, codecVars, outer>>
         /\ encoded' \in Nat
         /\ \/ UNCHANGED <<wire, sent>>
            \/ \E f \in Frame : /\ wire' = Append(wire, f)
                                /\ f.at = sent /\ sent' = sent + f.size
<1>1. ASSUME NEW n \in Payloads, NEW quick \in Quick,
             NEW pad \in IF codec = "padded" THEN Paddings ELSE {0},
             NEW mark \in IF codec \in {"abridged", "padded"} THEN Marks ELSE {FALSE},
             NEW fate \in IF codec = "full" THEN Fates ELSE {"intact"},
             Encode(n, pad, quick, mark, fate)
      PROVE  /\ UNCHANGED <<fixed, codecVars, outer>>
             /\ encoded' \in Nat
             /\ \/ UNCHANGED <<wire, sent>>
                \/ \E f \in Frame : /\ wire' = Append(wire, f)
                                    /\ f.at = sent /\ sent' = sent + f.size
  <2> DEFINE head == [EncodedHead(codec, n, pad, quick, mark, encoded)
                          EXCEPT !.ok = (fate = "intact")]
             size == EncodedSize(codec, n, pad)
  <2>1. head \in Header /\ size \in Nat \ {0}
    <3>1. /\ n \in Nat /\ pad \in Nat /\ quick \in BOOLEAN /\ mark \in BOOLEAN
          /\ encoded \in Nat /\ codec \in Codecs
      <4>1. encoded \in Nat /\ codec \in Codecs
          BY DEF TypeOK
      <4>2. n \in Nat /\ quick \in BOOLEAN
          BY CodecAssumption
      <4>3. pad \in Nat
        <5>1. \A x \in Paddings : x \in Nat
            BY CodecAssumption
        <5> QED
            BY <5>1
      <4>4. mark \in BOOLEAN
        <5>1. Marks \subseteq BOOLEAN
            BY CodecAssumption
        <5>2. mark \in Marks \/ mark = FALSE
            OBVIOUS
        <5> QED
            BY <5>1, <5>2, Zenon
      <4> QED
          BY <4>1, <4>2, <4>3, <4>4
    <3> QED
        BY <3>1, EncodedTypes, Zenon
  <2>2. /\ UNCHANGED <<fixed, codecVars, outer>> /\ encoded' = encoded + 1
        /\ IF fate = "lost" THEN UNCHANGED <<wire, sent>> ELSE Write("payload", head, size)
      BY <1>1 DEF Encode
  <2> HIDE DEF head, size
  <2>3. CASE fate = "lost"
      BY <2>2, <2>3 DEF TypeOK
  <2>4. CASE fate # "lost"
    <3> DEFINE f == [means |-> "payload", head |-> head, size |-> size, at |-> sent]
    <3>1. f \in Frame /\ f.at = sent /\ f.size = size
        BY <2>1 DEF TypeOK, Frame, Kinds
    <3>2. wire' = Append(wire, f) /\ sent' = sent + size
        BY <2>2, <2>4 DEF Write
    <3> HIDE DEF f
    <3> QED
        BY <2>2, <3>1, <3>2 DEF TypeOK
  <2> QED
      BY <2>3, <2>4
<1>2. ASSUME NEW s \in ServerFrames[codec], ServerSend(s)
      PROVE  /\ UNCHANGED <<fixed, codecVars, outer>>
             /\ encoded' \in Nat
             /\ \E f \in Frame : wire' = Append(wire, f)
                                /\ f.at = sent /\ sent' = sent + f.size
  <2>1. s \in [means : Kinds \cup {"bad"}, head : Header, size : Nat \ {0}]
      BY CodecAssumption DEF TypeOK
  <2> DEFINE f == [means |-> s.means, head |-> s.head, size |-> s.size, at |-> sent]
  <2>2. f \in Frame /\ f.at = sent /\ f.size = s.size
      BY <2>1 DEF TypeOK, Frame
  <2>3. wire' = Append(wire, f) /\ sent' = sent + s.size
      BY <1>2 DEF ServerSend, Write
  <2> HIDE DEF f
  <2> QED
      BY <1>2, <2>2, <2>3 DEF ServerSend, TypeOK
<1> QED
    BY <1>1, <1>2 DEF Peer

-----------------------------------------------------------------------------
(* The types are kept by every step.                                       *)
LEMMA TypeStep == TypeOK /\ [Next]_vars => TypeOK'
<1> SUFFICES ASSUME TypeOK, [Next]_vars PROVE TypeOK'
    OBVIOUS
<1>1. CASE Peer
  <2>1. UNCHANGED <<fixed, codecVars, outer>> /\ encoded' \in Nat
      BY <1>1, PeerStep
  <2>2. wire' \in Seq(Frame) /\ sent' \in Nat /\ hi <= sent'
    <3>1. wire \in Seq(Frame) /\ sent \in Nat /\ hi \in Nat /\ hi <= sent
        BY DEF TypeOK
    <3>2. CASE UNCHANGED <<wire, sent>>
        BY <3>1, <3>2
    <3>3. ASSUME NEW f \in Frame, wire' = Append(wire, f), sent' = sent + f.size
          PROVE  wire' \in Seq(Frame) /\ sent' \in Nat /\ hi <= sent'
      <4>1. f.size \in Nat
          BY DEF Frame
      <4> QED
          BY <3>1, <3>3, <4>1, AppendProperties
    <3> QED
        BY <1>1, <3>2, <3>3, PeerStep
  <2> QED
      BY <2>1, <2>2 DEF TypeOK, fixed, codecVars, outer, Pos
<1>2. CASE ConnectionHeader
    BY <1>2 DEF ConnectionHeader, TypeOK, fixed, peer, Pos
<1>3. ASSUME NEW n \in Chunks, FeedData(n) PROVE TypeOK'
  <2>1. n \in Nat
      BY CodecAssumption
  <2> QED
      BY <1>3, <2>1, EmptySeq DEF FeedData, TypeOK, fixed, peer, outer, Pos
<1>4. CASE FeedEof
    BY <1>4, EmptySeq DEF FeedEof, TypeOK, fixed, peer, outer, Pos
<1>5. CASE ParseEvent
  <2>1. /\ ParseOne.take \in 1 .. Avail /\ EventAt(Pos, ParseOne) \in Record
      BY <1>5, ParseOneType DEF ParseEvent
  <2>2. offset' \in Nat /\ Pos' <= hi'
      BY <1>5, <2>1 DEF ParseEvent, TypeOK, Pos, Avail
  <2>3. events' \in Seq(Record)
      BY <1>5, <2>1, AppendProperties DEF ParseEvent, TypeOK
  <2>4. inSeq' \in Nat
      BY <1>5 DEF ParseEvent, TypeOK
  <2> QED
      BY <1>5, <2>2, <2>3, <2>4 DEF ParseEvent, TypeOK, fixed, peer, outer
<1>6. ASSUME Raised PROVE /\ codec' \in Codecs /\ maxRetained' \in RetainedLimits
                          /\ inner' \in Header /\ wire' \in Seq(Frame)
                          /\ sent' \in Nat /\ encoded' \in Nat /\ inSeq' \in Nat
                          /\ pc' = "idle" /\ events' = <<>> /\ events' \in Seq(Record)
                          /\ out' \in Seq(Record) /\ dropped' \in Nat
                          /\ headers' \in Nat /\ resets' \in Nat
                          /\ hi' = hi /\ sent' = sent
  <2>1. dropped' \in Nat
      BY <1>6, LenProperties DEF Raised, TypeOK
  <2>2. events' \in Seq(Record)
      BY <1>6, EmptySeq DEF Raised
  <2> QED
      BY <1>6, <2>1, <2>2 DEF Raised, TypeOK, fixed, peer, outer
<1>7. ASSUME ClearBuffer, hi' = hi, sent' = sent
      PROVE  /\ lo' \in Nat /\ offset' \in Nat /\ hi' \in Nat /\ Pos' <= hi' /\ hi' <= sent'
             /\ sentHeader' \in BOOLEAN
  <2>1. lo' = hi /\ offset' = 0 /\ sentHeader' = FALSE
      BY <1>7 DEF ClearBuffer
  <2>2. hi \in Nat /\ hi <= sent
      BY DEF TypeOK
  <2>3. sentHeader' \in BOOLEAN
      BY <2>1
  <2> QED
      BY <1>7, <2>1, <2>2, <2>3 DEF Pos
<1>8. CASE ParseRaise
    BY <1>6, <1>8 DEF ParseRaise, TypeOK, Pos
<1>9. CASE ParseRaiseReset \/ CompactOverflow
  <2>1. Raised /\ ClearBuffer /\ aligned' = FALSE
      BY <1>9 DEF ParseRaiseReset, CompactOverflow
  <2> QED
      BY <1>6, <1>7, <2>1 DEF TypeOK
<1>10. CASE CompactReturn
  <2>1. lo' \in Nat /\ offset' \in Nat /\ Pos' <= hi'
      BY <1>10 DEF CompactReturn, TypeOK, Pos
  <2>2. events' \in Seq(Record) /\ out' \in Seq(Record)
      BY <1>10, EmptySeq, ConcatProperties DEF CompactReturn, TypeOK
  <2> QED
      BY <1>10, <2>1, <2>2 DEF CompactReturn, TypeOK, fixed, peer, outer
<1>12. CASE Reset
  <2>1. ClearBuffer /\ hi' = hi /\ sent' = sent /\ resets' \in Nat
      BY <1>12 DEF Reset, TypeOK, peer
  <2>2. aligned' \in BOOLEAN
      BY <1>12 DEF Reset
  <2> QED
      BY <1>7, <1>12, <2>1, <2>2 DEF Reset, TypeOK, fixed, peer
<1>11. CASE UNCHANGED vars
    BY <1>11 DEF vars, fixed, peer, outer, TypeOK, Pos
<1> QED
    BY <1>1, <1>2, <1>3, <1>4, <1>5, <1>8, <1>9, <1>10, <1>11, <1>12 DEF Next, Loop

(* The read offset never passes what was received, nor what was received   *)
(* what was written: TypeOK, for all constants (feed_data, _compact).      *)
THEOREM TypeCorrect == Spec => []TypeOK
<1> QED
    BY TypeInit, TypeStep, PTL DEF Spec

-----------------------------------------------------------------------------
(* The frames on the stream lie end to end.                                *)
Laid ==
    /\ Start(1) = 0
    /\ \A k \in 1 .. Len(wire) : wire[k].at + wire[k].size = Start(k + 1)
    /\ \A k, m \in 1 .. Len(wire) : k < m => wire[k].at + wire[k].size <= wire[m].at
    /\ \A k \in 1 .. Len(wire) : wire[k].at + wire[k].size <= sent

(* The frames and their places are what TypeOK says.                       *)
LEMMA WireTypes ==
  ASSUME TypeOK
  PROVE  /\ wire \in Seq(Frame) /\ Len(wire) \in Nat /\ sent \in Nat
         /\ \A k \in 1 .. Len(wire) : /\ wire[k] \in Frame /\ wire[k].at \in Nat
                                     /\ wire[k].size \in Nat /\ wire[k].size > 0
<1>1. wire \in Seq(Frame) /\ sent \in Nat
    BY DEF TypeOK
<1>2. Len(wire) \in Nat /\ \A k \in 1 .. Len(wire) : wire[k] \in Frame
    BY <1>1, LenProperties, ElementOfSeq
<1>3. \A f \in Frame : f.at \in Nat /\ f.size \in Nat /\ f.size > 0
    BY DEF Frame
<1> QED
    BY <1>1, <1>2, <1>3

(* What a step may do to the stream: nothing, or append one frame to it.   *)
LEMMA WireStep ==
  ASSUME TypeOK, [Next]_vars
  PROVE  /\ UNCHANGED fixed
         /\ \/ UNCHANGED <<wire, sent>>
            \/ Peer /\ \E f \in Frame : /\ wire' = Append(wire, f)
                                        /\ f.at = sent /\ sent' = sent + f.size
<1>1. CASE Peer
    BY <1>1, PeerStep, Zenon
<1>2. CASE ~Peer
  <2>1. UNCHANGED <<fixed, peer>>
      BY <1>2 DEF Next, ConnectionHeader, FeedData, FeedEof, Loop, ParseEvent, ParseRaise,
                  ParseRaiseReset, CompactReturn, CompactOverflow, Raised, Reset, vars
  <2> QED
      BY <2>1 DEF peer
<1> QED
    BY <1>1, <1>2

(* A frame more is laid behind the others.                                 *)
LEMMA LaidStep == TypeOK /\ Laid /\ [Next]_vars => Laid'
<1> SUFFICES ASSUME TypeOK, Laid, [Next]_vars PROVE Laid'
    OBVIOUS
<1>1. CASE UNCHANGED <<wire, sent>>
    BY <1>1 DEF Laid, Start
<1>2. ASSUME NEW f \in Frame, wire' = Append(wire, f), f.at = sent, sent' = sent + f.size
      PROVE  Laid'
  <2>1. /\ wire \in Seq(Frame) /\ sent \in Nat /\ Len(wire) \in Nat
        /\ f.size \in Nat /\ f.size > 0 /\ f.at \in Nat
        /\ \A k \in 1 .. Len(wire) : wire[k].at \in Nat /\ wire[k].size \in Nat
    <3>1. f.size \in Nat /\ f.size > 0 /\ f.at \in Nat
        BY DEF Frame
    <3> QED
        BY <3>1, WireTypes
  <2>2. /\ Len(wire') = Len(wire) + 1
        /\ \A k \in 1 .. Len(wire) : wire'[k] = wire[k]
        /\ wire'[Len(wire) + 1] = f
      BY <1>2, <2>1, AppendProperties
  <2>3. \A k \in 1 .. Len(wire) + 1 : Start(k)' = Start(k)
      BY <1>2, <2>1, <2>2 DEF Start
  <2>5. Start(1)' = 0
      BY <2>1, <2>3 DEF Laid
  <2>6. ASSUME NEW k \in 1 .. Len(wire')
        PROVE  wire'[k].at + wire'[k].size = Start(k + 1)'
    <3>1. CASE k <= Len(wire)
      <4>1. Start(k + 1)' = Start(k + 1)
          BY <2>1, <2>3, <3>1
      <4> QED
          BY <2>1, <2>2, <3>1, <4>1 DEF Laid
    <3>2. CASE k = Len(wire) + 1
      <4>1. k + 1 = Len(wire) + 2
          BY <2>1, <3>2
      <4>2. Start(k + 1)' = sent'
          BY <2>1, <2>2, <4>1 DEF Start
      <4>3. wire'[k] = f
          BY <2>2, <3>2
      <4> QED
          BY <1>2, <4>2, <4>3
    <3> QED
        BY <2>1, <2>2, <3>1, <3>2
  <2>7. ASSUME NEW k \in 1 .. Len(wire'), NEW m \in 1 .. Len(wire'), k < m
        PROVE  wire'[k].at + wire'[k].size <= wire'[m].at
    <3>1. k \in 1 .. Len(wire) /\ wire'[k] = wire[k]
        BY <2>1, <2>2, <2>7
    <3>2. CASE m \in 1 .. Len(wire)
      <4>1. wire[k].at + wire[k].size <= wire[m].at
          BY <2>7, <3>1, <3>2 DEF Laid
      <4> QED
          BY <2>2, <3>1, <3>2, <4>1
    <3>3. CASE m = Len(wire) + 1
      <4>1. wire[k].at + wire[k].size <= sent
          BY <3>1 DEF Laid
      <4>2. wire'[m] = f
          BY <2>2, <3>3
      <4> QED
          BY <1>2, <3>1, <4>1, <4>2
    <3> QED
        BY <2>1, <2>2, <3>2, <3>3
  <2>8. ASSUME NEW k \in 1 .. Len(wire')
        PROVE  wire'[k].at + wire'[k].size <= sent'
      BY <1>2, <2>1, <2>2 DEF Laid
  <2> QED
      BY <2>5, <2>6, <2>7, <2>8 DEF Laid
<1> QED
    BY <1>1, <1>2, WireStep

(* The header at the start of a frame is that frame's.                     *)
LEMMA HeadOfFrame ==
  ASSUME TypeOK, Laid, NEW k \in 1 .. Len(wire)
  PROVE  HeadAt(wire[k].at) = wire[k].head
<1> DEFINE starts == {m \in 1 .. Len(wire) : wire[m].at = wire[k].at}
<1>1. \A m \in 1 .. Len(wire) : wire[m].at \in Nat /\ wire[m].size \in Nat \ {0}
    BY WireTypes
<1>2. \A m \in starts : m = k
  <2> SUFFICES ASSUME NEW m \in starts, m # k PROVE FALSE
      OBVIOUS
  <2>1. m < k \/ k < m
      BY WireTypes
  <2> QED
      BY <1>1, <2>1 DEF Laid
<1>3. starts = {k}
    BY <1>2
<1>4. (CHOOSE m \in starts : TRUE) = k
    BY <1>3
<1>5. HeadAt(wire[k].at) = IF starts = {} THEN inner ELSE wire[CHOOSE m \in starts : TRUE].head
    BY DEF HeadAt
<1> HIDE DEF starts
<1> QED
    BY <1>3, <1>4, <1>5

(* What has been written does not change.                                  *)
LEMMA HeadStays ==
  ASSUME TypeOK, [Next]_vars, NEW p \in Nat, p < sent
  PROVE  HeadAt(p)' = HeadAt(p)
<1>1. inner' = inner
    BY WireStep DEF fixed
<1>2. CASE UNCHANGED <<wire, sent>>
    BY <1>1, <1>2 DEF HeadAt
<1>3. ASSUME NEW f \in Frame, wire' = Append(wire, f), f.at = sent
      PROVE  HeadAt(p)' = HeadAt(p)
  <2> DEFINE starts == {k \in 1 .. Len(wire) : wire[k].at = p}
             later  == {k \in 1 .. Len(wire') : wire'[k].at = p}
  <2>1. wire \in Seq(Frame) /\ Len(wire) \in Nat
      BY DEF TypeOK
  <2>2. /\ Len(wire') = Len(wire) + 1
        /\ \A k \in 1 .. Len(wire) : wire'[k] = wire[k]
        /\ wire'[Len(wire) + 1] = f
      BY <1>3, <2>1, AppendProperties
  <2>3. later = starts
      BY <1>3, <2>1, <2>2
  <2>4. HeadAt(p) = IF starts = {} THEN inner ELSE wire[CHOOSE k \in starts : TRUE].head
      BY DEF HeadAt
  <2>5. HeadAt(p)' = IF later = {} THEN inner' ELSE wire'[CHOOSE k \in later : TRUE].head
      BY DEF HeadAt
  <2>6. starts # {} => (CHOOSE k \in starts : TRUE) \in 1 .. Len(wire)
      OBVIOUS
  <2> HIDE DEF starts, later
  <2> QED
      BY <1>1, <2>2, <2>3, <2>4, <2>5, <2>6
<1> QED
    BY <1>2, <1>3, WireStep

(* ... so that what _parse_one() makes of it only changes with the offset, *)
(* the bytes received and the sequence number.                             *)
LEMMA SameParse ==
  ASSUME TypeOK, TypeOK', [Next]_vars, UNCHANGED <<hi, inSeq>>, Pos' = Pos
  PROVE  Avail' = Avail /\ ParseOne'.out = ParseOne.out
<1>1. Avail' = Avail /\ Avail \in Nat /\ Pos \in Nat /\ codec' = codec
    BY ParseOneType, WireStep DEF Avail, fixed
<1>2. CASE Avail = 0
  <2>1. ParseOne' = Parse(codec', HeadAt(Pos)', Avail', inSeq')
      BY DEF ParseOne
  <2>2. codec' \in Codecs
      BY <1>1 DEF TypeOK
  <2> QED
      BY <1>1, <1>2, <2>1, <2>2, ParseNothing DEF ParseOne, TypeOK, None
<1>3. CASE Avail # 0
  <2>1. PICK p \in Nat : p = Pos
      BY <1>1
  <2>2. p < sent
      BY <1>1, <1>3, <2>1 DEF Avail, TypeOK
  <2>3. HeadAt(p)' = HeadAt(p)
      BY <2>2, HeadStays
  <2>4. ParseOne = Parse(codec, HeadAt(p), Avail, inSeq)
      BY <2>1 DEF ParseOne
  <2>5. ParseOne' = Parse(codec', HeadAt(p)', Avail', inSeq')
      BY <2>1 DEF ParseOne, HeadAt
  <2> QED
      BY <1>1, <2>3, <2>4, <2>5
<1> QED
    BY <1>2, <1>3

-----------------------------------------------------------------------------
(* Between two calls, the parser has either nothing more to parse and a    *)
(* compacted buffer, or a header before it on which it raises.             *)
IdleInv ==
    pc = "idle" => \/ ParseOne.out = "none" /\ offset = 0
                   \/ ParseOne.out = "raise"

(* Before the first byte there is nothing to parse.                        *)
LEMMA IdleInit == Init => IdleInv
<1> SUFFICES ASSUME Init PROVE IdleInv
    OBVIOUS
<1>1. codec \in Codecs /\ offset = 0 /\ Avail = 0
    BY DEF Init, Avail, Pos
<1> QED
    BY <1>1, ParseNothing DEF IdleInv, ParseOne, None

(* Nothing is left to parse after the buffer was cleared.                  *)
LEMMA ClearedIdle ==
  ASSUME TypeOK', ClearBuffer, hi' = hi
  PROVE  IdleInv'
<1>1. offset' = 0 /\ Avail' = 0 /\ codec' \in Codecs
  <2>1. lo' = hi' /\ offset' = 0 /\ hi' \in Nat /\ codec' \in Codecs
      BY DEF ClearBuffer, TypeOK
  <2> QED
      BY <2>1 DEF Avail, Pos
<1>2. ParseOne' = Parse(codec', HeadAt(Pos)', Avail', inSeq')
    BY DEF ParseOne
<1>3. ParseOne'.out = "none"
    BY <1>1, <1>2, ParseNothing DEF None
<1> QED
    BY <1>1, <1>3 DEF IdleInv

(* No step leaves an event unparsed and the parser idle.                   *)
LEMMA IdleStep == TypeOK /\ TypeOK' /\ IdleInv /\ [Next]_vars => IdleInv'
<1> SUFFICES ASSUME TypeOK, TypeOK', IdleInv, [Next]_vars PROVE IdleInv'
    OBVIOUS
<1>1. ASSUME UNCHANGED <<lo, offset, hi, inSeq, pc>> PROVE IdleInv'
    BY <1>1, SameParse DEF IdleInv, Pos
<1>2. CASE Peer
    BY <1>1, <1>2, PeerStep DEF codecVars
<1>3. CASE ConnectionHeader
    BY <1>1, <1>3 DEF ConnectionHeader
<1>4. ASSUME NEW n \in Chunks, FeedData(n) PROVE IdleInv'
    BY <1>4 DEF FeedData, IdleInv
<1>5. CASE FeedEof
    BY <1>5 DEF FeedEof, IdleInv
<1>6. CASE ParseEvent
    BY <1>6 DEF ParseEvent, IdleInv
<1>7. CASE ParseRaise
  <2>1. UNCHANGED <<lo, offset, hi, inSeq>> /\ ParseOne.out = "raise"
      BY <1>7 DEF ParseRaise, Raised
  <2> QED
      BY <2>1, SameParse DEF IdleInv, Pos
<1>8. CASE ParseRaiseReset \/ CompactOverflow \/ Reset
    BY <1>8, ClearedIdle DEF ParseRaiseReset, CompactOverflow, Reset, Raised
<1>9. CASE CompactReturn
  <2>1. UNCHANGED <<hi, inSeq>> /\ Pos' = Pos /\ offset' = 0 /\ ParseOne.out = "none"
    <3>1. Pos \in Nat
        BY ParseOneType
    <3> QED
        BY <1>9, <3>1 DEF CompactReturn, Pos
  <2> QED
      BY <2>1, SameParse DEF IdleInv
<1>10. CASE UNCHANGED vars
    BY <1>1, <1>10 DEF vars
<1> QED
    BY <1>2, <1>3, <1>4, <1>5, <1>6, <1>7, <1>8, <1>9, <1>10 DEF Next, Loop

(* That holds in every reachable state (the loop of feed_data()).          *)
LEMMA IdleAlways == Spec => []IdleInv
<1>1. TypeOK /\ IdleInv /\ [Next]_vars => TypeOK' /\ IdleInv'
    BY TypeStep, IdleStep
<1> QED
    BY <1>1, TypeInit, IdleInit, PTL DEF Spec

(* A call that did not raise leaves less than one frame behind, at offset  *)
(* 0: OneFrameRetained (_compact, feed_data).                              *)
THEOREM OneFrameAlwaysRetained == Spec => []OneFrameRetained
<1>1. TypeOK /\ IdleInv => OneFrameRetained
  <2> SUFFICES ASSUME TypeOK, IdleInv, pc = "idle", ParseOne.out # "raise"
               PROVE  offset = 0 /\ hi - lo < Longest + 4
      BY DEF OneFrameRetained
  <2>1. ParseOne.out = "none" /\ offset = 0
      BY DEF IdleInv
  <2>2. Avail < Longest + 4
      BY <2>1, ParseOneType
  <2>3. Avail = hi - lo
      BY <2>1 DEF Avail, Pos, TypeOK
  <2> QED
      BY <2>1, <2>2, <2>3
<1> QED
    BY <1>1, TypeCorrect, IdleAlways, PTL

-----------------------------------------------------------------------------
(* The marker is written once between two resets by the application:       *)
(* MarkerOnce (connection_header, reset, and every caller of reset).       *)
THEOREM AlwaysMarkerOnce == Spec => []MarkerOnce
<1>1. Init => MarkerOnce
    BY DEF Init, MarkerOnce
<1>2. TypeOK /\ MarkerOnce /\ [Next]_vars => MarkerOnce'
  <2> SUFFICES ASSUME TypeOK, MarkerOnce, [Next]_vars,
                      codec # "full", maxRetained >= Longest + 4
               PROVE  /\ headers' <= resets' + 1
                      /\ ~sentHeader' => headers' <= resets'
      BY WireStep DEF MarkerOnce, fixed
  <2>1. headers <= resets + 1 /\ (~sentHeader => headers <= resets)
      BY DEF MarkerOnce
  <2>2. headers \in Nat /\ resets \in Nat
      BY DEF TypeOK
  <2>3. CASE Reset
    <3>1. headers' = headers /\ resets' = resets + 1
        BY <2>3 DEF Reset
    <3> QED
        BY <2>1, <2>2, <3>1
  <2>4. CASE ConnectionHeader
    <3>1. /\ sentHeader' = TRUE /\ resets' = resets
          /\ headers' = IF sentHeader THEN headers ELSE headers + 1
        BY <2>4 DEF ConnectionHeader
    <3> QED
        BY <2>1, <2>2, <3>1
  <2>5. ~ParseRaiseReset
      BY ParseOneType DEF ParseRaiseReset
  <2>6. ~CompactOverflow
    <3> SUFFICES ASSUME ParseOne.out = "none", Avail > maxRetained PROVE FALSE
        BY DEF CompactOverflow
    <3>1. Avail < Longest + 4 /\ Avail \in Nat
        BY ParseOneType
    <3>2. maxRetained \in Nat /\ Longest \in Nat
        BY CodecAssumption, FormatAssumption DEF TypeOK, Longest
    <3> QED
        BY <3>1, <3>2
  <2>7. CASE ~Reset /\ ~ConnectionHeader
    <3>1. UNCHANGED <<sentHeader, headers, resets>>
      <4>1. CASE Peer
          BY <4>1, PeerStep DEF codecVars, outer
      <4>2. CASE ~Peer
          BY <2>5, <2>6, <2>7, <4>2
             DEF Next, Loop, FeedData, FeedEof, ParseEvent, ParseRaise, CompactReturn,
                 Raised, outer, vars
      <4> QED
          BY <4>1, <4>2
    <3> QED
        BY <2>1, <3>1
  <2> QED
      BY <2>3, <2>4, <2>7
<1> QED
    BY <1>1, <1>2, TypeInit, TypeStep, PTL DEF Spec

-----------------------------------------------------------------------------
(* What the full codec has read, in order, and FullStrict with it: each    *)
(* event lies in what was written.                                         *)
All == out \o events

Sound(j) ==
    /\ All[j].at \in Nat /\ All[j].at < sent
    /\ All[j].kind = "payload" =>
           /\ HeadAt(All[j].at).ok
           /\ HeadAt(All[j].at).seq = All[j].seq
           /\ All[j].seq < inSeq
           /\ \A i \in 1 .. j - 1 : All[i].kind = "payload" => All[i].seq < All[j].seq

SoundInv == codec = "full" => \A j \in 1 .. Len(All) : Sound(j)

(* Indices, numbers and positions of what has been read.                   *)
LEMMA AllTypes ==
  ASSUME TypeOK
  PROVE  /\ out \in Seq(Record) /\ events \in Seq(Record) /\ All \in Seq(Record)
         /\ Len(All) \in Nat /\ Len(All) = Len(out) + Len(events)
         /\ Len(out) \in Nat /\ Len(events) \in Nat /\ inSeq \in Nat
         /\ \A j \in 1 .. Len(All) : /\ All[j] \in Record
                                    /\ All[j].at \in Nat /\ All[j].seq \in Nat
         /\ \A j \in 1 .. Len(out) : All[j] = out[j]
<1>1. out \in Seq(Record) /\ events \in Seq(Record) /\ inSeq \in Nat
    BY DEF TypeOK
<1>2. Len(out) \in Nat /\ Len(events) \in Nat
    BY <1>1, LenProperties
<1>3. /\ All \in Seq(Record) /\ Len(All) = Len(out) + Len(events)
      /\ \A j \in 1 .. Len(out) : All[j] = out[j]
    BY <1>1, <1>2, ConcatProperties DEF All
<1>4. \A j \in 1 .. Len(All) : All[j] \in Record
    BY <1>3, ElementOfSeq
<1>5. \A r \in Record : r.at \in Nat /\ r.seq \in Nat
    BY DEF Record
<1> QED
    BY <1>1, <1>2, <1>3, <1>4, <1>5

(* A sound event stays sound as long as it stays where it is.              *)
LEMMA SoundStays ==
  ASSUME TypeOK, TypeOK', [Next]_vars, NEW j \in 1 .. Len(All), Sound(j),
         inSeq' >= inSeq, \A i \in 1 .. j : All'[i] = All[i]
  PROVE  Sound(j)'
<1>1. All'[j] = All[j] /\ \A i \in 1 .. j - 1 : All'[i] = All[i]
    BY AllTypes
<1>2. PICK p \in Nat : p = All[j].at
    BY AllTypes
<1>3. p < sent
    BY <1>2 DEF Sound
<1>4. HeadAt(p)' = HeadAt(p)
    BY <1>3, HeadStays
<1>5. sent' >= sent
  <2>1. ASSUME NEW f \in Frame, sent' = sent + f.size PROVE sent' >= sent
    <3>1. f.size \in Nat
        BY DEF Frame
    <3> QED
        BY <2>1, <3>1, WireTypes
  <2> QED
      BY <2>1, WireStep, WireTypes
<1>6. p < sent' /\ All'[j].at = p
  <2>1. sent \in Nat /\ sent' \in Nat
      BY DEF TypeOK
  <2> QED
      BY <1>1, <1>2, <1>3, <1>5, <2>1
<1>7. ASSUME All[j].kind = "payload"
      PROVE  /\ HeadAt(p)'.ok /\ HeadAt(p)'.seq = All[j].seq /\ All[j].seq < inSeq'
             /\ \A i \in 1 .. j - 1 : All[i].kind = "payload" => All[i].seq < All[j].seq
  <2>1. HeadAt(p).ok /\ HeadAt(p).seq = All[j].seq
      BY <1>2, <1>7 DEF Sound
  <2>2. All[j].seq < inSeq /\ inSeq \in Nat /\ inSeq' \in Nat /\ All[j].seq \in Nat
      BY <1>7, AllTypes DEF Sound, TypeOK
  <2>3. \A i \in 1 .. j - 1 : All[i].kind = "payload" => All[i].seq < All[j].seq
      BY <1>7 DEF Sound
  <2> QED
      BY <1>4, <2>1, <2>2, <2>3
<1>8. HeadAt(All[j].at)' = HeadAt(p)'
    BY <1>6 DEF HeadAt
<1> QED
    BY <1>1, <1>6, <1>7, <1>8 DEF Sound

(* Every step keeps all events sound; only ParseEvent adds one.            *)
LEMMA SoundStep == TypeOK /\ TypeOK' /\ SoundInv /\ [Next]_vars => SoundInv'
<1> SUFFICES ASSUME TypeOK, TypeOK', SoundInv, [Next]_vars, codec = "full"
             PROVE  \A j \in 1 .. Len(All') : Sound(j)'
    BY WireStep DEF SoundInv, fixed
<1>1. \A j \in 1 .. Len(All) : Sound(j)
    BY DEF SoundInv
<1>2. ASSUME All' = All, inSeq' = inSeq
      PROVE  \A j \in 1 .. Len(All') : Sound(j)'
    BY <1>1, <1>2, SoundStays, AllTypes
<1>3. ASSUME All' = out, inSeq' = inSeq
      PROVE  \A j \in 1 .. Len(All') : Sound(j)'
  <2> TAKE j \in 1 .. Len(All')
  <2>1. j \in 1 .. Len(All) /\ \A i \in 1 .. j : All'[i] = All[i]
      BY <1>3, AllTypes
  <2> QED
      BY <1>1, <1>3, <2>1, SoundStays, AllTypes
<1>4. CASE ParseEvent
  <2>1. /\ EventAt(Pos, ParseOne) \in Record /\ ParseOne.out = "event"
        /\ ParseOne.take \in 1 .. Avail /\ ParseOne.what \in Kinds
        /\ Pos \in Nat /\ Avail \in Nat /\ HeadAt(Pos) \in Header
      BY <1>4, ParseOneType DEF ParseEvent
  <2>2. /\ events' = Append(events, EventAt(Pos, ParseOne)) /\ out' = out
        /\ inSeq' = IF ParseOne.what = "payload" THEN inSeq + 1 ELSE inSeq
      BY <1>4 DEF ParseEvent
  <2>3. /\ Len(All') = Len(All) + 1
        /\ \A i \in 1 .. Len(All) : All'[i] = All[i]
        /\ All'[Len(All) + 1] = EventAt(Pos, ParseOne)
    <3> DEFINE e == EventAt(Pos, ParseOne)
    <3>1. All' = out \o Append(events, e)
        BY <2>2 DEF All
    <3> HIDE DEF e
    <3>2. e \in Record
        BY <2>1 DEF e
    <3>3. Append(events, e) = events \o <<e>> /\ <<e>> \in Seq(Record)
        BY <3>2, AllTypes, AppendIsConcat
    <3>4. All' = All \o <<e>>
        BY <3>1, <3>3, AllTypes, ConcatAssociative DEF All
    <3>5. All' = Append(All, e)
        BY <3>2, <3>4, AllTypes, AppendIsConcat
    <3>6. /\ Len(All') = Len(All) + 1 /\ All'[Len(All) + 1] = e
          /\ \A i \in 1 .. Len(All) : All'[i] = All[i]
        BY <3>2, <3>5, AllTypes, AppendProperties
    <3> QED
        BY <3>6 DEF e
  <2>4. inSeq' >= inSeq /\ inSeq \in Nat
      BY <2>2, AllTypes
  <2>5. ASSUME NEW j \in 1 .. Len(All) PROVE Sound(j)'
    <3>1. \A i \in 1 .. j : All'[i] = All[i]
        BY <2>3, AllTypes
    <3>2. Sound(j)
        BY <1>1
    <3> QED
        BY <2>4, <3>1, <3>2, SoundStays
  <2>6. PICK m \in Nat : m = Len(All) + 1
      BY AllTypes
  <2>7. Sound(m)'
    <3>1. PICK p \in Nat : p = Pos
        BY <2>1
    <3>2. p < sent /\ sent' = sent
        BY <1>4, <2>1, <3>1 DEF ParseEvent, peer, TypeOK, Avail
    <3>3. HeadAt(p)' = HeadAt(p) /\ HeadAt(p) = HeadAt(Pos)
        BY <3>1, <3>2, HeadStays
    <3>4. /\ All'[m].at = p /\ All'[m].kind = ParseOne.what
          /\ ParseOne.what = "payload" => All'[m].seq = inSeq
        BY <2>3, <2>6, <3>1 DEF EventAt
    <3>5. ASSUME ParseOne.what = "payload" PROVE HeadAt(p).ok /\ HeadAt(p).seq = inSeq
        BY <2>1, <2>4, <3>3, <3>5, ParseStrict DEF ParseOne
    <3>6. ASSUME ParseOne.what = "payload", NEW i \in 1 .. Len(All), All[i].kind = "payload"
          PROVE  All[i].seq < inSeq
        BY <1>1, <3>6 DEF Sound
    <3>7. HeadAt(All[m].at)' = HeadAt(p)'
        BY <3>4 DEF HeadAt
    <3>8. \A i \in 1 .. m - 1 : i \in 1 .. Len(All) /\ All'[i] = All[i]
        BY <2>3, <2>6, AllTypes
    <3>9. CASE ParseOne.what = "payload"
      <4>1. inSeq' = inSeq + 1 /\ HeadAt(p)'.ok /\ HeadAt(p)'.seq = inSeq
          BY <2>2, <3>3, <3>5, <3>9
      <4>2. \A i \in 1 .. m - 1 : All'[i].kind = "payload" => All'[i].seq < All'[m].seq
          BY <3>4, <3>6, <3>8, <3>9
      <4> QED
          BY <2>4, <3>2, <3>4, <3>7, <3>9, <4>1, <4>2 DEF Sound
    <3>10. CASE ParseOne.what # "payload"
        BY <3>2, <3>4, <3>10 DEF Sound
    <3> QED
        BY <3>9, <3>10
  <2>8. ASSUME NEW j \in 1 .. Len(All') PROVE Sound(j)'
    <3>1. j \in 1 .. Len(All) \/ j = m
        BY <2>3, <2>6, AllTypes
    <3> QED
        BY <2>5, <2>7, <3>1
  <2> QED
      BY <2>8
<1>5. CASE ParseRaise \/ ParseRaiseReset \/ CompactOverflow
  <2>1. out' = out /\ events' = <<>> /\ inSeq' = inSeq
      BY <1>5 DEF ParseRaise, ParseRaiseReset, CompactOverflow, Raised
  <2>2. All' = out
      BY <2>1, AllTypes, ConcatEmptySeq DEF All
  <2> QED
      BY <1>3, <2>1, <2>2
<1>6. CASE CompactReturn
  <2>1. out' = All /\ events' = <<>> /\ inSeq' = inSeq
      BY <1>6 DEF CompactReturn, All
  <2>2. All' = out' \o <<>>
      BY <2>1 DEF All
  <2>3. All' = All
      BY <2>1, <2>2, AllTypes, ConcatEmptySeq
  <2> QED
      BY <1>2, <2>1, <2>3
<1>7. CASE (\E n \in Chunks : FeedData(n)) \/ FeedEof
  <2>1. out' = out /\ events' = <<>> /\ inSeq' = inSeq /\ events = <<>>
      BY <1>7 DEF FeedData, FeedEof, TypeOK
  <2> QED
      BY <1>2, <2>1 DEF All
<1>8. CASE Peer \/ ConnectionHeader \/ Reset \/ UNCHANGED vars
  <2>1. out' = out /\ events' = events /\ inSeq' = inSeq
      BY <1>8, PeerStep DEF codecVars, ConnectionHeader, Reset, vars
  <2> QED
      BY <1>2, <2>1 DEF All
<1> QED
    BY <1>4, <1>5, <1>6, <1>7, <1>8 DEF Next, Loop

(* Whatever is lost, damaged or cleared, the full codec lets only intact   *)
(* frames through, by increasing numbers: FullStrict (in_seq_no).          *)
THEOREM FullAlwaysStrict == Spec => []FullStrict
<1>1. Init => SoundInv
  <2> SUFFICES ASSUME Init PROVE Len(All) = 0
      BY DEF SoundInv
  <2>1. All = <<>>
      BY DEF Init, All
  <2> QED
      BY <2>1
<1>2. TypeOK /\ SoundInv /\ [Next]_vars => TypeOK' /\ SoundInv'
    BY TypeStep, SoundStep
<1>3. SoundInv => FullStrict
    BY DEF SoundInv, Sound, FullStrict, All
<1> QED
    BY <1>1, <1>2, <1>3, TypeInit, PTL DEF Spec

-----------------------------------------------------------------------------
(* FramesInOrder is inductive, given that the frames lie end to end.       *)
Calm ==
    /\ aligned
    /\ \A k \in 1 .. Len(wire) : wire[k].at < Pos => Plain(codec, wire[k])

EventsInOrder ==
    \A i \in 1 .. Len(events) : Reads(events[i], wire[Len(out) + dropped + i])

OutInOrder ==
    /\ \A i \in 1 .. Len(out) : \E k \in i .. i + dropped : Reads(out[i], wire[k])
    /\ \A i, j \in 1 .. Len(out) : i < j => out[i].at < out[j].at

InOrder ==
    Done <= Len(wire) /\ Pos = Start(Done + 1) /\ EventsInOrder /\ OutInOrder

(* FramesInOrder by its parts.                                             *)
LEMMA OrderParts == FramesInOrder <=> (Calm => InOrder)
BY DEF FramesInOrder, Calm, InOrder, EventsInOrder, OutInOrder

(* The counters that FramesInOrder relates are numbers.                    *)
LEMMA OrderTypes ==
  ASSUME TypeOK
  PROVE  /\ out \in Seq(Record) /\ events \in Seq(Record) /\ dropped \in Nat
         /\ Len(out) \in Nat /\ Len(events) \in Nat /\ Pos \in Nat
         /\ Done \in Nat /\ Done = Len(out) + dropped + Len(events)
         /\ \A i \in 1 .. Len(out) : out[i].at \in Nat
         /\ \A i \in 1 .. Len(events) : events[i].at \in Nat
<1>1. /\ out \in Seq(Record) /\ events \in Seq(Record) /\ dropped \in Nat
    BY DEF TypeOK
<1>2. Len(out) \in Nat /\ Len(events) \in Nat
    BY <1>1, LenProperties
<1>3. \A r \in Record : r.at \in Nat
    BY DEF Record
<1>4. /\ \A i \in 1 .. Len(out) : out[i] \in Record
      /\ \A i \in 1 .. Len(events) : events[i] \in Record
    BY <1>1, ElementOfSeq
<1> QED
    BY <1>1, <1>2, <1>3, <1>4, ParseOneType DEF Done

(* A step that moves neither the offset nor the events.                    *)
LEMMA OrderStays ==
  ASSUME TypeOK, Laid, FramesInOrder, [Next]_vars,
         Pos' = Pos, UNCHANGED <<events, out, dropped>>, aligned' => aligned
  PROVE  FramesInOrder'
<1> SUFFICES ASSUME Calm' PROVE InOrder'
    BY OrderParts DEF FramesInOrder, Calm, InOrder, EventsInOrder, OutInOrder
<1>1. codec' = codec
    BY WireStep DEF fixed
<1>2. CASE UNCHANGED <<wire, sent>>
  <2>1. InOrder
      BY <1>1, <1>2, OrderParts DEF Calm
  <2> QED
      BY <1>1, <1>2, <2>1 DEF InOrder, EventsInOrder, OutInOrder, Reads, Start, Done
<1>3. ASSUME NEW f \in Frame, wire' = Append(wire, f), f.at = sent
      PROVE  InOrder'
  <2>1. /\ Len(wire) \in Nat /\ Len(wire') = Len(wire) + 1
        /\ \A k \in 1 .. Len(wire) : wire'[k] = wire[k]
        /\ wire'[Len(wire) + 1] = f
      BY <1>3, WireTypes, AppendProperties
  <2>2. Calm
      BY <1>1, <2>1 DEF Calm
  <2>3. InOrder
      BY <2>2, OrderParts
  <2>4. Done' = Done /\ Done \in Nat /\ Done <= Len(wire) /\ Done <= Len(wire')
    <3>1. Done' = Done
        BY DEF Done
    <3> QED
        BY <2>1, <2>3, <3>1, OrderTypes DEF InOrder
  <2>5. Pos' = Start(Done + 1)'
    <3>1. CASE Done < Len(wire)
        BY <2>1, <2>3, <2>4, <3>1 DEF InOrder, Start
    <3>2. CASE Done = Len(wire)
        BY <1>3, <2>1, <2>3, <2>4, <3>2 DEF InOrder, Start
    <3> QED
        BY <2>1, <2>4, <3>1, <3>2
  <2>6. ASSUME NEW i \in 1 .. Len(events)
        PROVE  Reads(events[i], wire[Len(out) + dropped + i])'
    <3>1. Len(out) + dropped + i \in 1 .. Len(wire)
        BY <2>1, <2>4, OrderTypes
    <3>2. wire'[Len(out) + dropped + i] = wire[Len(out) + dropped + i]
        BY <2>1, <3>1
    <3>3. Reads(events[i], wire[Len(out) + dropped + i])
        BY <2>3 DEF InOrder, EventsInOrder
    <3> QED
        BY <1>1, <3>2, <3>3 DEF Reads
  <2>7. EventsInOrder'
      BY <2>6 DEF EventsInOrder
  <2>8. ASSUME NEW i \in 1 .. Len(out)
        PROVE  (\E k \in i .. i + dropped : Reads(out[i], wire[k]))'
    <3>1. PICK k \in i .. i + dropped : Reads(out[i], wire[k])
        BY <2>3 DEF InOrder, OutInOrder
    <3>2. k \in 1 .. Len(wire)
        BY <2>1, <2>4, OrderTypes
    <3>3. wire'[k] = wire[k]
        BY <2>1, <3>2
    <3>4. Reads(out[i], wire[k])'
        BY <1>1, <3>1, <3>3 DEF Reads
    <3> QED
        BY <3>4 DEF Reads
  <2>9. OutInOrder'
    <3>1. \A i, j \in 1 .. Len(out') : i < j => out'[i].at < out'[j].at
        BY <2>3 DEF InOrder, OutInOrder
    <3>2. \A i \in 1 .. Len(out') :
              (\E k \in i .. i + dropped : Reads(out[i], wire[k]))'
        BY <2>8
    <3> QED
        BY <3>1, <3>2 DEF OutInOrder
  <2> QED
      BY <2>4, <2>5, <2>7, <2>9 DEF InOrder
<1> QED
    BY <1>2, <1>3, WireStep

(* An event is the first frame not yet read.                               *)
LEMMA OrderParse ==
  ASSUME TypeOK, TypeOK', Laid, FramesInOrder, ParseEvent
  PROVE  FramesInOrder'
<1> SUFFICES ASSUME Calm' PROVE InOrder'
    BY OrderParts DEF FramesInOrder, Calm, InOrder, EventsInOrder, OutInOrder
<1>1. /\ codec' = codec /\ wire' = wire /\ sent' = sent /\ out' = out /\ dropped' = dropped
      /\ aligned' = aligned /\ Pos' = Pos + ParseOne.take
      /\ events' = Append(events, EventAt(Pos, ParseOne)) /\ ParseOne.out = "event"
  <2>1. lo \in Nat /\ offset \in Nat /\ lo' = lo /\ offset' = offset + ParseOne.take
      BY DEF ParseEvent, TypeOK
  <2>2. ParseOne.take \in Nat
      BY ParseOneType DEF ParseEvent
  <2>3. Pos' = Pos + ParseOne.take
      BY <2>1, <2>2 DEF Pos
  <2> QED
      BY <2>3 DEF ParseEvent, fixed, peer
<1>2. /\ ParseOne.take \in 1 .. Avail /\ EventAt(Pos, ParseOne) \in Record
      /\ Pos \in Nat /\ Avail \in Nat /\ codec \in Codecs /\ inSeq \in Nat
      /\ Pos < sent
  <2>1. /\ ParseOne.take \in 1 .. Avail /\ EventAt(Pos, ParseOne) \in Record
        /\ Pos \in Nat /\ Avail \in Nat
      BY <1>1, ParseOneType
  <2>2. codec \in Codecs /\ inSeq \in Nat /\ hi <= sent /\ hi \in Nat /\ sent \in Nat
      BY DEF TypeOK
  <2> QED
      BY <2>1, <2>2 DEF Avail
<1>3. Calm
    BY <1>1, <1>2, WireTypes DEF Calm
<1>4. InOrder
    BY <1>3, OrderParts
<1>5. Done \in Nat /\ Done < Len(wire) /\ Pos = wire[Done + 1].at
    BY <1>2, <1>4, OrderTypes, WireTypes DEF InOrder, Start
<1>6. PICK n \in 1 .. Len(wire) : n = Done + 1
    BY <1>5, WireTypes
<1>7. wire[n] \in Frame /\ wire[n].at = Pos /\ Plain(codec, wire[n]) /\ HeadAt(Pos) = wire[n].head
  <2>1. wire[n].at = Pos /\ wire[n] \in Frame
      BY <1>5, <1>6, WireTypes
  <2>2. Plain(codec, wire[n])
      BY <1>1, <1>2, <2>1 DEF Calm
  <2> QED
      BY <2>1, <2>2, HeadOfFrame
<1>8. /\ ParseOne.what = wire[n].means /\ ParseOne.take = wire[n].size
      /\ ParseOne.body = BodyOf(codec, wire[n])
    BY <1>1, <1>2, <1>7, ParsePlain DEF ParseOne
<1>9. Reads(EventAt(Pos, ParseOne), wire[n])
    BY <1>7, <1>8 DEF Reads, EventAt
<1>10. /\ Len(events') = Len(events) + 1 /\ events'[Len(events) + 1] = EventAt(Pos, ParseOne)
       /\ \A i \in 1 .. Len(events) : events'[i] = events[i]
    BY <1>1, <1>2, OrderTypes, AppendProperties
<1>11. Done' = n
    BY <1>1, <1>6, <1>10, OrderTypes DEF Done
<1>12. Done' <= Len(wire') /\ Pos' = Start(Done + 1)'
  <2>1. Pos' = Start(n + 1)
      BY <1>1, <1>7, <1>8 DEF Laid
  <2>2. Start(Done + 1)' = Start(n + 1)
      BY <1>1, <1>11 DEF Start
  <2> QED
      BY <1>1, <1>11, <2>1, <2>2
<1>13. ASSUME NEW i \in 1 .. Len(events')
       PROVE  Reads(events[i], wire[Len(out) + dropped + i])'
  <2>1. CASE i \in 1 .. Len(events)
      BY <1>1, <1>4, <1>10, <2>1 DEF InOrder, EventsInOrder, Reads
  <2>2. CASE i = Len(events) + 1
    <3>1. Len(out) + dropped + i = n
        BY <1>6, <2>2, OrderTypes
    <3> QED
        BY <1>1, <1>9, <1>10, <2>2, <3>1 DEF Reads
  <2> QED
      BY <1>10, <2>1, <2>2, OrderTypes
<1>14. EventsInOrder'
    BY <1>13 DEF EventsInOrder
<1>15. OutInOrder'
    BY <1>1, <1>4 DEF InOrder, OutInOrder, Reads
<1> QED
    BY <1>12, <1>14, <1>15 DEF InOrder

(* A call that raises keeps what was returned before.                      *)
LEMMA OrderRaise ==
  ASSUME TypeOK, Laid, FramesInOrder, ParseRaise
  PROVE  FramesInOrder'
<1>1. /\ codec' = codec /\ wire' = wire /\ sent' = sent /\ out' = out /\ aligned' = aligned
      /\ dropped' = dropped + Len(events) /\ events' = <<>> /\ Pos' = Pos
    BY DEF ParseRaise, Raised, fixed, peer, Pos
<1> SUFFICES ASSUME Calm' PROVE InOrder'
    BY OrderParts DEF FramesInOrder, Calm, InOrder, EventsInOrder, OutInOrder
<1>2. InOrder
    BY <1>1, OrderParts DEF Calm
<1>3. Done' = Done
    BY <1>1, OrderTypes DEF Done
<1>4. Done' <= Len(wire') /\ Pos' = Start(Done + 1)'
    BY <1>1, <1>2, <1>3 DEF InOrder, Start
<1>5. EventsInOrder'
    BY <1>1 DEF EventsInOrder
<1>6. \A i \in 1 .. Len(out) : \E k \in i .. i + dropped' : Reads(out[i], wire[k])
  <2> TAKE i \in 1 .. Len(out)
  <2>1. PICK k \in i .. i + dropped : Reads(out[i], wire[k])
      BY <1>2 DEF InOrder, OutInOrder
  <2>2. k \in i .. i + dropped'
      BY <1>1, OrderTypes
  <2> QED
      BY <2>1, <2>2
<1>7. OutInOrder'
    BY <1>1, <1>2, <1>6 DEF InOrder, OutInOrder, Reads
<1> QED
    BY <1>4, <1>5, <1>7 DEF InOrder

(* A call that returns adds its events, which are later frames.            *)
LEMMA OrderReturn ==
  ASSUME TypeOK, Laid, FramesInOrder, CompactReturn
  PROVE  FramesInOrder'
<1>1. /\ codec' = codec /\ wire' = wire /\ sent' = sent /\ aligned' = aligned
      /\ dropped' = dropped /\ out' = out \o events /\ events' = <<>>
    BY DEF CompactReturn, fixed, peer
<1>2. Pos' = Pos
  <2>1. lo' = Pos /\ offset' = 0
      BY DEF CompactReturn
  <2> QED
      BY <2>1, OrderTypes DEF Pos
<1> SUFFICES ASSUME Calm' PROVE InOrder'
    BY OrderParts DEF FramesInOrder, Calm, InOrder, EventsInOrder, OutInOrder
<1>3. InOrder
    BY <1>1, <1>2, OrderParts DEF Calm
<1>4. /\ Len(out') = Len(out) + Len(events)
      /\ \A i \in 1 .. Len(out) + Len(events) :
             out'[i] = IF i <= Len(out) THEN out[i] ELSE events[i - Len(out)]
    BY <1>1, OrderTypes, ConcatProperties
<1>5. ASSUME NEW i \in 1 .. Len(out'), i <= Len(out)
       PROVE  i \in 1 .. Len(out) /\ out'[i] = out[i]
    BY <1>4, <1>5, OrderTypes
<1>6. ASSUME NEW i \in 1 .. Len(out'), i > Len(out)
       PROVE  i - Len(out) \in 1 .. Len(events) /\ out'[i] = events[i - Len(out)]
    BY <1>4, <1>6, OrderTypes
<1>7. Done' = Done
    BY <1>1, <1>4, OrderTypes DEF Done
<1>8. Done' <= Len(wire') /\ Pos' = Start(Done + 1)'
    BY <1>1, <1>2, <1>3, <1>7 DEF InOrder, Start
<1>9. EventsInOrder'
    BY <1>1 DEF EventsInOrder
<1>10. \A i \in 1 .. Len(out) : \E k \in i .. Len(out) + dropped :
             k \in 1 .. Len(wire) /\ k <= i + dropped /\ Reads(out[i], wire[k])
  <2> TAKE i \in 1 .. Len(out)
  <2>1. PICK k \in i .. i + dropped : Reads(out[i], wire[k])
      BY <1>3 DEF InOrder, OutInOrder
  <2>2. /\ k \in i .. Len(out) + dropped /\ k \in 1 .. Len(wire) /\ k <= i + dropped
      BY <1>3, OrderTypes, WireTypes DEF InOrder
  <2> QED
      BY <2>1, <2>2
<1>11. \A i \in 1 .. Len(events) : /\ Len(out) + dropped + i \in 1 .. Len(wire)
                                  /\ Reads(events[i], wire[Len(out) + dropped + i])
    BY <1>3, OrderTypes, WireTypes DEF InOrder, EventsInOrder
<1>12. ASSUME NEW i \in 1 .. Len(out')
       PROVE  \E k \in i .. i + dropped : Reads(out'[i], wire[k])
  <2>1. CASE i <= Len(out)
    <3>1. PICK k \in i .. Len(out) + dropped : k <= i + dropped /\ Reads(out[i], wire[k])
        BY <1>10, <1>5, <2>1
    <3>2. k \in i .. i + dropped /\ Reads(out'[i], wire[k])
        BY <1>5, <2>1, <3>1, OrderTypes
    <3> QED
        BY <3>2
  <2>2. CASE i > Len(out)
    <3>1. PICK m \in 1 .. Len(events) : m = i - Len(out) /\ out'[i] = events[m]
        BY <1>6, <2>2
    <3>2. out'[i] = events[m] /\ Len(out) + dropped + m = i + dropped
        BY <3>1, OrderTypes
    <3>3. i + dropped \in i .. i + dropped
        BY OrderTypes
    <3>4. Reads(events[m], wire[i + dropped])
        BY <1>11, <3>2
    <3> QED
        BY <3>2, <3>3, <3>4
  <2>3. i <= Len(out) \/ i > Len(out)
      BY OrderTypes
  <2> QED
      BY <2>1, <2>2, <2>3, Zenon
<1>13. ASSUME NEW j \in 1 .. Len(wire), NEW m \in 1 .. Len(wire), j < m
       PROVE  wire[j].at < wire[m].at
  <2>1. wire[j].at + wire[j].size <= wire[m].at
      BY <1>13 DEF Laid
  <2>2. wire[j].at \in Nat /\ wire[m].at \in Nat /\ wire[j].size \in Nat /\ wire[j].size > 0
      BY WireTypes
  <2> QED
      BY <2>1, <2>2
<1>14. ASSUME NEW i \in 1 .. Len(out'), NEW j \in 1 .. Len(out'), i < j
       PROVE  out'[i].at < out'[j].at
  <2>1. CASE j <= Len(out)
    <3>1. i <= Len(out)
        BY <1>14, <2>1, OrderTypes
    <3>2. /\ i \in 1 .. Len(out) /\ j \in 1 .. Len(out)
          /\ out'[i] = out[i] /\ out'[j] = out[j]
        BY <1>5, <2>1, <3>1
    <3> QED
        BY <1>3, <1>14, <3>2 DEF InOrder, OutInOrder
  <2>2. CASE j > Len(out)
    <3>1. PICK m \in 1 .. Len(events) : m = j - Len(out) /\ out'[j] = events[m]
        BY <1>6, <2>2
    <3>2. PICK b \in 1 .. Len(wire) : b = Len(out) + dropped + m /\ Reads(events[m], wire[b])
        BY <1>11
    <3>3. out'[j].at = wire[b].at
        BY <3>1, <3>2 DEF Reads
    <3>4. CASE i <= Len(out)
      <4>1. i \in 1 .. Len(out) /\ out'[i] = out[i]
          BY <1>5, <3>4
      <4>2. PICK k \in i .. Len(out) + dropped : k \in 1 .. Len(wire) /\ Reads(out[i], wire[k])
          BY <1>10, <4>1
      <4>3. out'[i].at = wire[k].at
          BY <4>1, <4>2 DEF Reads
      <4>4. k < b
          BY <3>2, <4>1, <4>2, OrderTypes
      <4> QED
          BY <1>13, <3>3, <4>2, <4>3, <4>4
    <3>5. CASE i > Len(out)
      <4>1. PICK q \in 1 .. Len(events) : q = i - Len(out) /\ out'[i] = events[q]
          BY <1>6, <3>5
      <4>2. PICK a \in 1 .. Len(wire) : a = Len(out) + dropped + q /\ Reads(events[q], wire[a])
          BY <1>11
      <4>3. out'[i].at = wire[a].at
          BY <4>1, <4>2 DEF Reads
      <4>4. a < b
        <5>1. q < m
            BY <1>14, <3>1, <4>1, OrderTypes
        <5> QED
            BY <3>2, <4>2, <5>1, OrderTypes
      <4> QED
          BY <1>13, <3>3, <4>3, <4>4
    <3> QED
        BY <3>4, <3>5, OrderTypes
  <2> QED
      BY <2>1, <2>2, OrderTypes
<1>15. OutInOrder'
  <2>1. \A i \in 1 .. Len(out') : \E k \in i .. i + dropped' : Reads(out[i], wire[k])'
      BY <1>1, <1>12 DEF Reads
  <2> QED
      BY <1>14, <2>1 DEF OutInOrder
<1> QED
    BY <1>8, <1>9, <1>15 DEF InOrder

(* FramesInOrder is kept by every step.                                    *)
LEMMA OrderStep ==
  ASSUME TypeOK, TypeOK', Laid, FramesInOrder, [Next]_vars
  PROVE  FramesInOrder'
<1>1. CASE ParseEvent
    BY <1>1, OrderParse
<1>2. CASE ParseRaise
    BY <1>2, OrderRaise
<1>3. CASE CompactReturn
    BY <1>3, OrderReturn
<1>4. CASE ParseRaiseReset \/ CompactOverflow
  <2>1. aligned' = FALSE
      BY <1>4 DEF ParseRaiseReset, CompactOverflow
  <2> QED
      BY <2>1 DEF FramesInOrder
<1>5. CASE Reset
  <2>1. /\ UNCHANGED <<wire, sent, events, out, dropped>> /\ Pos' = hi
        /\ aligned' = (aligned /\ Avail = 0)
      BY <1>5 DEF Reset, ClearBuffer, peer, Pos, TypeOK
  <2>2. CASE Avail = 0
    <3>1. Pos' = Pos
        BY <2>1, <2>2, OrderTypes DEF Avail, TypeOK
    <3> QED
        BY <2>1, <3>1, OrderStays
  <2>3. CASE Avail # 0
      BY <2>1, <2>3 DEF FramesInOrder
  <2> QED
      BY <2>2, <2>3
<1>6. CASE (\E n \in Chunks : FeedData(n)) \/ FeedEof
  <2>1. UNCHANGED <<lo, offset, events, out, dropped, aligned>>
      BY <1>6 DEF FeedData, FeedEof, TypeOK
  <2> QED
      BY <2>1, OrderStays DEF Pos
<1>7. CASE Peer \/ ConnectionHeader \/ UNCHANGED vars
  <2>1. UNCHANGED <<lo, offset, events, out, dropped, aligned>>
      BY <1>7, PeerStep DEF codecVars, ConnectionHeader, vars
  <2> QED
      BY <2>1, OrderStays DEF Pos
<1> QED
    BY <1>1, <1>2, <1>3, <1>4, <1>5, <1>6, <1>7 DEF Next, Loop

(* On an empty stream nothing is out of order.                             *)
LEMMA OrderInit == Init => Laid /\ FramesInOrder
<1> SUFFICES ASSUME Init PROVE Laid /\ FramesInOrder
    OBVIOUS
<1>1. /\ wire = <<>> /\ sent = 0 /\ out = <<>> /\ events = <<>> /\ dropped = 0 /\ Pos = 0
      /\ Len(wire) = 0 /\ Len(out) = 0 /\ Len(events) = 0
    BY DEF Init, Pos
<1>2. Done = 0
    BY <1>1 DEF Done
<1>3. Laid
    BY <1>1 DEF Laid, Start
<1>4. InOrder
    BY <1>1, <1>2 DEF InOrder, EventsInOrder, OutInOrder, Start
<1> QED
    BY <1>3, <1>4, OrderParts

(* Whatever the chunks, the frames come out one for one, in order and as   *)
(* what they are: FramesInOrder (feed_data, _parse_one, _compact).         *)
THEOREM FramesAlwaysInOrder == Spec => []FramesInOrder
<1>1. TypeOK /\ Laid /\ FramesInOrder /\ [Next]_vars => TypeOK' /\ Laid' /\ FramesInOrder'
    BY TypeStep, LaidStep, OrderStep
<1> QED
    BY <1>1, TypeInit, OrderInit, PTL DEF Spec

(* The frames of the stream lie end to end, whatever the codec does.       *)
LEMMA AlwaysLaid == Spec => []Laid
<1>1. TypeOK /\ Laid /\ [Next]_vars => TypeOK' /\ Laid'
    BY TypeStep, LaidStep
<1> QED
    BY <1>1, TypeInit, OrderInit, PTL DEF Spec

(* A frame that has arrived whole has been read when feed_data() returns:  *)
(* NothingHeldBack.                                                        *)
THEOREM NothingEverHeldBack == Spec => []NothingHeldBack
<1>1. TypeOK /\ Laid /\ IdleInv /\ FramesInOrder => NothingHeldBack
  <2> SUFFICES ASSUME TypeOK, Laid, IdleInv, FramesInOrder PROVE NothingHeldBack
      OBVIOUS
  <2>1. pc = "idle" => ParseOne.out # "event"
      BY DEF IdleInv
  <2>2. ASSUME pc = "idle", aligned, ParseOne.out # "raise", Done < Len(wire),
               \A k \in 1 .. Len(wire) : wire[k].at <= Pos => Plain(codec, wire[k])
        PROVE  hi < wire[Done + 1].at + wire[Done + 1].size
    <3>1. Calm
        BY <2>2, OrderTypes, WireTypes DEF Calm
    <3>2. Done + 1 \in 1 .. Len(wire) /\ Pos = wire[Done + 1].at
        BY <2>2, <3>1, OrderParts, OrderTypes, WireTypes DEF InOrder, Start
    <3>3. PICK f \in Frame : f = wire[Done + 1]
        BY <3>2, WireTypes
    <3>4. Plain(codec, f) /\ HeadAt(Pos) = f.head
      <4>1. Plain(codec, f)
          BY <2>2, <3>2, <3>3, OrderTypes
      <4> QED
          BY <3>2, <3>3, <4>1, HeadOfFrame
    <3>5. ParseOne.out = "none"
        BY <2>2 DEF IdleInv
    <3>6. codec \in Codecs /\ inSeq \in Nat /\ Avail \in Nat /\ Pos \in Nat /\ hi \in Nat
        BY ParseOneType DEF TypeOK
    <3>7. Avail < f.size
        BY <3>4, <3>5, <3>6, ParsePlain DEF ParseOne
    <3>8. f.at \in Nat /\ f.size \in Nat
        BY DEF Frame
    <3> QED
        BY <3>2, <3>3, <3>6, <3>7, <3>8 DEF Avail
  <2> QED
      BY <2>1, <2>2 DEF NothingHeldBack
<1> QED
    BY <1>1, TypeCorrect, AlwaysLaid, IdleAlways, FramesAlwaysInOrder, PTL

-----------------------------------------------------------------------------
(* The codec as a channel.  As long as every frame that was read is plain, *)
(* nothing was thrown away and no call raised after having parsed, the     *)
(* steps of the codec are those of FrameChannel.                           *)
Untroubled == Calm /\ dropped = 0

Frames(w, c) == [k \in 1 .. Len(w) |-> [kind |-> w[k].means, body |-> BodyOf(c, w[k])]]

Written  == View(Frames(wire, codec))
Received == View(out)

(* What View shows of any frames and of any events.                        *)
LEMMA ViewIs ==
  ASSUME NEW w, NEW o, NEW c, Len(w) \in Nat, Len(o) \in Nat
  PROVE  /\ View(Frames(w, c)) = Frames(w, c)
         /\ Len(Frames(w, c)) = Len(w)
         /\ View(o) = [k \in 1 .. Len(o) |-> [kind |-> o[k].kind, body |-> o[k].body]]
         /\ Len(View(o)) = Len(o)
<1> DEFINE s == Frames(w, c)
<1>1. Len(s) = Len(w)
    BY DEF Frames
<1>2. \A k \in 1 .. Len(w) : s[k].kind = w[k].means /\ s[k].body = BodyOf(c, w[k])
    BY DEF Frames
<1>3. View(s) = [k \in 1 .. Len(s) |-> [kind |-> s[k].kind, body |-> s[k].body]]
    BY DEF View
<1>4. View(o) = [k \in 1 .. Len(o) |-> [kind |-> o[k].kind, body |-> o[k].body]]
    BY DEF View
<1> HIDE DEF s
<1>5. View(s) = Frames(w, c)
    BY <1>1, <1>2, <1>3 DEF Frames
<1> QED
    BY <1>1, <1>4, <1>5 DEF s

(* Written and Received in these terms.                                    *)
LEMMA ViewTypes ==
  ASSUME TypeOK
  PROVE  /\ Len(wire) \in Nat /\ Len(out) \in Nat
         /\ Written = Frames(wire, codec)
         /\ Received = [k \in 1 .. Len(out) |-> [kind |-> out[k].kind, body |-> out[k].body]]
         /\ Len(Written) = Len(wire) /\ Len(Received) = Len(out)
<1>1. Len(wire) \in Nat /\ Len(out) \in Nat
    BY WireTypes, OrderTypes
<1>2. Written = View(Frames(wire, codec)) /\ Received = View(out)
    BY DEF Written, Received
<1> QED
    BY <1>1, <1>2, ViewIs

(* Without losses, what was returned are the first frames.                 *)
LEMMA ReceivedIsPrefix ==
  TypeOK /\ FramesInOrder /\ Untroubled
    => Len(out) <= Len(wire) /\ Received = SubSeq(Written, 1, Len(out))
<1> SUFFICES ASSUME TypeOK, FramesInOrder, Untroubled
             PROVE  Len(out) <= Len(wire) /\ Received = SubSeq(Written, 1, Len(out))
    OBVIOUS
<1>1. InOrder /\ dropped = 0
    BY OrderParts DEF Untroubled
<1>2. Len(out) <= Len(wire)
    BY <1>1, OrderTypes, WireTypes DEF InOrder
<1>3. ASSUME NEW k \in 1 .. Len(out) PROVE Received[k] = Written[k]
  <2>1. PICK m \in k .. k + dropped : Reads(out[k], wire[m])
      BY <1>1 DEF InOrder, OutInOrder
  <2>2. m = k
      BY <1>1, <2>1, OrderTypes
  <2>3. k \in 1 .. Len(wire)
      BY <1>2, ViewTypes
  <2>4. Written[k] = [kind |-> wire[k].means, body |-> BodyOf(codec, wire[k])]
      BY <2>3, ViewTypes DEF Frames
  <2>5. Received[k] = [kind |-> out[k].kind, body |-> out[k].body]
      BY ViewTypes
  <2> QED
      BY <2>1, <2>2, <2>4, <2>5 DEF Reads
<1>4. SubSeq(Written, 1, Len(out)) = [k \in 1 .. Len(out) |-> Written[k]]
  <2>1. Len(out) - 1 + 1 = Len(out) /\ \A k \in 1 .. Len(out) : k + 1 - 1 = k
      BY ViewTypes
  <2> QED
      BY <2>1, ViewTypes
<1>5. Received = [k \in 1 .. Len(out) |-> Received[k]]
    BY ViewTypes
<1> QED
    BY <1>2, <1>3, <1>4, <1>5

(* A frame more is written behind the others.                              *)
LEMMA WireWrites ==
  ASSUME TypeOK, UNCHANGED fixed, NEW f \in Frame, wire' = Append(wire, f)
  PROVE  /\ Len(Written') = Len(Written) + 1
         /\ Written = SubSeq(Written', 1, Len(Written))
<1>1. /\ Len(wire') = Len(wire) + 1 /\ codec' = codec
      /\ \A k \in 1 .. Len(wire) : wire'[k] = wire[k]
    BY WireTypes, AppendProperties DEF fixed
<1>2. Len(wire) \in Nat /\ Len(Written) = Len(wire) /\ Written = Frames(wire, codec)
    BY ViewTypes
<1>3. Written' = Frames(wire', codec) /\ Len(Written') = Len(wire')
  <2>1. Written' = View(Frames(wire', codec))
      BY <1>1 DEF Written
  <2>2. Len(wire') \in Nat /\ Len(<<>>) \in Nat
      BY <1>1, <1>2
  <2> QED
      BY <2>1, <2>2, ViewIs
<1>4. \A k \in 1 .. Len(wire) : Written'[k] = Written[k]
    BY <1>1, <1>2, <1>3 DEF Frames
<1>5. SubSeq(Written', 1, Len(wire)) = [k \in 1 .. Len(wire) |-> Written'[k]]
    BY <1>1, <1>2, <1>3
<1>6. Written = [k \in 1 .. Len(wire) |-> Written[k]]
    BY <1>2 DEF Frames
<1> QED
    BY <1>1, <1>2, <1>3, <1>4, <1>5, <1>6

(* At first, nothing is in the channel.                                    *)
LEMMA ChannelInit == Init => Channel!Init
<1> SUFFICES ASSUME Init PROVE Channel!Init
    OBVIOUS
<1>1. wire = <<>> /\ out = <<>>
    BY DEF Init
<1>2. Len(wire) = 0 /\ Len(out) = 0
    BY <1>1
<1> QED
    BY <1>1, <1>2 DEF Channel!Init, View

(* Every step of the codec is one of the channel, or none.                 *)
LEMMA ChannelStep ==
  ASSUME TypeOK, TypeOK', FramesInOrder, FramesInOrder', Untroubled, Untroubled',
         [Next]_vars
  PROVE  [Channel!Next]_<<Written, Received>>
<1>1. CASE CompactReturn
  <2>1. UNCHANGED <<fixed, peer>> /\ out' = out \o events
      BY <1>1 DEF CompactReturn
  <2>2. wire' = wire /\ codec' = codec
      BY <2>1 DEF fixed, peer
  <2>3. Written' = Written
      BY <2>2 DEF Written, View, Frames
  <2>4. Len(out') = Len(out) + Len(events) /\ Len(out) \in Nat /\ Len(events) \in Nat
      BY <2>1, OrderTypes, ConcatProperties
  <2>5. /\ Len(out') <= Len(wire)
        /\ Received' = SubSeq(Written, 1, Len(out'))
    <3>1. (TypeOK /\ FramesInOrder /\ Untroubled
             => Len(out) <= Len(wire) /\ Received = SubSeq(Written, 1, Len(out)))'
        BY ReceivedIsPrefix, PTL
    <3> QED
        BY <2>2, <2>3, <3>1
  <2>6. Received = SubSeq(Written, 1, Len(out)) /\ Len(Received) = Len(out)
        /\ Len(Written) = Len(wire) /\ Len(wire) \in Nat
      BY ReceivedIsPrefix, ViewTypes
  <2>7. CASE Len(events) = 0
      BY <2>3, <2>4, <2>5, <2>6, <2>7
  <2>8. CASE Len(events) # 0
    <3>1. Len(out') \in Len(Received) + 1 .. Len(Written)
        BY <2>4, <2>5, <2>6, <2>8
    <3>2. \E n \in Len(Received) + 1 .. Len(Written) : Received' = SubSeq(Written, 1, n)
        BY <2>5, <3>1
    <3> QED
        BY <2>3, <3>2 DEF Channel!Next, Channel!Receive, Written, Received, Frames
  <2> QED
      BY <2>7, <2>8
<1>2. ASSUME NEW f \in Frame, wire' = Append(wire, f), Peer
      PROVE  [Channel!Next]_<<Written, Received>>
  <2>1. UNCHANGED <<fixed, codecVars>>
      BY <1>2, PeerStep
  <2>2. Received' = Received
      BY <2>1 DEF Received, View, codecVars
  <2>3. /\ Len(Written') = Len(Written) + 1
        /\ Written = SubSeq(Written', 1, Len(Written))
      BY <1>2, <2>1, WireWrites
  <2> QED
      BY <2>2, <2>3 DEF Channel!Next, Channel!Write, Written, Received, Frames
<1>3. CASE UNCHANGED <<wire, out, codec>>
    BY <1>3 DEF Written, Received, View, Frames
<1>4. CASE UNCHANGED <<wire, sent>> /\ Peer
  <2>1. UNCHANGED <<fixed, codecVars>>
      BY <1>4, PeerStep
  <2> QED
      BY <1>3, <1>4, <2>1 DEF fixed, codecVars
<1>5. CASE ~Peer /\ ~CompactReturn
  <2>1. UNCHANGED <<fixed, peer, out>>
      BY <1>5 DEF Next, ConnectionHeader, FeedData, FeedEof, Loop, ParseEvent, ParseRaise,
                  ParseRaiseReset, CompactOverflow, Raised, Reset, vars
  <2> QED
      BY <1>3, <2>1 DEF fixed, peer
<1> QED
    BY <1>1, <1>2, <1>4, <1>5, WireStep

(* TransportCodec implements FrameChannel (but for its fairness): as long  *)
(* as nothing is lost, feed_data() returns the frames of the peer whole,   *)
(* once and in their order.                                                *)
THEOREM CodecIsChannel == Spec => ([]Untroubled => Channel!Spec)
<1>1. Init => Channel!Init
    BY ChannelInit
<1>2. /\ TypeOK /\ TypeOK' /\ FramesInOrder /\ FramesInOrder' /\ Untroubled /\ Untroubled'
      /\ [Next]_vars
      => [Channel!Next]_<<Written, Received>>
    BY ChannelStep
<1>3. <<Written, Received>> = Channel!vars
    BY DEF Channel!vars, Written, Received, Frames
<1> QED
    BY <1>1, <1>2, <1>3, TypeCorrect, FramesAlwaysInOrder, PTL
       DEF Spec, Channel!Spec, Channel!vars, Written, Received, Frames
=============================================================================

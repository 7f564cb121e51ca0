--------------------------- MODULE MTProtoSession ---------------------------
(***************************************************************************)
(* A client and a server that exchange encrypted messages of one session   *)
(* (mtproto/envelope.py), each with its own SessionValidationState         *)
(* (mtproto/session.py), over a network that may lose, repeat, reorder,    *)
(* reflect, truncate and damage what it carries.                           *)
(*                                                                         *)
(* A message id is the time of its sender in the upper bits and a parity   *)
(* that tells the direction in the two lowest ones.  Clock readings are    *)
(* floats that are 2^-22 s apart, 1024 units of an id; the model counts    *)
(* time in such grains and gives an id four units per grain, all that the  *)
(* parity needs.                                                           *)
(***************************************************************************)
EXTENDS Integers, Sequences, FiniteSets

CONSTANTS
    PerSecond,      \* grains in a second
    Bump,           \* grains in the 0.0001 s added to a clock that stands
    Past, Future,   \* the time window, in seconds (300 and 30)
    MaxCache,       \* max_replay_cache
    Bodies,         \* lengths of the bodies that are encoded
    ForeignShapes,  \* other messages under some key that reach the network
    Trails,         \* bytes that a transport leaves behind the message
    Cuts,           \* lengths to which a damaged message may be cut
    ClockSteps,     \* by how many grains a clock may move, back as well
    MaxClock,       \* bound: clock readings
    MaxSent,        \* bound: messages encoded by the two
    MaxForeign,     \* bound: foreign and damaged messages
    MaxAccepted,    \* bound: messages accepted by an endpoint
    MaxRestarts     \* bound: restarts of the two

Endpoints == {"client", "server"}
Keys      == {"shared", "other"}
Sessions  == {"this", "another"}

Peer(e)      == IF e = "client" THEN "server" ELSE "client"
Direction(e) == IF e = "client" THEN "c2s" ELSE "s2c"

ASSUME SessionAssumption ==
    /\ PerSecond \in Nat \ {0} /\ Bump \in Nat \ {0}
    /\ Past \in Nat /\ Future \in Nat
    /\ MaxCache \in Nat \ {0}
    /\ Bodies \subseteq Nat
    /\ ForeignShapes \subseteq
           [key : Keys, session : Sessions, body : Nat, plain : Nat]
    /\ Trails \subseteq 0 .. 15
    /\ Cuts \subseteq Nat
    /\ ClockSteps \subseteq Int
    /\ MaxClock \in Nat /\ MaxSent \in Nat /\ MaxForeign \in Nat
    /\ MaxAccepted \in Nat /\ MaxRestarts \in Nat

(* An encrypted message.  body is the length field of the internal header, *)
(* plain the length of the decrypted data, enc of the encrypted data as    *)
(* received; intact says that what is under msg_key is what was encrypted. *)
Message ==
    [dir : {"c2s", "s2c"}, key : Keys, session : Sessions, id : Nat,
     body : Nat, plain : Nat, enc : Nat, intact : BOOLEAN]

VARIABLES
    clock,      \* time.time() of each endpoint
    lastTime,   \* _last_time
    cache,      \* _replay_cache
    net,        \* what the network has seen: it may deliver it any time
    sent,       \* the messages that each endpoint encoded, in order
    accepted,   \* the messages that decode_encrypted_message() returned
    peak,       \* the highest clock reading so far
    restarts,   \* restarts of each endpoint
    foreign     \* foreign and damaged messages so far

vars == <<clock, lastTime, cache, net, sent, accepted, peak, restarts, foreign>>

-----------------------------------------------------------------------------
(* generate_msg_id()                                                       *)

(* Fault: a clock that reads the same twice is taken as it is.             *)
NextTime_Strict(now, last) == IF now < last THEN last + Bump ELSE now

(* Fault: the bump is made in the units of the id, four to a grain.        *)
NextTime_Units(now, last) == IF now <= last THEN last + 4 * Bump ELSE now

NextTime(now, last) == IF now <= last THEN last + Bump ELSE now

MsgId(t, isClient) ==
    LET raw == 4 * t
    IN  IF isClient THEN raw - (raw % 4)
        ELSE IF raw % 4 \in {0, 2} THEN raw + 1 ELSE raw

Timestamp(id) == id \div (4 * PerSecond)

(* Fault: only a message of whole blocks gets a block more.                *)
Padding_Short(n) == IF n % 16 = 0 THEN 16 ELSE 16 - (n % 16)

(* The padding of encode_encrypted_message(): at least 12 bytes, up to a   *)
(* whole number of blocks.                                                 *)
Padding(n) ==
    LET fill == (16 - (n % 16)) % 16
    IN  IF fill < 12 THEN fill + 16 ELSE fill

PlainLength(body) == 32 + body + Padding(32 + body)

-----------------------------------------------------------------------------
(* validate_msg_id(id, expectClient) at time now                           *)

ParityOK(id, expectClient) ==
    id % 4 \in (IF expectClient THEN {0, 2} ELSE {1, 3})

InWindow(id, now) ==
    /\ Timestamp(id) >= (now \div PerSecond) - Past
    /\ Timestamp(id) <= (now \div PerSecond) + Future

(* What eviction keeps: half of the set, rounded up.                       *)
Kept == (MaxCache + 1) \div 2

(* "Simple eviction": of the set with the id in it, a part in the order in *)
(* which the set is iterated, which is the order of a hash table.          *)
Remember(old, id, new) ==
    LET all == old \cup {id}
    IN  IF Cardinality(all) > MaxCache
        THEN new \subseteq all /\ Cardinality(new) = Kept
        ELSE new = all

(* Fault: the msg_key is not compared.                                     *)
EnvelopeOK_NoMsgKey(e, m) ==
    /\ m.enc > 0 /\ m.enc % 16 = 0
    /\ m.key = "shared" /\ m.dir = Direction(Peer(e))
    /\ m.session = "this"
    /\ m.body % 4 = 0
    /\ m.plain - 32 - m.body \in 12 .. 1024

(* decode_encrypted_message(), the gates in their order.                   *)
EnvelopeOK(e, m) ==
    /\ m.enc > 0 /\ m.enc % 16 = 0
    /\ m.intact /\ m.enc = m.plain /\ m.key = "shared" /\ m.dir = Direction(Peer(e))
    /\ m.plain >= 32
    /\ m.session = "this"
    /\ m.body % 4 = 0
    /\ m.plain - 32 >= m.body
    /\ m.plain - 32 - m.body \in 12 .. 1024

(* Fault: the cache is not looked at.                                      *)
MsgIdOK_NoReplay(e, id) ==
    ParityOK(id, Peer(e) = "client") /\ InWindow(id, clock[e])

MsgIdOK(e, id) ==
    /\ ParityOK(id, Peer(e) = "client")
    /\ InWindow(id, clock[e])
    /\ id \notin cache[e]

-----------------------------------------------------------------------------
Init ==
    /\ clock = [e \in Endpoints |-> PerSecond]
    /\ lastTime = [e \in Endpoints |-> 0]
    /\ cache = [e \in Endpoints |-> {}]
    /\ net = {}
    /\ sent = [e \in Endpoints |-> <<>>]
    /\ accepted = [e \in Endpoints |-> <<>>]
    /\ peak = clock
    /\ restarts = [e \in Endpoints |-> 0]
    /\ foreign = 0

(* The clock of an endpoint moves, or is set back.                         *)
Tick(e, d) ==
    /\ clock[e] + d \in 0 .. MaxClock
    /\ clock' = [clock EXCEPT ![e] = @ + d]
    /\ peak' = [peak EXCEPT ![e] = IF @ >= clock'[e] THEN @ ELSE clock'[e]]
    /\ UNCHANGED <<lastTime, cache, net, sent, accepted, restarts, foreign>>

(* generate_msg_id(), encode_encrypted_message(), and the transport, which *)
(* may have left padding of its own behind the message.                    *)
Send(e, body, trail) ==
    LET t == NextTime(clock[e], lastTime[e])
        m == [dir |-> Direction(e), key |-> "shared", session |-> "this",
              id |-> MsgId(t, e = "client"), body |-> body,
              plain |-> PlainLength(body), enc |-> PlainLength(body) + trail,
              intact |-> TRUE]
    IN  /\ Len(sent[e]) + Len(sent[Peer(e)]) < MaxSent
        /\ body % 4 = 0
        /\ lastTime' = [lastTime EXCEPT ![e] = t]
        /\ sent' = [sent EXCEPT ![e] = Append(@, m)]
        /\ net' = net \cup {m}
        /\ UNCHANGED <<clock, cache, accepted, peak, restarts, foreign>>

(* Somebody else's message, with an id of the peer's making: another       *)
(* session's, another key's, or one whose lengths encode() would not give. *)
SendForeign(e, s) ==
    /\ foreign < MaxForeign
    /\ foreign' = foreign + 1
    /\ net' = net \cup
           {[dir |-> Direction(e), key |-> s.key, session |-> s.session,
             id |-> MsgId(clock[e], e = "client"), body |-> s.body,
             plain |-> s.plain, enc |-> s.plain, intact |-> TRUE]}
    /\ UNCHANGED <<clock, lastTime, cache, sent, accepted, peak, restarts>>

(* The network changes or cuts a message under its msg_key.                *)
Damage(m, len) ==
    /\ foreign < MaxForeign
    /\ foreign' = foreign + 1
    /\ net' = net \cup {[m EXCEPT !.enc = len, !.intact = FALSE]}
    /\ UNCHANGED <<clock, lastTime, cache, sent, accepted, peak, restarts>>

(* decode_encrypted_message() returns.                                     *)
Accept(e, m) ==
    /\ Len(accepted[e]) < MaxAccepted
    /\ EnvelopeOK(e, m)
    /\ MsgIdOK(e, m.id)
    /\ \E new \in SUBSET (cache[e] \cup {m.id}) :
           /\ Remember(cache[e], m.id, new)
           /\ cache' = [cache EXCEPT ![e] = new]
    /\ accepted' = [accepted EXCEPT ![e] = Append(@, m)]
    /\ UNCHANGED <<clock, lastTime, net, sent, peak, restarts, foreign>>

(* Fault: the id is remembered before the message has passed.              *)
Reject_Burns(e, m) ==
    /\ ~(EnvelopeOK(e, m) /\ MsgIdOK(e, m.id))
    /\ cache' = [cache EXCEPT ![e] = @ \cup {m.id}]
    /\ UNCHANGED <<clock, lastTime, net, sent, accepted, peak, restarts, foreign>>

(* decode_encrypted_message() raises: no gate before the last changes the  *)
(* state, and the last adds an id only when it has passed.                 *)
Reject(e, m) ==
    /\ ~(EnvelopeOK(e, m) /\ MsgIdOK(e, m.id))
    /\ UNCHANGED vars

(* The process of an endpoint starts again: SessionValidationState is in   *)
(* memory only, the session id and the key are not.                        *)
Restart(e) ==
    /\ restarts[e] + restarts[Peer(e)] < MaxRestarts
    /\ restarts' = [restarts EXCEPT ![e] = @ + 1]
    /\ lastTime' = [lastTime EXCEPT ![e] = 0]
    /\ cache' = [cache EXCEPT ![e] = {}]
    /\ UNCHANGED <<clock, net, sent, accepted, peak, foreign>>

Next ==
    \E e \in Endpoints :
        \/ \E d \in ClockSteps : Tick(e, d)
        \/ \E body \in Bodies, trail \in Trails : Send(e, body, trail)
        \/ \E s \in ForeignShapes : SendForeign(e, s)
        \/ \E m \in net : \E len \in Cuts \cup {m.enc} : Damage(m, len)
        \/ \E m \in net : Accept(e, m) \/ Reject(e, m)
        \/ Restart(e)

Spec == Init /\ [][Next]_vars

-----------------------------------------------------------------------------
TypeOK ==
    /\ clock \in [Endpoints -> Nat] /\ peak \in [Endpoints -> Nat]
    /\ lastTime \in [Endpoints -> Nat]
    /\ cache \in [Endpoints -> SUBSET Nat]
    /\ net \subseteq Message
    /\ sent \in [Endpoints -> Seq(Message)]
    /\ accepted \in [Endpoints -> Seq(Message)]
    /\ restarts \in [Endpoints -> Nat] /\ foreign \in Nat

(* The replay cache stays within max_replay_cache (validate_msg_id).       *)
CacheBounded ==
    \A e \in Endpoints :
        IsFiniteSet(cache[e]) /\ Cardinality(cache[e]) <= MaxCache

(* However often the network repeats a message and in whatever order, an   *)
(* endpoint that keeps its state returns no id twice, as long as it has    *)
(* not returned more of them than the cache holds (validate_msg_id).       *)
AtMostOnce ==
    \A e \in Endpoints :
        restarts[e] = 0 /\ Len(accepted[e]) <= MaxCache =>
            \A i, j \in 1 .. Len(accepted[e]) :
                accepted[e][i].id = accepted[e][j].id => i = j

(* A message that was refused at any gate has used up no id: whatever is   *)
(* in the cache was returned to the application (the order of the gates of *)
(* decode_encrypted_message).                                              *)
OnlyAcceptedIdsBurn ==
    \A e \in Endpoints : \A id \in cache[e] :
        \E i \in 1 .. Len(accepted[e]) : accepted[e][i].id = id

(* What an endpoint returns, its peer has written under the shared key for *)
(* this session, and nobody changed it: not a message of its own that came *)
(* back, nor one with a damaged body, nor one of another session.          *)
FromThePeer ==
    \A e \in Endpoints : \A i \in 1 .. Len(accepted[e]) :
        LET m == accepted[e][i] IN
        /\ m.dir = Direction(Peer(e))
        /\ m.intact
        /\ \/ \E k \in 1 .. Len(sent[Peer(e)]) : m = sent[Peer(e)][k]
           \/ \E s \in ForeignShapes :
                  /\ s.key = "shared" /\ s.session = "this"
                  /\ m.body = s.body /\ m.plain = s.plain

(* What encode_encrypted_message() makes with an id of generate_msg_id(),  *)
(* decode_encrypted_message() takes: the only reasons to refuse it are the *)
(* time window and an id already seen.                                     *)
GenuineTaken ==
    \A e \in Endpoints : \A i \in 1 .. Len(sent[Peer(e)]) :
        LET m == sent[Peer(e)][i] IN
        InWindow(m.id, clock[e]) /\ m.id \notin cache[e] =>
            EnvelopeOK(e, m) /\ MsgIdOK(e, m.id)

(* generate_msg_id(): ids only grow, even while the clock stands still or  *)
(* is set back, as long as the object lives ...                            *)
IdsIncrease ==
    \A e \in Endpoints : restarts[e] = 0 =>
        \A i, j \in 1 .. Len(sent[e]) : i < j => sent[e][i].id < sent[e][j].id

(* ... and stay near it: at most one bump per message past the highest     *)
(* reading of the clock.                                                   *)
IdsNearClock ==
    \A e \in Endpoints :
        /\ lastTime[e] <= peak[e] + Bump * Len(sent[e])
        /\ \A i \in 1 .. Len(sent[e]) :
               sent[e][i].id <= 4 * (peak[e] + Bump * i) + 1

(* validate_msg_id(): "Validates direction parity, time bounds, and        *)
(* replay."  No id is taken twice by an object that lives on.              *)
ReplayRefused ==
    \A e \in Endpoints : restarts[e] = 0 =>
        \A i, j \in 1 .. Len(accepted[e]) :
            accepted[e][i].id = accepted[e][j].id => i = j
=============================================================================

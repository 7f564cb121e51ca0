------------------------- MODULE MTProtoCalls_proofs -------------------------
(***************************************************************************)
(* Proofs about the MTProto stack.  Of a session, for any window, cache    *)
(* and number of messages: ids grow, no message is returned twice, none    *)
(* that the peer did not make.  Of the set of seen ids, for any ids in any *)
(* order and any bound of two or more: it keeps its bound, and forgets the *)
(* oldest ids only.  Of containers and unencrypted messages, of any length *)
(* and whatever happens to them on the way: the decoders accept what the   *)
(* encoders make, and nothing else.                                        *)
(***************************************************************************)
EXTENDS MTProtoCalls, Recursion_proofs, FiniteSetTheorems, TLAPS

(***************************************************************************)
(* A session.                                                              *)
(***************************************************************************)
-----------------------------------------------------------------------------
(* generate_msg_id(): the time always moves on ...                         *)
LEMMA NextTimeGrows ==
  ASSUME NEW now \in Nat, NEW last \in Nat
  PROVE  /\ NextTime(now, last) \in Nat
         /\ NextTime(now, last) > last
         /\ NextTime(now, last) <= (IF now <= last THEN last + Bump ELSE now)
BY SessionAssumption DEF NextTime

(* ... and the parity never carries an id into the next unit of time.      *)
LEMMA MsgIdNear ==
  ASSUME NEW t \in Nat, NEW isClient \in BOOLEAN
  PROVE  /\ MsgId(t, isClient) \in Nat
         /\ 4 * t <= MsgId(t, isClient) /\ MsgId(t, isClient) <= 4 * t + 1
         /\ ParityOK(MsgId(t, isClient), isClient)
<1>1. (4 * t) % 4 = 0
    OBVIOUS
<1>2. CASE isClient
    BY <1>1, <1>2 DEF MsgId, ParityOK
<1>3. CASE ~isClient
  <2>1. MsgId(t, isClient) = 4 * t + 1
      BY <1>1, <1>3 DEF MsgId
  <2>2. (4 * t + 1) % 4 = 1
      OBVIOUS
  <2> QED
      BY <1>3, <2>1, <2>2 DEF ParityOK
<1> QED
    BY <1>2, <1>3

(* The padding that the encoder draws is the one that the decoder wants.   *)
LEMMA PaddingFits ==
  ASSUME NEW body \in Nat
  PROVE  /\ PlainLength(body) \in Nat /\ PlainLength(body) >= 32 + body
         /\ PlainLength(body) % 16 = 0
         /\ PlainLength(body) - 32 - body \in 12 .. 27
<1> DEFINE n == 32 + body
<1>1. n % 16 \in 0 .. 15
    OBVIOUS
<1>2. (16 - (n % 16)) % 16 \in 0 .. 15 /\ (n + ((16 - (n % 16)) % 16)) % 16 = 0
    BY <1>1
<1>3. Padding(n) \in 12 .. 27 /\ (n + Padding(n)) % 16 = 0
    BY <1>2 DEF Padding
<1> QED
    BY <1>3 DEF PlainLength

-----------------------------------------------------------------------------
LEMMA TypeInit == Init => TypeOK
BY SessionAssumption DEF Init, TypeOK, Endpoints

LEMMA TypeStep == TypeOK /\ [Next]_vars => TypeOK'
<1> SUFFICES ASSUME TypeOK, [Next]_vars PROVE TypeOK'
    OBVIOUS
<1>1. ASSUME NEW e \in Endpoints, NEW d \in ClockSteps, Tick(e, d) PROVE TypeOK'
  <2>1. clock[e] + d \in Nat
      BY <1>1, SessionAssumption DEF Tick
  <2>2. clock' \in [Endpoints -> Nat]
      BY <1>1, <2>1 DEF Tick, TypeOK
  <2>3. peak' \in [Endpoints -> Nat]
      BY <1>1, <2>2 DEF Tick, TypeOK
  <2> QED
      BY <1>1, <2>2, <2>3 DEF Tick, TypeOK
<1>2. ASSUME NEW e \in Endpoints, NEW body \in Bodies, NEW trail \in Trails,
             Send(e, body, trail)
      PROVE  TypeOK'
  <2> DEFINE t == NextTime(clock[e], lastTime[e])
             m == [dir |-> Direction(e), key |-> "shared", session |-> "this",
                   id |-> MsgId(t, e = "client"), body |-> body,
                   plain |-> PlainLength(body), enc |-> PlainLength(body) + trail,
                   intact |-> TRUE]
  <2>1. t \in Nat
      BY NextTimeGrows DEF TypeOK
  <2>2. m \in Message
    <3>1. MsgId(t, e = "client") \in Nat
        BY <2>1, MsgIdNear
    <3>2. PlainLength(body) \in Nat /\ PlainLength(body) + trail \in Nat /\ body \in Nat
        BY PaddingFits, SessionAssumption
    <3> HIDE DEF t
    <3> QED
        BY <3>1, <3>2 DEF Message, Direction, Keys, Sessions
  <2>3. /\ lastTime' = [lastTime EXCEPT ![e] = t]
        /\ sent' = [sent EXCEPT ![e] = Append(@, m)] /\ net' = net \cup {m}
        /\ UNCHANGED <<clock, cache, accepted, peak, restarts, foreign>>
      BY <1>2 DEF Send
  <2> HIDE DEF m, t
  <2> QED
      BY <2>1, <2>2, <2>3 DEF TypeOK
<1>3. ASSUME NEW e \in Endpoints, NEW s \in ForeignShapes, SendForeign(e, s) PROVE TypeOK'
  <2> DEFINE m == [dir |-> Direction(e), key |-> s.key, session |-> s.session,
                   id |-> MsgId(clock[e], e = "client"), body |-> s.body,
                   plain |-> s.plain, enc |-> s.plain, intact |-> TRUE]
  <2>1. m \in Message
    <3>1. MsgId(clock[e], e = "client") \in Nat
        BY MsgIdNear DEF TypeOK
    <3>2. s \in [key : Keys, session : Sessions, body : Nat, plain : Nat]
        BY SessionAssumption
    <3> QED
        BY <3>1, <3>2 DEF Message, Direction
  <2>2. net' = net \cup {m} /\ foreign' = foreign + 1
      BY <1>3 DEF SendForeign
  <2> HIDE DEF m
  <2> QED
      BY <1>3, <2>1, <2>2 DEF SendForeign, TypeOK
<1>4. ASSUME NEW m \in net, NEW len \in Cuts \cup {m.enc}, Damage(m, len) PROVE TypeOK'
  <2>1. [m EXCEPT !.enc = len, !.intact = FALSE] \in Message
    <3>1. m \in Message /\ len \in Nat
        BY SessionAssumption DEF TypeOK, Message
    <3> QED
        BY <3>1 DEF Message
  <2> QED
      BY <1>4, <2>1 DEF Damage, TypeOK
<1>5. ASSUME NEW e \in Endpoints, NEW m \in net, Accept(e, m) PROVE TypeOK'
  <2>1. m \in Message /\ m.id \in Nat
      BY DEF TypeOK, Message
  <2>2. PICK new \in SUBSET (cache[e] \cup {m.id}) : cache' = [cache EXCEPT ![e] = new]
      BY <1>5 DEF Accept
  <2>3. cache' \in [Endpoints -> SUBSET Nat]
      BY <2>1, <2>2 DEF TypeOK
  <2>4. accepted' \in [Endpoints -> Seq(Message)]
      BY <1>5, <2>1 DEF Accept, TypeOK
  <2> QED
      BY <1>5, <2>3, <2>4 DEF Accept, TypeOK
<1>6. ASSUME NEW e \in Endpoints, Restart(e) PROVE TypeOK'
    BY <1>6 DEF Restart, TypeOK
<1>7. CASE UNCHANGED vars
    BY <1>7 DEF vars, TypeOK
<1> QED
    BY <1>1, <1>2, <1>3, <1>4, <1>5, <1>6, <1>7 DEF Next, Reject

(* Type correctness.                                                       *)
THEOREM TypeCorrect == Spec => []TypeOK
BY TypeInit, TypeStep, PTL DEF Spec

-----------------------------------------------------------------------------
(* What validate_msg_id() keeps of its past.  Until the first eviction the *)
(* cache is exactly the ids that were returned, each once: an eviction     *)
(* needs one more than the cache holds.                                    *)
Remembers(e) ==
    restarts[e] = 0 /\ Len(accepted[e]) <= MaxCache =>
        /\ Cardinality(cache[e]) <= Len(accepted[e])
        /\ \A i \in 1 .. Len(accepted[e]) : accepted[e][i].id \in cache[e]

ReplayInv ==
    TypeOK /\ CacheBounded /\ (\A e \in Endpoints : Remembers(e)) /\ AtMostOnce

LEMMA ReplayInit == Init => ReplayInv
<1> SUFFICES ASSUME Init PROVE ReplayInv
    OBVIOUS
<1>1. \A e \in Endpoints : cache[e] = {} /\ accepted[e] = <<>>
    BY DEF Init
<1>2. \A e \in Endpoints : IsFiniteSet(cache[e]) /\ Cardinality(cache[e]) = 0
  <2> SUFFICES ASSUME NEW e \in Endpoints
               PROVE  IsFiniteSet(cache[e]) /\ Cardinality(cache[e]) = 0
      OBVIOUS
  <2>1. cache[e] = {}
      BY <1>1
  <2> QED
      BY <2>1, FS_EmptySet, Zenon
<1>3. CacheBounded
    BY <1>2, SessionAssumption DEF CacheBounded
<1>4. (\A e \in Endpoints : Remembers(e)) /\ AtMostOnce
    BY <1>1, <1>2 DEF Remembers, AtMostOnce
<1> QED
    BY <1>3, <1>4, TypeInit DEF ReplayInv

(* Accepting a message, at the endpoint that does.                         *)
LEMMA AcceptRemembers ==
  ASSUME ReplayInv, NEW e \in Endpoints, NEW m \in net, Accept(e, m)
  PROVE  /\ IsFiniteSet(cache'[e]) /\ Cardinality(cache'[e]) <= MaxCache
         /\ Remembers(e)'
         /\ restarts'[e] = 0 /\ Len(accepted'[e]) <= MaxCache =>
                \A i, j \in 1 .. Len(accepted'[e]) :
                    accepted'[e][i].id = accepted'[e][j].id => i = j
<1> DEFINE all == cache[e] \cup {m.id}
           n == Len(accepted[e])
<1>1. PICK new \in SUBSET all : /\ Remember(cache[e], m.id, new)
                                /\ cache' = [cache EXCEPT ![e] = new]
    BY DEF Accept
<1>2. /\ cache'[e] = new /\ m.id \notin cache[e] /\ restarts' = restarts
      /\ accepted' = [accepted EXCEPT ![e] = Append(@, m)]
    BY <1>1 DEF Accept, MsgIdOK, ReplayInv, TypeOK
<1>3. /\ accepted[e] \in Seq(Message) /\ m \in Message /\ n \in Nat
      /\ accepted \in [Endpoints -> Seq(Message)]
    BY DEF ReplayInv, TypeOK
<1>4. /\ Len(accepted'[e]) = n + 1
      /\ accepted'[e][n + 1] = m
      /\ \A i \in 1 .. n : accepted'[e][i] = accepted[e][i]
    BY <1>2, <1>3
<1>5. IsFiniteSet(cache[e]) /\ Cardinality(cache[e]) <= MaxCache
    BY DEF ReplayInv, CacheBounded
<1>6. IsFiniteSet(all) /\ Cardinality(all) = Cardinality(cache[e]) + 1
    BY <1>2, <1>5, FS_AddElement
<1>7. /\ Cardinality(cache[e]) \in Nat /\ Cardinality(all) \in Nat
      /\ MaxCache \in Nat \ {0} /\ Kept <= MaxCache
    BY <1>5, <1>6, FS_CardinalityType, SessionAssumption DEF Kept
<1>8. IsFiniteSet(new) /\ Cardinality(new) <= MaxCache
  <2>1. IsFiniteSet(new)
      BY <1>1, <1>6, FS_Subset
  <2>2. Cardinality(all) > MaxCache => Cardinality(new) = Kept
      BY <1>1 DEF Remember
  <2>3. ~(Cardinality(all) > MaxCache) => new = all
      BY <1>1 DEF Remember
  <2> QED
      BY <1>7, <2>1, <2>2, <2>3
<1>9. ASSUME restarts[e] = 0, n + 1 <= MaxCache
      PROVE  /\ new = all /\ Cardinality(cache[e]) <= n
             /\ \A i \in 1 .. n : accepted[e][i].id \in cache[e]
             /\ \A i, j \in 1 .. n : accepted[e][i].id = accepted[e][j].id => i = j
  <2>1. n <= MaxCache
      BY <1>3, <1>7, <1>9
  <2>2. /\ Cardinality(cache[e]) <= n
        /\ \A i \in 1 .. n : accepted[e][i].id \in cache[e]
      BY <1>9, <2>1 DEF ReplayInv, Remembers
  <2>3. \A i, j \in 1 .. n : accepted[e][i].id = accepted[e][j].id => i = j
      BY <1>9, <2>1 DEF ReplayInv, AtMostOnce
  <2>4. ~(Cardinality(all) > MaxCache)
      BY <1>3, <1>6, <1>7, <1>9, <2>2
  <2> QED
      BY <1>1, <2>2, <2>3, <2>4 DEF Remember
<1> HIDE DEF n
<1>10. Remembers(e)'
  <2> SUFFICES ASSUME restarts[e] = 0, n + 1 <= MaxCache
               PROVE  /\ Cardinality(new) <= n + 1
                      /\ \A i \in 1 .. n + 1 : accepted'[e][i].id \in new
      BY <1>2, <1>4 DEF Remembers
  <2>1. /\ new = all /\ Cardinality(new) <= n + 1
        /\ \A i \in 1 .. n : accepted'[e][i].id \in new
    <3>1. new = all /\ Cardinality(cache[e]) <= n
        BY <1>9
    <3>2. \A i \in 1 .. n : accepted[e][i].id \in all
        BY <1>9
    <3> HIDE DEF all
    <3> QED
        BY <1>3, <1>4, <1>6, <1>7, <3>1, <3>2
  <2>2. accepted'[e][n + 1].id \in new
      BY <1>4, <2>1
  <2>3. \A i \in 1 .. n + 1 : i \in 1 .. n \/ i = n + 1
      BY <1>3
  <2> QED
      BY <2>1, <2>2, <2>3
<1>11. ASSUME restarts'[e] = 0, Len(accepted'[e]) <= MaxCache,
              NEW i \in 1 .. n + 1, NEW j \in 1 .. n + 1,
              accepted'[e][i].id = accepted'[e][j].id
       PROVE  i = j
  <2>1. /\ \A k \in 1 .. n : accepted[e][k].id \in cache[e]
        /\ \A k, l \in 1 .. n : accepted[e][k].id = accepted[e][l].id => k = l
    <3>1. restarts[e] = 0 /\ n + 1 <= MaxCache
        BY <1>2, <1>4, <1>11
    <3> QED
        BY <1>9, <3>1
  <2>2. accepted'[e][n + 1].id \notin cache[e]
      BY <1>2, <1>4
  <2> QED
    <3>1. CASE i \in 1 .. n /\ j \in 1 .. n
        BY <1>4, <1>11, <2>1, <3>1
    <3>2. CASE i \in 1 .. n /\ j = n + 1
        BY <1>4, <1>11, <2>1, <2>2, <3>2
    <3>3. CASE i = n + 1 /\ j \in 1 .. n
        BY <1>4, <1>11, <2>1, <2>2, <3>3
    <3>4. CASE i = n + 1 /\ j = n + 1
        BY <3>4
    <3> QED
        BY <1>3, <3>1, <3>2, <3>3, <3>4
<1> QED
    BY <1>2, <1>4, <1>8, <1>10, <1>11

LEMMA ReplayStep == ReplayInv /\ [Next]_vars => ReplayInv'
<1> SUFFICES ASSUME ReplayInv, [Next]_vars PROVE ReplayInv'
    OBVIOUS
<1>1. TypeOK'
    BY TypeStep DEF ReplayInv
<1>2. CASE UNCHANGED <<cache, accepted, restarts>>
    BY <1>1, <1>2 DEF ReplayInv, CacheBounded, Remembers, AtMostOnce
<1>3. ASSUME NEW e \in Endpoints, NEW m \in net, Accept(e, m) PROVE ReplayInv'
  <2>1. \A f \in Endpoints \ {e} :
            cache'[f] = cache[f] /\ accepted'[f] = accepted[f] /\ restarts'[f] = restarts[f]
      BY <1>3 DEF Accept, ReplayInv, TypeOK
  <2>2. CacheBounded'
      BY <1>3, <2>1, AcceptRemembers DEF ReplayInv, CacheBounded
  <2>3. \A f \in Endpoints : Remembers(f)'
      BY <1>3, <2>1, AcceptRemembers DEF ReplayInv, Remembers
  <2>4. AtMostOnce'
      BY <1>3, <2>1, AcceptRemembers DEF ReplayInv, AtMostOnce
  <2> QED
      BY <1>1, <2>2, <2>3, <2>4 DEF ReplayInv
<1>4. ASSUME NEW e \in Endpoints, Restart(e) PROVE ReplayInv'
  <2>1. /\ cache'[e] = {} /\ restarts'[e] # 0
        /\ \A f \in Endpoints \ {e} : cache'[f] = cache[f] /\ restarts'[f] = restarts[f]
        /\ accepted' = accepted
      BY <1>4 DEF Restart, ReplayInv, TypeOK
  <2>2. CacheBounded'
      BY <2>1, FS_EmptySet, SessionAssumption DEF ReplayInv, CacheBounded
  <2>3. (\A f \in Endpoints : Remembers(f)') /\ AtMostOnce'
      BY <2>1 DEF ReplayInv, Remembers, AtMostOnce
  <2> QED
      BY <1>1, <2>2, <2>3 DEF ReplayInv
<1> QED
    BY <1>2, <1>3, <1>4 DEF Next, vars, Tick, Send, SendForeign, Damage, Reject

LEMMA ReplayKept == Spec => []ReplayInv
BY ReplayInit, ReplayStep, PTL DEF Spec

(* The replay cache never exceeds max_replay_cache.                        *)
THEOREM CacheAlwaysBounded == Spec => []CacheBounded
BY ReplayKept, PTL DEF ReplayInv

(* An endpoint returns no id twice, whatever the network repeats, until it *)
(* has returned more ids than its cache holds.                             *)
THEOREM AlwaysAtMostOnce == Spec => []AtMostOnce
BY ReplayKept, PTL DEF ReplayInv

-----------------------------------------------------------------------------
(* A cache only holds ids that were returned: every gate comes before the  *)
(* id is added.                                                            *)
LEMMA BurnStep == TypeOK /\ OnlyAcceptedIdsBurn /\ [Next]_vars => OnlyAcceptedIdsBurn'
<1> SUFFICES ASSUME TypeOK, OnlyAcceptedIdsBurn, [Next]_vars PROVE OnlyAcceptedIdsBurn'
    OBVIOUS
<1>1. CASE UNCHANGED <<cache, accepted>>
    BY <1>1 DEF OnlyAcceptedIdsBurn
<1>2. ASSUME NEW e \in Endpoints, NEW m \in net, Accept(e, m)
      PROVE  OnlyAcceptedIdsBurn'
  <2>1. PICK new \in SUBSET (cache[e] \cup {m.id}) : cache' = [cache EXCEPT ![e] = new]
      BY <1>2 DEF Accept
  <2>2. /\ accepted[e] \in Seq(Message) /\ m \in Message
        /\ accepted' = [accepted EXCEPT ![e] = Append(@, m)]
        /\ accepted \in [Endpoints -> Seq(Message)]
        /\ cache'[e] = new
        /\ \A f \in Endpoints \ {e} : cache'[f] = cache[f] /\ accepted'[f] = accepted[f]
      BY <1>2, <2>1 DEF Accept, TypeOK
  <2>3. /\ Len(accepted[e]) \in Nat /\ Len(accepted'[e]) = Len(accepted[e]) + 1
        /\ accepted'[e][Len(accepted[e]) + 1] = m
        /\ \A i \in 1 .. Len(accepted[e]) : accepted'[e][i] = accepted[e][i]
      BY <2>2
  <2>4. ASSUME NEW id \in cache'[e]
        PROVE  \E i \in 1 .. Len(accepted'[e]) : accepted'[e][i].id = id
    <3>1. CASE id = m.id
        BY <2>3, <3>1
    <3>2. CASE id \in cache[e]
      <4>1. PICK i \in 1 .. Len(accepted[e]) : accepted[e][i].id = id
          BY <3>2 DEF OnlyAcceptedIdsBurn
      <4> QED
          BY <2>3, <4>1
    <3> QED
        BY <2>2, <3>1, <3>2
  <2> QED
      BY <2>2, <2>4 DEF OnlyAcceptedIdsBurn
<1>3. ASSUME NEW e \in Endpoints, Restart(e) PROVE OnlyAcceptedIdsBurn'
    BY <1>3 DEF Restart, TypeOK, OnlyAcceptedIdsBurn
<1> QED
    BY <1>1, <1>2, <1>3 DEF Next, vars, Tick, Send, SendForeign, Damage, Reject

(* A message that was refused has used up no id.                           *)
THEOREM OnlyAcceptedBurn == Spec => []OnlyAcceptedIdsBurn
<1>1. Init => OnlyAcceptedIdsBurn
    BY DEF Init, OnlyAcceptedIdsBurn
<1> QED
    BY <1>1, BurnStep, TypeCorrect, PTL DEF Spec

-----------------------------------------------------------------------------
(* Ids against _last_time and the clock: the last id lies within a grain   *)
(* of _last_time, and the clock within its peak.                           *)
IdInv ==
    /\ TypeOK
    /\ \A e \in Endpoints : clock[e] <= peak[e]
    /\ \A e \in Endpoints : restarts[e] = 0 =>
           \A i \in 1 .. Len(sent[e]) : sent[e][i].id <= 4 * lastTime[e] + 1
    /\ IdsIncrease
    /\ IdsNearClock

LEMMA AtMostOneBump ==
  ASSUME NEW now \in Nat, NEW last \in Nat, NEW top \in Nat, NEW ahead \in Nat,
         NEW t \in Nat, now <= top, last <= top + ahead,
         t <= (IF now <= last THEN last + Bump ELSE now)
  PROVE  t <= top + (ahead + Bump)
BY SessionAssumption

(* The id that a Send draws.                                               *)
LEMMA SendStep ==
  ASSUME IdInv, NEW e \in Endpoints, NEW body \in Bodies, NEW trail \in Trails,
         Send(e, body, trail)
  PROVE  /\ \A f \in Endpoints \ {e} : sent'[f] = sent[f] /\ lastTime'[f] = lastTime[f]
         /\ Len(sent'[e]) = Len(sent[e]) + 1 /\ Len(sent[e]) \in Nat
         /\ \A i \in 1 .. Len(sent[e]) : sent'[e][i] = sent[e][i]
         /\ lastTime'[e] \in Nat /\ lastTime'[e] > lastTime[e]
         /\ lastTime'[e] <= peak[e] + Bump * (Len(sent[e]) + 1)
         /\ sent'[e][Len(sent[e]) + 1].id >= 4 * lastTime'[e]
         /\ sent'[e][Len(sent[e]) + 1].id <= 4 * lastTime'[e] + 1
         /\ sent'[e][Len(sent[e]) + 1].id \in Nat
<1> DEFINE t == NextTime(clock[e], lastTime[e])
           n == Len(sent[e])
           m == [dir |-> Direction(e), key |-> "shared", session |-> "this",
                 id |-> MsgId(t, e = "client"), body |-> body,
                 plain |-> PlainLength(body), enc |-> PlainLength(body) + trail,
                 intact |-> TRUE]
<1>1. /\ clock[e] \in Nat /\ lastTime[e] \in Nat /\ peak[e] \in Nat
      /\ sent \in [Endpoints -> Seq(Message)] /\ lastTime \in [Endpoints -> Nat]
      /\ sent[e] \in Seq(Message) /\ n \in Nat
      /\ Bump \in Nat \ {0}
    BY SessionAssumption DEF IdInv, TypeOK
<1>2. /\ lastTime' = [lastTime EXCEPT ![e] = t]
      /\ sent' = [sent EXCEPT ![e] = Append(@, m)]
    BY DEF Send
<1>3. /\ t \in Nat /\ t > lastTime[e]
      /\ t <= (IF clock[e] <= lastTime[e] THEN lastTime[e] + Bump ELSE clock[e])
    BY <1>1, NextTimeGrows
<1>4. t <= peak[e] + Bump * (n + 1)
  <2>1. Bump * (n + 1) = Bump * n + Bump /\ Bump * n \in Nat
      BY <1>1
  <2>2. clock[e] <= peak[e] /\ lastTime[e] <= peak[e] + Bump * n
      BY DEF IdInv, IdsNearClock
  <2>3. t <= peak[e] + (Bump * n + Bump)
    <3> HIDE DEF t, n
    <3> QED
        BY <1>1, <1>3, <2>1, <2>2, AtMostOneBump
  <2> QED
      BY <2>1, <2>3
<1>5. m.id \in Nat /\ m.id >= 4 * t /\ m.id <= 4 * t + 1
    BY <1>3, MsgIdNear
<1> HIDE DEF t, m
<1>6. /\ sent'[e] = Append(sent[e], m) /\ lastTime'[e] = t
      /\ \A f \in Endpoints \ {e} : sent'[f] = sent[f] /\ lastTime'[f] = lastTime[f]
    BY <1>1, <1>2
<1>7. /\ Len(sent'[e]) = n + 1 /\ sent'[e][n + 1] = m
      /\ \A i \in 1 .. n : sent'[e][i] = sent[e][i]
    BY <1>1, <1>6
<1> HIDE DEF n
<1> QED
    BY <1>1, <1>3, <1>4, <1>5, <1>6, <1>7 DEF n

LEMMA IdStep == IdInv /\ [Next]_vars => IdInv'
<1> SUFFICES ASSUME IdInv, [Next]_vars PROVE IdInv'
    OBVIOUS
<1>1. TypeOK'
    BY TypeStep DEF IdInv
<1>2. /\ clock \in [Endpoints -> Nat] /\ peak \in [Endpoints -> Nat]
      /\ lastTime \in [Endpoints -> Nat] /\ sent \in [Endpoints -> Seq(Message)]
      /\ Bump \in Nat \ {0}
      /\ \A e \in Endpoints : \A i \in 1 .. Len(sent[e]) : sent[e][i].id \in Nat
      /\ \A e \in Endpoints : Len(sent[e]) \in Nat
  <2>1. \A m \in Message : m.id \in Nat
      BY DEF Message
  <2>2. \A e \in Endpoints : sent[e] \in Seq(Message)
      BY DEF IdInv, TypeOK
  <2>3. \A e \in Endpoints :
          Len(sent[e]) \in Nat /\ \A i \in 1 .. Len(sent[e]) : sent[e][i] \in Message
      BY <2>2
  <2> QED
      BY SessionAssumption, <2>1, <2>3 DEF IdInv, TypeOK
<1>3. CASE UNCHANGED <<clock, peak, lastTime, sent, restarts>>
    BY <1>1, <1>3 DEF IdInv, IdsIncrease, IdsNearClock
<1>4. ASSUME NEW e \in Endpoints, NEW d \in ClockSteps, Tick(e, d) PROVE IdInv'
  <2>1. /\ \A f \in Endpoints : clock'[f] <= peak'[f] /\ peak'[f] >= peak[f]
        /\ peak' \in [Endpoints -> Nat]
        /\ UNCHANGED <<lastTime, sent, restarts>>
      BY <1>1, <1>2, <1>4 DEF Tick, IdInv, TypeOK
  <2>2. IdsNearClock'
    <3> SUFFICES ASSUME NEW f \in Endpoints
                 PROVE  /\ lastTime[f] <= peak'[f] + Bump * Len(sent[f])
                        /\ \A i \in 1 .. Len(sent[f]) :
                               sent[f][i].id <= 4 * (peak'[f] + Bump * i) + 1
        BY <2>1 DEF IdsNearClock
    <3>1. /\ lastTime[f] <= peak[f] + Bump * Len(sent[f])
          /\ \A i \in 1 .. Len(sent[f]) : sent[f][i].id <= 4 * (peak[f] + Bump * i) + 1
        BY DEF IdInv, IdsNearClock
    <3>2. peak[f] \in Nat /\ peak'[f] \in Nat /\ peak'[f] >= peak[f] /\ lastTime[f] \in Nat
        BY <1>2, <2>1
    <3>3. lastTime[f] <= peak'[f] + Bump * Len(sent[f])
      <4>1. Bump * Len(sent[f]) \in Nat
          BY <1>2
      <4> QED
          BY <3>1, <3>2, <4>1
    <3>4. ASSUME NEW i \in 1 .. Len(sent[f])
          PROVE  sent[f][i].id <= 4 * (peak'[f] + Bump * i) + 1
      <4>1. Bump * i \in Nat /\ sent[f][i].id \in Nat
          BY <1>2
      <4>2. sent[f][i].id <= 4 * (peak[f] + Bump * i) + 1
          BY <3>1
      <4> QED
          BY <3>2, <4>1, <4>2
    <3> QED
        BY <3>3, <3>4
  <2> QED
      BY <1>1, <2>1, <2>2 DEF IdInv, IdsIncrease
<1>5. ASSUME NEW e \in Endpoints, NEW body \in Bodies, NEW trail \in Trails,
             Send(e, body, trail)
      PROVE  IdInv'
  <2> DEFINE n == Len(sent[e])
  <2>1. UNCHANGED <<clock, peak, restarts>>
      BY <1>5 DEF Send
  <2>2. restarts[e] = 0 => \A i \in 1 .. n : sent[e][i].id <= 4 * lastTime[e] + 1
      BY DEF IdInv
  <2>3. restarts[e] = 0 =>
            \A i \in 1 .. n + 1 : sent'[e][i].id <= 4 * lastTime'[e] + 1
    <3> SUFFICES ASSUME restarts[e] = 0, NEW i \in 1 .. n + 1
                 PROVE  sent'[e][i].id <= 4 * lastTime'[e] + 1
        OBVIOUS
    <3>1. lastTime[e] \in Nat /\ lastTime'[e] \in Nat /\ lastTime'[e] > lastTime[e]
        BY <1>2, <1>5, SendStep
    <3>2. CASE i \in 1 .. n
      <4>1. sent'[e][i] = sent[e][i] /\ sent[e][i].id \in Nat
          BY <1>2, <1>5, <3>2, SendStep
      <4>2. sent[e][i].id <= 4 * lastTime[e] + 1
          BY <2>2, <3>2
      <4>3. 4 * lastTime[e] + 1 <= 4 * lastTime'[e] + 1
          BY <3>1
      <4>4. sent[e][i].id <= 4 * lastTime'[e] + 1
          BY <3>1, <4>1, <4>2, <4>3
      <4> QED
          BY <4>1, <4>4
    <3>3. CASE i = n + 1
        BY <1>5, <3>3, SendStep
    <3> QED
        BY <1>2, <3>2, <3>3
  <2>4. restarts[e] = 0 =>
            \A i, j \in 1 .. n + 1 : i < j => sent'[e][i].id < sent'[e][j].id
    <3> SUFFICES ASSUME restarts[e] = 0, NEW i \in 1 .. n + 1, NEW j \in 1 .. n + 1, i < j
                 PROVE  sent'[e][i].id < sent'[e][j].id
        OBVIOUS
    <3>1. CASE j \in 1 .. n
      <4>1. i \in 1 .. n
          BY <1>2, <3>1
      <4> QED
          BY <1>5, <3>1, <4>1, SendStep DEF IdInv, IdsIncrease
    <3>2. CASE j = n + 1
      <4>1. i \in 1 .. n
          BY <1>2, <3>2
      <4>2. /\ lastTime[e] \in Nat /\ lastTime'[e] \in Nat /\ lastTime'[e] > lastTime[e]
            /\ sent'[e][i] = sent[e][i] /\ sent[e][i].id \in Nat
            /\ sent'[e][j].id >= 4 * lastTime'[e] /\ sent'[e][j].id \in Nat
          BY <1>2, <1>5, <3>2, <4>1, SendStep
      <4>3. sent[e][i].id <= 4 * lastTime[e] + 1
          BY <2>2, <4>1
      <4> QED
          BY <4>2, <4>3
    <3> QED
        BY <1>2, <3>1, <3>2
  <2>5. /\ lastTime'[e] <= peak[e] + Bump * (n + 1)
        /\ \A i \in 1 .. n + 1 : sent'[e][i].id <= 4 * (peak[e] + Bump * i) + 1
    <3>1. lastTime'[e] <= peak[e] + Bump * (n + 1)
        BY <1>5, SendStep
    <3>2. ASSUME NEW i \in 1 .. n + 1
          PROVE  sent'[e][i].id <= 4 * (peak[e] + Bump * i) + 1
      <4>1. CASE i \in 1 .. n
          BY <1>5, <4>1, SendStep DEF IdInv, IdsNearClock
      <4>2. CASE i = n + 1
        <5>1. Bump * (n + 1) \in Nat /\ peak[e] \in Nat
            BY <1>2
        <5> DEFINE product == Bump * (n + 1)
        <5> HIDE DEF product
        <5> QED
            BY <1>5, <3>1, <4>2, <5>1, SendStep DEF product
      <4> QED
          BY <1>2, <4>1, <4>2
    <3> QED
        BY <3>1, <3>2
  <2>6. IdsNearClock' /\ IdsIncrease'
    <3>1. ASSUME NEW f \in Endpoints, f # e
          PROVE  sent'[f] = sent[f] /\ lastTime'[f] = lastTime[f]
        BY <1>5, <3>1, SendStep
    <3>2. Len(sent'[e]) = n + 1
        BY <1>5, SendStep
    <3>3. IdsNearClock'
        BY <2>1, <2>5, <3>1, <3>2 DEF IdInv, IdsNearClock
    <3>4. IdsIncrease'
        BY <2>1, <2>4, <3>1, <3>2 DEF IdInv, IdsIncrease
    <3> QED
        BY <3>3, <3>4
  <2>7. \A f \in Endpoints : restarts'[f] = 0 =>
            \A i \in 1 .. Len(sent'[f]) : sent'[f][i].id <= 4 * lastTime'[f] + 1
      BY <1>5, <2>1, <2>3, SendStep DEF IdInv
  <2> QED
      BY <1>1, <2>1, <2>6, <2>7 DEF IdInv
<1>6. ASSUME NEW e \in Endpoints, Restart(e) PROVE IdInv'
  <2>1. /\ restarts'[e] # 0 /\ lastTime'[e] = 0
        /\ \A f \in Endpoints \ {e} : lastTime'[f] = lastTime[f] /\ restarts'[f] = restarts[f]
        /\ UNCHANGED <<clock, peak, sent>>
      BY <1>6 DEF Restart, IdInv, TypeOK
  <2>2. 0 <= peak[e] + Bump * Len(sent[e])
    <3>1. Bump * Len(sent[e]) \in Nat /\ peak[e] \in Nat
        BY <1>2
    <3> QED
        BY <3>1
  <2>3. IdsNearClock'
      BY <2>1, <2>2 DEF IdInv, IdsNearClock
  <2>4. IdsIncrease'
      BY <2>1 DEF IdInv, IdsIncrease
  <2> QED
      BY <1>1, <2>1, <2>3, <2>4 DEF IdInv
<1> QED
    BY <1>3, <1>4, <1>5, <1>6 DEF Next, vars, SendForeign, Damage, Accept, Reject

LEMMA IdInit == Init => IdInv
<1> SUFFICES ASSUME Init PROVE IdInv
    OBVIOUS
<1>1. \A e \in Endpoints : sent[e] = <<>> /\ lastTime[e] = 0 /\ clock[e] = peak[e]
                              /\ peak[e] \in Nat
    BY SessionAssumption DEF Init
<1>2. \A e \in Endpoints : Bump * Len(sent[e]) = 0
    BY <1>1, SessionAssumption
<1> QED
    BY <1>1, <1>2, TypeInit DEF IdInv, IdsIncrease, IdsNearClock

LEMMA IdKept == Spec => []IdInv
BY IdInit, IdStep, PTL DEF Spec

(* generate_msg_id(): ids only grow while the object lives, whatever the   *)
(* clock does.                                                             *)
THEOREM IdsAlwaysIncrease == Spec => []IdsIncrease
BY IdKept, PTL DEF IdInv

(* Ids run ahead of the clock by one bump per message at most.             *)
THEOREM IdsAlwaysNearClock == Spec => []IdsNearClock
BY IdKept, PTL DEF IdInv

-----------------------------------------------------------------------------
(* What the network holds, nobody made up: a message that is intact was    *)
(* encoded by an endpoint or is one of the foreign ones.                   *)
Made(m) ==
    \/ \E e \in Endpoints :
          m.dir = Direction(e) /\ \E k \in 1 .. Len(sent[e]) : m = sent[e][k]
    \/ \E s \in ForeignShapes :
          m.key = s.key /\ m.session = s.session /\ m.body = s.body /\ m.plain = s.plain

OriginInv == TypeOK /\ (\A m \in net : m.intact => Made(m)) /\ FromThePeer

(* Made() survives: sent only grows.                                       *)
LEMMA MadeStays ==
  ASSUME TypeOK, NEW m, Made(m), NEW e \in Endpoints, NEW x \in Message,
         sent' = [sent EXCEPT ![e] = Append(@, x)]
  PROVE  Made(m)'
<1>1. /\ sent \in [Endpoints -> Seq(Message)] /\ Len(sent[e]) \in Nat
    BY DEF TypeOK
<1>2. \A f \in Endpoints : \A k \in 1 .. Len(sent[f]) :
          k \in 1 .. Len(sent'[f]) /\ sent'[f][k] = sent[f][k]
    BY <1>1
<1> QED
    BY <1>2 DEF Made

(* What Send puts into sent[e] and into the network.                       *)
LEMMA SendMakes ==
  ASSUME TypeOK, NEW e \in Endpoints, NEW body \in Bodies, NEW trail \in Trails,
         Send(e, body, trail)
  PROVE  \E m \in Message :
             /\ net' = net \cup {m} /\ sent' = [sent EXCEPT ![e] = Append(@, m)]
             /\ m.dir = Direction(e) /\ m.key = "shared" /\ m.session = "this"
             /\ m.intact /\ m.body = body /\ body % 4 = 0
             /\ m.plain = PlainLength(body) /\ m.enc = PlainLength(body) + trail
             /\ ParityOK(m.id, e = "client")
<1> DEFINE t == NextTime(clock[e], lastTime[e])
           m == [dir |-> Direction(e), key |-> "shared", session |-> "this",
                 id |-> MsgId(t, e = "client"), body |-> body,
                 plain |-> PlainLength(body), enc |-> PlainLength(body) + trail,
                 intact |-> TRUE]
<1>1. t \in Nat
    BY NextTimeGrows DEF TypeOK
<1>2. MsgId(t, e = "client") \in Nat /\ ParityOK(MsgId(t, e = "client"), e = "client")
    BY <1>1, MsgIdNear
<1>3. PlainLength(body) \in Nat /\ PlainLength(body) + trail \in Nat /\ body \in Nat
    BY PaddingFits, SessionAssumption
<1>4. net' = net \cup {m} /\ sent' = [sent EXCEPT ![e] = Append(@, m)] /\ body % 4 = 0
    BY DEF Send
<1> HIDE DEF t
<1>5. m \in Message
    BY <1>2, <1>3 DEF Message, Direction, Keys, Sessions
<1>6. ParityOK(m.id, e = "client")
    BY <1>2
<1> QED
    BY <1>4, <1>5, <1>6

LEMMA OriginStep == OriginInv /\ [Next]_vars => OriginInv'
<1> SUFFICES ASSUME OriginInv, [Next]_vars PROVE OriginInv'
    OBVIOUS
<1>1. TypeOK'
    BY TypeStep DEF OriginInv
<1>2. CASE UNCHANGED <<net, sent, accepted>>
    BY <1>1, <1>2 DEF OriginInv, Made, FromThePeer
<1>3. ASSUME NEW e \in Endpoints, NEW body \in Bodies, NEW trail \in Trails,
             Send(e, body, trail)
      PROVE  OriginInv'
  <2>1. PICK m \in Message :
            /\ net' = net \cup {m} /\ sent' = [sent EXCEPT ![e] = Append(@, m)]
            /\ m.dir = Direction(e)
      BY <1>3, SendMakes DEF OriginInv
  <2>2. Made(m)'
    <3>1. /\ sent'[e] = Append(sent[e], m) /\ sent[e] \in Seq(Message)
        BY <2>1 DEF OriginInv, TypeOK
    <3>2. Len(sent[e]) + 1 \in 1 .. Len(sent'[e]) /\ sent'[e][Len(sent[e]) + 1] = m
        BY <3>1
    <3> QED
        BY <2>1, <3>2 DEF Made
  <2>3. \A x \in net' : x.intact => Made(x)'
      BY <2>1, <2>2, MadeStays DEF OriginInv
  <2>4. FromThePeer'
    <3>1. accepted' = accepted
        BY <1>3 DEF Send
    <3>2. /\ sent \in [Endpoints -> Seq(Message)] /\ Len(sent[e]) \in Nat
        BY DEF OriginInv, TypeOK
    <3>3. \A f \in Endpoints : \A k \in 1 .. Len(sent[f]) :
              k \in 1 .. Len(sent'[f]) /\ sent'[f][k] = sent[f][k]
        BY <2>1, <3>2
    <3>4. \A f \in Endpoints : Peer(f) \in Endpoints
        BY DEF Peer, Endpoints
    <3> QED
        BY <3>1, <3>3, <3>4 DEF OriginInv, FromThePeer
  <2> QED
      BY <1>1, <2>3, <2>4 DEF OriginInv
<1>4. ASSUME NEW e \in Endpoints, NEW s \in ForeignShapes, SendForeign(e, s)
      PROVE  OriginInv'
  <2>1. PICK m : /\ net' = net \cup {m} /\ UNCHANGED <<sent, accepted>>
                 /\ m.key = s.key /\ m.session = s.session
                 /\ m.body = s.body /\ m.plain = s.plain
    <3> DEFINE x == [dir |-> Direction(e), key |-> s.key, session |-> s.session,
                     id |-> MsgId(clock[e], e = "client"), body |-> s.body,
                     plain |-> s.plain, enc |-> s.plain, intact |-> TRUE]
    <3>1. /\ net' = net \cup {x} /\ UNCHANGED <<sent, accepted>>
          /\ x.key = s.key /\ x.session = s.session
          /\ x.body = s.body /\ x.plain = s.plain
        BY <1>4 DEF SendForeign
    <3> HIDE DEF x
    <3> QED
        BY <3>1
  <2>2. Made(m)'
      BY <2>1 DEF Made
  <2>3. \A x \in net' : x.intact => Made(x)'
    <3>1. \A x \in net : x.intact => Made(x)
        BY DEF OriginInv
    <3>2. \A x : Made(x) => Made(x)'
        BY <2>1 DEF Made
    <3> QED
        BY <2>1, <2>2, <3>1, <3>2
  <2>4. FromThePeer'
      BY <2>1 DEF OriginInv, FromThePeer
  <2> QED
      BY <1>1, <2>3, <2>4 DEF OriginInv
<1>5. ASSUME NEW m \in net, NEW len \in Cuts \cup {m.enc}, Damage(m, len)
      PROVE  OriginInv'
  <2> DEFINE d == [m EXCEPT !.enc = len, !.intact = FALSE]
  <2>1. d.intact = FALSE
      BY DEF OriginInv, TypeOK, Message
  <2>2. net' = net \cup {d} /\ UNCHANGED <<sent, accepted>>
      BY <1>5 DEF Damage
  <2> HIDE DEF d
  <2>3. \A x \in net : Made(x) => Made(x)'
      BY <2>2 DEF Made
  <2> QED
      BY <1>1, <2>1, <2>2, <2>3 DEF OriginInv, FromThePeer
<1>6. ASSUME NEW e \in Endpoints, NEW m \in net, Accept(e, m) PROVE OriginInv'
  <2>1. /\ UNCHANGED <<net, sent>>
        /\ accepted' = [accepted EXCEPT ![e] = Append(@, m)]
        /\ m.dir = Direction(Peer(e)) /\ m.intact
        /\ m.key = "shared" /\ m.session = "this"
      BY <1>6 DEF Accept, EnvelopeOK
  <2>2. \/ \E k \in 1 .. Len(sent[Peer(e)]) : m = sent[Peer(e)][k]
        \/ \E s \in ForeignShapes :
               /\ s.key = "shared" /\ s.session = "this"
               /\ m.body = s.body /\ m.plain = s.plain
    <3>1. Made(m)
        BY <2>1 DEF OriginInv
    <3>2. \A f \in Endpoints : Direction(f) = Direction(Peer(e)) => f = Peer(e)
        BY DEF Endpoints, Direction, Peer
    <3> QED
        BY <2>1, <3>1, <3>2 DEF Made
  <2>3. /\ accepted \in [Endpoints -> Seq(Message)] /\ m \in Message
        /\ accepted'[e] = Append(accepted[e], m)
        /\ \A f \in Endpoints \ {e} : accepted'[f] = accepted[f]
      BY <2>1 DEF OriginInv, TypeOK
  <2>4. /\ Len(accepted[e]) \in Nat /\ Len(accepted'[e]) = Len(accepted[e]) + 1
        /\ accepted'[e][Len(accepted[e]) + 1] = m
        /\ \A i \in 1 .. Len(accepted[e]) : accepted'[e][i] = accepted[e][i]
      BY <2>3
  <2>5. \A i \in 1 .. Len(accepted'[e]) :
            i \in 1 .. Len(accepted[e]) \/ accepted'[e][i] = m
      BY <2>4
  <2>6. FromThePeer'
    <3> DEFINE Good(f, x) ==
            /\ x.dir = Direction(Peer(f))
            /\ x.intact
            /\ \/ \E k \in 1 .. Len(sent[Peer(f)]) : x = sent[Peer(f)][k]
               \/ \E s \in ForeignShapes :
                      /\ s.key = "shared" /\ s.session = "this"
                      /\ x.body = s.body /\ x.plain = s.plain
    <3>1. Good(e, m)
        BY <2>1, <2>2
    <3>2. \A f \in Endpoints : \A i \in 1 .. Len(accepted[f]) : Good(f, accepted[f][i])
        BY DEF OriginInv, FromThePeer
    <3>3. (\A f \in Endpoints : \A i \in 1 .. Len(accepted'[f]) : Good(f, accepted'[f][i]))
              => FromThePeer'
        BY <2>1 DEF FromThePeer
    <3> HIDE DEF Good
    <3> QED
        BY <2>3, <2>4, <2>5, <3>1, <3>2, <3>3
  <2>7. \A x \in net : Made(x) => Made(x)'
      BY <2>1 DEF Made
  <2> QED
      BY <1>1, <2>1, <2>6, <2>7 DEF OriginInv
<1> QED
    BY <1>2, <1>3, <1>4, <1>5, <1>6 DEF Next, vars, Tick, Restart, Reject

(* What an endpoint returns was made by its peer for this session, and     *)
(* nobody changed it on the way.                                           *)
THEOREM AlwaysFromThePeer == Spec => []FromThePeer
<1>1. Init => OriginInv
    BY TypeInit DEF Init, OriginInv, FromThePeer
<1>2. OriginInv => FromThePeer
    BY DEF OriginInv
<1> QED
    BY <1>1, <1>2, OriginStep, PTL DEF Spec

-----------------------------------------------------------------------------
(* What an endpoint encodes passes the gates of its peer, if the transport *)
(* adds nothing to it.                                                     *)
SentFits ==
    \A e \in Endpoints : \A i \in 1 .. Len(sent[e]) :
        EnvelopeOK(Peer(e), sent[e][i]) /\ ParityOK(sent[e][i].id, e = "client")

LEMMA FitsStep ==
  Trails = {0} /\ TypeOK /\ SentFits /\ [Next]_vars => SentFits'
<1> SUFFICES ASSUME Trails = {0}, TypeOK, SentFits, [Next]_vars PROVE SentFits'
    OBVIOUS
<1>1. CASE UNCHANGED sent
    BY <1>1 DEF SentFits
<1>2. ASSUME NEW e \in Endpoints, NEW body \in Bodies, NEW trail \in Trails,
             Send(e, body, trail)
      PROVE  SentFits'
  <2>1. PICK m \in Message :
            /\ sent' = [sent EXCEPT ![e] = Append(@, m)]
            /\ m.dir = Direction(e) /\ m.key = "shared" /\ m.session = "this"
            /\ m.intact /\ m.body = body /\ body % 4 = 0
            /\ m.plain = PlainLength(body) /\ m.enc = PlainLength(body) + trail
            /\ ParityOK(m.id, e = "client")
      BY <1>2, SendMakes
  <2>2. EnvelopeOK(Peer(e), m)
    <3>1. Direction(Peer(Peer(e))) = Direction(e)
        BY DEF Peer, Endpoints
    <3>2. body \in Nat
        BY SessionAssumption
    <3>3. m.enc = m.plain
      <4>1. trail = 0 /\ PlainLength(body) \in Nat
          BY <3>2, PaddingFits
      <4> QED
          BY <2>1, <4>1
    <3>4. /\ m.plain \in Nat /\ m.plain % 16 = 0 /\ m.plain >= 32 + m.body
          /\ m.plain - 32 - m.body \in 12 .. 27 /\ m.body \in Nat
        BY <2>1, <3>2, PaddingFits
    <3>5. /\ m.plain >= 32 /\ m.plain > 0 /\ m.plain - 32 >= m.body
          /\ m.plain - 32 - m.body \in 12 .. 1024
        BY <3>4
    <3> QED
        BY <2>1, <3>1, <3>3, <3>4, <3>5 DEF EnvelopeOK
  <2>3. /\ sent[e] \in Seq(Message) /\ sent'[e] = Append(sent[e], m)
        /\ \A f \in Endpoints \ {e} : sent'[f] = sent[f]
      BY <2>1 DEF TypeOK
  <2>4. \A i \in 1 .. Len(sent'[e]) :
            \/ i \in 1 .. Len(sent[e]) /\ sent'[e][i] = sent[e][i]
            \/ sent'[e][i] = m
      BY <2>3
  <2> QED
      BY <2>1, <2>2, <2>3, <2>4 DEF SentFits
<1> QED
    BY <1>1, <1>2 DEF Next, vars, Tick, SendForeign, Damage, Accept, Reject, Restart

(* Over a transport that hands over what it was given, a genuine message   *)
(* is refused for its time or for having been seen, and nothing else.      *)
THEOREM GenuineAlwaysTaken ==
  ASSUME Trails = {0}
  PROVE  Spec => []GenuineTaken
<1>1. Init => SentFits
    BY DEF Init, SentFits
<1>2. SentFits => GenuineTaken
  <2> SUFFICES ASSUME SentFits, NEW e \in Endpoints, NEW i \in 1 .. Len(sent[Peer(e)]),
                      InWindow(sent[Peer(e)][i].id, clock[e]),
                      sent[Peer(e)][i].id \notin cache[e]
               PROVE  /\ EnvelopeOK(e, sent[Peer(e)][i])
                      /\ MsgIdOK(e, sent[Peer(e)][i].id)
      BY DEF GenuineTaken
  <2>1. Peer(e) \in Endpoints /\ Peer(Peer(e)) = e
      BY DEF Peer, Endpoints
  <2> QED
      BY <2>1 DEF SentFits, MsgIdOK
<1>3. TypeOK /\ SentFits /\ [Next]_vars => SentFits'
    BY FitsStep
<1> QED
    BY <1>1, <1>2, <1>3, TypeCorrect, PTL DEF Spec

(* Whatever is called, the session goes on as it would on its own: all     *)
(* that is proved of Spec here holds of CallsSpec, which is what the runs  *)
(* check.                                                                  *)
THEOREM CallsKeepSession == CallsSpec => Spec
<1>1. CallsInit => Init BY DEF CallsInit
<1>2. [CallsNext]_<<vars, formatVars>> => [Next]_vars BY DEF CallsNext
<1> QED BY <1>1, <1>2, PTL DEF CallsSpec, Spec

(***************************************************************************)
(* Seen ids, and messages without a session.                               *)
(***************************************************************************)
Rank(s, x) == Cardinality(Larger(s, x))

(* An element has fewer above it than there are, ...                       *)
LEMMA RankBelow ==
    ASSUME NEW S \in SUBSET Nat, IsFiniteSet(S), NEW x \in S
    PROVE  Rank(S, x) \in 0 .. Cardinality(S) - 1
<1>1. Cardinality(S) \in Nat BY FS_CardinalityType
<1>2. IsFiniteSet(S \ {x}) /\ Cardinality(S \ {x}) = Cardinality(S) - 1
  BY FS_RemoveElement
<1>3. Larger(S, x) \in SUBSET (S \ {x}) BY DEF Larger
<1>4. IsFiniteSet(Larger(S, x)) /\ Rank(S, x) <= Cardinality(S) - 1
  BY <1>2, <1>3, FS_Subset DEF Rank
<1>5. Rank(S, x) \in Nat BY <1>4, FS_CardinalityType DEF Rank
<1> QED BY <1>1, <1>4, <1>5

(* ... and more than one that is larger than itself.                       *)
LEMMA RankFalls ==
    ASSUME NEW S \in SUBSET Nat, IsFiniteSet(S), NEW x \in S, NEW y \in S, x < y
    PROVE  Rank(S, y) < Rank(S, x)
<1>1. Larger(S, x) \in SUBSET S /\ y \in Larger(S, x) BY DEF Larger
<1>2. IsFiniteSet(Larger(S, x)) BY <1>1, FS_Subset
<1>3. IsFiniteSet(Larger(S, x) \ {y})
      /\ Cardinality(Larger(S, x) \ {y}) = Rank(S, x) - 1
  BY <1>1, <1>2, FS_RemoveElement DEF Rank
<1>4. Larger(S, y) \in SUBSET (Larger(S, x) \ {y})
  <2> SUFFICES ASSUME NEW z \in S, z > y PROVE z > x /\ z # y BY DEF Larger
  <2>1. x \in Nat /\ y \in Nat /\ z \in Nat OBVIOUS
  <2> QED BY <2>1
<1>5. Rank(S, y) <= Rank(S, x) - 1 BY <1>3, <1>4, FS_Subset DEF Rank
<1>6. Rank(S, x) \in Int /\ Rank(S, y) \in Int BY RankBelow
<1> QED BY <1>5, <1>6

(* sorted_msgs[-half:] has half as many elements as it says: ranks are     *)
(* different numbers from 0 to the size of the set, so each one occurs.    *)
LEMMA RecentSize ==
    ASSUME NEW S \in SUBSET Nat, IsFiniteSet(S), NEW h \in Nat \ {0}, h <= Cardinality(S)
    PROVE  IsFiniteSet(Recent(S, h)) /\ Cardinality(Recent(S, h)) = h
<1> DEFINE N == Cardinality(S)
           T == Recent(S, h)
           f == [x \in S |-> Rank(S, x)]
           g == [x \in T |-> Rank(S, x)]
<1>1. N \in Nat BY FS_CardinalityType
<1>2. T = {x \in S : Rank(S, x) < h} BY DEF Recent, Rank
<1>3. \A x \in S : Rank(S, x) \in 0 .. N - 1 BY RankBelow
<1>4. \A x, y \in S : Rank(S, x) = Rank(S, y) => x = y
  <2> SUFFICES ASSUME NEW x \in S, NEW y \in S, x # y PROVE Rank(S, x) # Rank(S, y) OBVIOUS
  <2>1. x < y \/ y < x OBVIOUS
  <2>2. Rank(S, x) \in Int /\ Rank(S, y) \in Int BY <1>3
  <2>3. CASE x < y BY <2>2, <2>3, RankFalls
  <2>4. CASE y < x BY <2>2, <2>4, RankFalls
  <2> QED BY <2>1, <2>3, <2>4
<1>5. f \in Injection(S, 0 .. N - 1) BY <1>3, <1>4 DEF Injection, IsInjective
<1>6. IsFiniteSet(0 .. N - 1) /\ Cardinality(0 .. N - 1) = N
  <2> HIDE DEF N
  <2>1. 0 \in Int /\ N - 1 \in Int BY <1>1
  <2>2. IsFiniteSet(0 .. N - 1)
        /\ Cardinality(0 .. N - 1) = IF 0 > N - 1 THEN 0 ELSE (N - 1) - 0 + 1
    BY ONLY <2>1, FS_Interval
  <2> QED BY <1>1, <2>2
<1>7. f \in Surjection(S, 0 .. N - 1) BY <1>5, <1>6, FS_Injection
<1>8. g \in Injection(T, 0 .. h - 1)
  <2> HIDE DEF N, T
  <2>1. \A x \in T : x \in S /\ Rank(S, x) \in 0 .. h - 1 BY <1>1, <1>2, <1>3
  <2>2. g \in [T -> 0 .. h - 1] BY <2>1
  <2>3. \A x, y \in T : g[x] = g[y] => x = y BY <1>4, <2>1
  <2> QED BY <2>2, <2>3 DEF Injection, IsInjective
<1>9. g \in Surjection(T, 0 .. h - 1)
  <2> SUFFICES ASSUME NEW r \in 0 .. h - 1 PROVE \E x \in T : g[x] = r
    BY <1>8 DEF Surjection, Injection
  <2>1. r \in 0 .. N - 1 BY <1>1
  <2>2. PICK x \in S : f[x] = r BY <1>7, <2>1 DEF Surjection
  <2> QED BY <1>2, <2>2
<1>10. IsFiniteSet(0 .. h - 1) /\ Cardinality(0 .. h - 1) = h BY FS_Interval
<1> QED BY <1>8, <1>9, <1>10, FS_Injection

(* One more element leaves no fewer above a number.                        *)
LEMMA OneMore ==
    ASSUME NEW S \in SUBSET Nat, IsFiniteSet(S), NEW n \in Nat, NEW T, T = S \cup {n}
    PROVE  /\ T \in SUBSET Nat /\ IsFiniteSet(T)
           /\ Cardinality(T) \in Nat /\ Cardinality(T) <= Cardinality(S) + 1
           /\ \A m \in Nat : /\ Rank(S, m) \in Nat /\ Rank(T, m) \in Nat
                             /\ Rank(S, m) <= Rank(T, m)
<1>1. /\ IsFiniteSet(T)
      /\ Cardinality(T) = IF n \in S THEN Cardinality(S) ELSE Cardinality(S) + 1
  BY FS_AddElement
<1>2. Cardinality(S) \in Nat BY FS_CardinalityType
<1>3. Cardinality(T) \in Nat /\ Cardinality(T) <= Cardinality(S) + 1 BY <1>1, <1>2
<1>4. ASSUME NEW m \in Nat
      PROVE  Rank(S, m) \in Nat /\ Rank(T, m) \in Nat /\ Rank(S, m) <= Rank(T, m)
  <2>1. Larger(S, m) \in SUBSET Larger(T, m) /\ Larger(T, m) \in SUBSET T BY DEF Larger
  <2>2. IsFiniteSet(Larger(T, m)) BY <1>1, <2>1, FS_Subset
  <2>3. IsFiniteSet(Larger(S, m)) /\ Rank(S, m) <= Rank(T, m)
    BY <2>1, <2>2, FS_Subset DEF Rank
  <2> QED BY <2>2, <2>3, FS_CardinalityType DEF Rank
<1> QED BY <1>1, <1>3, <1>4

(* What the eviction drops is below all that it keeps.                     *)
LEMMA DroppedBelow ==
    ASSUME NEW S \in SUBSET Nat, IsFiniteSet(S), NEW h \in Nat \ {0},
           NEW n \in Nat, Rank(S, n) >= h, NEW x \in Recent(S, h)
    PROVE  x > n
<1>1. x \in S /\ Rank(S, x) < h BY DEF Recent, Rank
<1>2. ASSUME x <= n PROVE FALSE
  <2>1. Larger(S, n) \in SUBSET Larger(S, x) /\ Larger(S, x) \in SUBSET S
    <3>1. ASSUME NEW z \in S, z > n PROVE z > x
      <4>1. z \in Nat /\ x \in Nat BY <1>1
      <4> QED BY <1>2, <3>1, <4>1
    <3> QED BY <3>1 DEF Larger
  <2>2. IsFiniteSet(Larger(S, x)) BY <2>1, FS_Subset
  <2>3. Rank(S, n) <= Rank(S, x) BY <2>1, <2>2, FS_Subset DEF Rank
  <2>4. IsFiniteSet(Larger(S, n)) BY <2>1, <2>2, FS_Subset
  <2>5. Rank(S, n) \in Nat /\ Rank(S, x) \in Nat
    BY <2>2, <2>4, FS_CardinalityType DEF Rank
  <2> QED BY <1>1, <2>3, <2>5
<1> QED BY <1>1, <1>2

-----------------------------------------------------------------------------
(* An id is remembered, or half are remembered that are larger.            *)
Accounted(s, n) == n \in s \/ Rank(s, n) >= limit \div 2

SeenInv ==
    job = "seen" /\ limit >= 2 =>
        /\ limit \in Nat
        /\ seenIds \in SUBSET Nat /\ IsFiniteSet(seenIds)
        /\ added \in Seq(Nat)
        /\ Cardinality(seenIds) <= limit
        /\ \A k \in 1 .. Len(added) : Accounted(seenIds, added[k])

(* One call, on a set that is full or not.                                 *)
LEMMA SeenStep ==
    ASSUME SeenInv, job = "seen", limit >= 2, NEW n \in Nat,
           NEW T, T = {n} \cup (IF Cardinality(seenIds) >= limit
                                THEN Recent(seenIds, limit \div 2) ELSE seenIds)
    PROVE  /\ T \in SUBSET Nat /\ IsFiniteSet(T)
           /\ Cardinality(T) <= limit
           /\ \A m \in Nat : Accounted(seenIds, m) => Accounted(T, m)
<1>1. PICK h \in Nat \ {0} : h = limit \div 2 /\ h + 1 <= limit BY DEF SeenInv
<1>2. PICK S \in SUBSET Nat : S = seenIds /\ IsFiniteSet(S) /\ Cardinality(S) <= limit
  BY DEF SeenInv
<1>3. limit \in Nat /\ Cardinality(S) \in Nat BY <1>2, FS_CardinalityType DEF SeenInv
<1>4. CASE Cardinality(S) < limit
  <2>1. T = S \cup {n} BY <1>2, <1>3, <1>4
  <2>2. /\ T \in SUBSET Nat /\ IsFiniteSet(T)
        /\ Cardinality(T) \in Nat /\ Cardinality(T) <= Cardinality(S) + 1
        /\ \A m \in Nat : Rank(S, m) \in Nat /\ Rank(T, m) \in Nat /\ Rank(S, m) <= Rank(T, m)
    BY ONLY <1>2, <2>1, n \in Nat, OneMore
  <2>3. Cardinality(T) <= limit BY <1>3, <1>4, <2>2
  <2>4. ASSUME NEW m \in Nat, Accounted(seenIds, m) PROVE Accounted(T, m)
    <3>1. CASE m \in S BY <2>1, <3>1 DEF Accounted
    <3>2. CASE Rank(S, m) >= h
      <4>1. Rank(T, m) >= h BY ONLY m \in Nat, h \in Nat, <2>2, <3>2
      <4> QED BY <1>1, <4>1 DEF Accounted
    <3> QED BY <1>1, <1>2, <2>4, <3>1, <3>2 DEF Accounted
  <2> QED BY <2>2, <2>3, <2>4
<1>5. CASE Cardinality(S) = limit
  <2>1. PICK R : R = Recent(S, h) OBVIOUS
  <2>2. T = R \cup {n} BY <1>1, <1>2, <1>3, <1>5, <2>1
  <2>3. R \in SUBSET S /\ R \in SUBSET Nat BY <1>1, <2>1 DEF Recent
  <2>4. h <= Cardinality(S) BY <1>1, <1>3, <1>5
  <2>5. IsFiniteSet(R) /\ Cardinality(R) = h BY ONLY <1>1, <1>2, <2>1, <2>4, RecentSize
  <2>6. /\ T \in SUBSET Nat /\ IsFiniteSet(T)
        /\ Cardinality(T) \in Nat /\ Cardinality(T) <= Cardinality(R) + 1
        /\ \A m \in Nat : Rank(R, m) \in Nat /\ Rank(T, m) \in Nat /\ Rank(R, m) <= Rank(T, m)
    BY ONLY <2>2, <2>3, <2>5, n \in Nat, OneMore
  <2>7. Cardinality(T) <= limit BY <1>1, <1>3, <2>5, <2>6
  <2>8. ASSUME NEW m \in Nat, Accounted(seenIds, m), m \notin R PROVE Rank(T, m) >= h
    <3>1. Rank(S, m) >= h
      <4>1. CASE m \in S
        <5>1. Rank(S, m) \in Int BY <1>2, <4>1, RankBelow
        <5>2. ~(Rank(S, m) < h) BY <1>1, <2>1, <2>8, <4>1 DEF Recent, Rank
        <5> QED BY <1>1, <5>1, <5>2
      <4>2. CASE m \notin S BY <1>1, <1>2, <2>8, <4>2 DEF Accounted
      <4> QED BY <4>1, <4>2
    <3>2. \A x \in R : x > m BY ONLY <1>1, <1>2, <2>1, m \in Nat, <3>1, DroppedBelow
    <3>3. Larger(R, m) = R BY <3>2 DEF Larger
    <3>4. Rank(R, m) = h BY <2>5, <3>3 DEF Rank
    <3> QED BY <2>6, <3>4
  <2>9. ASSUME NEW m \in Nat, Accounted(seenIds, m) PROVE Accounted(T, m)
    <3>1. CASE m \in R BY <2>2, <3>1 DEF Accounted
    <3>2. CASE m \notin R
      <4>1. Rank(T, m) >= h BY <2>8, <2>9, <3>2
      <4> QED BY <1>1, <4>1 DEF Accounted
    <3> QED BY <3>1, <3>2
  <2> QED BY <2>6, <2>7, <2>9
<1> QED BY <1>2, <1>3, <1>4, <1>5

LEMMA SeenInit == CallsInit => SeenInv
<1> SUFFICES ASSUME CallsInit, job = "seen" PROVE SeenInv BY DEF SeenInv
<1>0. FormatsInit BY DEF CallsInit, NoFormat
<1>1. limit \in SeenLimits /\ seenIds = {} /\ added = <<>> BY <1>0 DEF FormatsInit
<1>2. IsFiniteSet({}) /\ Cardinality({}) = 0 BY FS_EmptySet
<1>3. limit \in Nat BY <1>1, FormatsAssumption
<1> QED BY <1>1, <1>2, <1>3 DEF SeenInv

LEMMA SeenSteps == SeenInv /\ [CallsNext]_<<vars, formatVars>> => SeenInv'
<1> SUFFICES ASSUME SeenInv, [CallsNext]_<<vars, formatVars>> PROVE SeenInv' OBVIOUS
<1>0. [FormatsNext]_formatVars BY DEF CallsNext
<1>1. CASE \E n \in Seeable : AddSeen(n)
  <2>1. PICK n \in Seeable : AddSeen(n) BY <1>1
  <2>2. n \in Nat BY FormatsAssumption DEF LongWords
  <2>3. job = "seen" /\ job' = job /\ limit' = limit BY <2>1 DEF AddSeen, format
  <2> SUFFICES ASSUME limit >= 2 PROVE SeenInv' BY <2>3 DEF SeenInv
  <2>4. seenIds' = {n} \cup (IF Cardinality(seenIds) >= limit
                             THEN Recent(seenIds, limit \div 2) ELSE seenIds)
        /\ added' = Append(added, n)
    BY <2>1 DEF AddSeen
  <2>5. /\ seenIds' \in SUBSET Nat /\ IsFiniteSet(seenIds') /\ Cardinality(seenIds') <= limit
        /\ \A m \in Nat : Accounted(seenIds, m) => Accounted(seenIds', m)
    BY ONLY SeenInv, <2>2, <2>3, <2>4, limit >= 2, SeenStep
  <2>6. added \in Seq(Nat) /\ limit \in Nat
        /\ \A k \in 1 .. Len(added) : Accounted(seenIds, added[k])
    BY <2>3 DEF SeenInv
  <2>7. added' \in Seq(Nat) BY <2>2, <2>4, <2>6
  <2>8. ASSUME NEW k \in 1 .. Len(added') PROVE Accounted(seenIds', added'[k])
    <3>1. CASE k = Len(added) + 1 BY <2>4, <2>6, <3>1 DEF Accounted
    <3>2. CASE k \in 1 .. Len(added)
      <4>1. added[k] \in Nat /\ Accounted(seenIds, added[k]) BY <2>6, <3>2
      <4>2. added'[k] = added[k] BY <2>2, <2>4, <2>6, <3>2
      <4>3. Accounted(seenIds', added[k]) BY <2>5, <4>1
      <4> QED BY <4>2, <4>3
    <3> QED BY <2>4, <2>6, <3>1, <3>2
  <2>9. \A k \in 1 .. Len(added') : Accounted(seenIds, added[k])' 
    BY <2>3, <2>8 DEF Accounted, Rank, Larger
  <2> QED BY <2>3, <2>5, <2>6, <2>7, <2>9 DEF SeenInv
<1>2. CASE UNCHANGED <<job, limit, seenIds, added>>
  BY <1>2 DEF SeenInv, Accounted, Rank, Larger
<1>3. CASE EncodeFormat \/ FormatArrives \/ DecodeHeader \/ DecodeNested \/ DecodeEnd
           \/ DecodePlain \/ Returned \/ UNCHANGED formatVars
  BY <1>2, <1>3 DEF EncodeFormat, FormatArrives, DecodeHeader, DecodeNested, DecodeEnd,
                    DecodePlain, Returned, formatVars, format, ids
<1> QED BY <1>0, <1>1, <1>3 DEF FormatsNext

(* For any ids, in any order, add_seen_message() keeps within max_entries, *)
(* if that is at least two, and forgets an id only for half as many that   *)
(* are larger (SeenRecent).                                                *)
THEOREM SeenAlwaysRecent == CallsSpec => []SeenRecent
<1>1. SeenInv => SeenRecent BY DEF SeenInv, SeenRecent, Accounted, Rank
<1> QED BY <1>1, SeenInit, SeenSteps, PTL DEF CallsSpec


-----------------------------------------------------------------------------
(* Containers and unencrypted messages.                                    *)
Short == {b \in Seq(Word) : ByteSize(b) \in Word}
Nested == [id : LongWords, seq : LongWords, body : Short]

(* struct.pack("<Q", ...) and struct.unpack() are inverse to each other.   *)
LEMMA PackUnpack ==
    ASSUME NEW lo \in Word, NEW hi \in Word
    PROVE  /\ Unpack(lo, hi) \in LongWords
           /\ Pack(Unpack(lo, hi)) = <<lo, hi>>
<1> DEFINE W == WordMod
<1>1. W \in Nat /\ W > 0 BY FormatsAssumption
<1>2. lo \in 0 .. W - 1 /\ hi \in 0 .. W - 1 BY DEF Word
<1> HIDE DEF W
<1>3. (lo + W * hi) % W = lo /\ (lo + W * hi) \div W = hi BY <1>1, <1>2
<1>4. lo + W * hi \in 0 .. W * W - 1
  <2>1. W * hi <= W * (W - 1) BY <1>1, <1>2
  <2>2. W * (W - 1) = W * W - W BY <1>1
  <2> QED BY <1>1, <1>2, <2>1, <2>2
<1> QED BY <1>3, <1>4 DEF W, Pack, Unpack, LongWords

(* A number that was packed is unpacked again.                             *)
LEMMA UnpackPack ==
    ASSUME NEW n \in LongWords
    PROVE  /\ Pack(n) \in Seq(Word) /\ Len(Pack(n)) \in 2 .. 2
           /\ Unpack(Pack(n)[1], Pack(n)[2]) = n
<1> DEFINE W == WordMod
           lo == n % W
           hi == n \div W
<1>1. W \in Nat /\ W > 0 BY FormatsAssumption
<1>2. n \in 0 .. W * W - 1 BY DEF LongWords
<1>3. lo \in 0 .. W - 1 /\ hi \in Int /\ n = lo + W * hi
  <2> HIDE DEF W
  <2> QED BY <1>1, <1>2
<1>4. hi \in 0 .. W - 1
  <2> HIDE DEF W, lo, hi
  <2>1. hi >= 0
    <3> SUFFICES ASSUME hi <= -1 PROVE FALSE BY <1>3
    <3>1. W * hi <= W * (-1) BY <1>1, <1>3
    <3> QED BY <1>1, <1>2, <1>3, <3>1
  <2>2. hi < W
    <3> SUFFICES ASSUME hi >= W PROVE FALSE BY <1>1, <1>3
    <3>1. W * hi >= W * W BY <1>1, <1>3
    <3> QED BY <1>1, <1>2, <1>3, <3>1
  <2> QED BY <1>1, <1>3, <2>1, <2>2
<1>5. lo \in Word /\ hi \in Word BY <1>3, <1>4 DEF Word
<1>6. Pack(n) = <<lo, hi>> BY DEF Pack
<1> HIDE DEF lo, hi, W
<1>7. Pack(n) \in Seq(Word) /\ Len(Pack(n)) \in 2 .. 2 /\ Pack(n)[1] = lo /\ Pack(n)[2] = hi
  BY <1>5, <1>6
<1> QED BY <1>3, <1>7 DEF Unpack, W

(* The words of an encoded message.                                        *)
LEMMA EncodedWords ==
    ASSUME NEW m \in Nested
    PROVE  /\ EncodedMessage(m) \in Seq(Word)
           /\ Len(EncodedMessage(m)) = 5 + Len(m.body)
           /\ EncodedMessage(m)[1] = Pack(m.id)[1] /\ EncodedMessage(m)[2] = Pack(m.id)[2]
           /\ EncodedMessage(m)[3] = Pack(m.seq)[1] /\ EncodedMessage(m)[4] = Pack(m.seq)[2]
           /\ EncodedMessage(m)[5] = ByteSize(m.body)
           /\ \A j \in 1 .. Len(m.body) : EncodedMessage(m)[5 + j] = m.body[j]
<1> DEFINE p == Pack(m.id)
           q == Pack(m.seq)
           l == <<ByteSize(m.body)>>
           b == m.body
<1>1. m.id \in LongWords /\ m.seq \in LongWords /\ b \in Seq(Word) /\ ByteSize(b) \in Word
  BY DEF Nested, Short
<1>2. p \in Seq(Word) /\ Len(p) \in 2 .. 2 /\ q \in Seq(Word) /\ Len(q) \in 2 .. 2
  BY <1>1, UnpackPack
<1>3. l \in Seq(Word) /\ Len(l) \in 1 .. 1 /\ l[1] = ByteSize(b) BY <1>1
<1>4. EncodedMessage(m) = p \o q \o l \o b BY DEF EncodedMessage
<1> HIDE DEF p, q, l, b
<1> DEFINE h == p \o q
<1>5. h \in Seq(Word) /\ IsConcat(h, p, q) BY <1>2, ConcatParts
<1> DEFINE i == h \o l
<1> HIDE DEF h
<1>6. i \in Seq(Word) /\ IsConcat(i, h, l) BY <1>3, <1>5, ConcatParts
<1> DEFINE e == i \o b
<1> HIDE DEF i
<1>7. e \in Seq(Word) /\ IsConcat(e, i, b) BY <1>1, <1>6, ConcatParts
<1>8. EncodedMessage(m) = e BY <1>4 DEF e, i, h
<1> HIDE DEF e
<1>9. Len(p) = 2 /\ Len(q) = 2 /\ Len(l) = 1 /\ Len(b) \in Nat BY <1>1, <1>2, <1>3, LenProperties
<1>10. Len(h) = 4 /\ Len(i) = 5 /\ Len(e) = 5 + Len(b)
  BY <1>5, <1>6, <1>7, <1>9 DEF IsConcat
<1>11. \A j \in 1 .. 2 : h[j] = p[j] /\ h[2 + j] = q[j]
  BY <1>5, <1>9 DEF IsConcat
<1>12. (\A j \in 1 .. 4 : i[j] = h[j]) /\ (\A j \in 1 .. 1 : i[4 + j] = l[j])
  BY <1>6, <1>9, <1>10 DEF IsConcat
<1>13. (\A j \in 1 .. 5 : e[j] = i[j]) /\ (\A j \in 1 .. Len(b) : e[5 + j] = b[j])
  BY <1>7, <1>9, <1>10 DEF IsConcat
<1>14. h[1] = p[1] /\ h[2] = p[2] /\ h[3] = q[1] /\ h[4] = q[2] 
  <2>1. 1 \in 1 .. 2 /\ 2 \in 1 .. 2 /\ 2 + 1 = 3 /\ 2 + 2 = 4 OBVIOUS
  <2> QED BY ONLY <1>11, <2>1
<1>15. i[1] = h[1] /\ i[2] = h[2] /\ i[3] = h[3] /\ i[4] = h[4] /\ i[5] = l[1]
  BY ONLY <1>12
<1>16. e[1] = i[1] /\ e[2] = i[2] /\ e[3] = i[3] /\ e[4] = i[4] /\ e[5] = i[5]
  BY ONLY <1>13
<1>17. /\ e \in Seq(Word) /\ Len(e) = 5 + Len(b)
       /\ e[1] = p[1] /\ e[2] = p[2] /\ e[3] = q[1] /\ e[4] = q[2] /\ e[5] = ByteSize(b)
       /\ \A j \in 1 .. Len(b) : e[5 + j] = b[j]
  BY <1>3, <1>7, <1>10, <1>13, <1>14, <1>15, <1>16
<1> QED BY ONLY <1>8, <1>17 DEF p, q, b

(* The message that a decoder reads after the first o words.               *)
ReadAt(r, o) ==
    [id   |-> Unpack(r[o + 1], r[o + 2]),
     seq  |-> Unpack(r[o + 3], r[o + 4]),
     body |-> SubSeq(r, o + 6, o + 5 + r[o + 5] \div 4)]

(* Its encoding is what was read.                                          *)
LEMMA ReadEncoded ==
    ASSUME NEW r \in Seq(Word), NEW o \in Nat, o + 5 <= Len(r), r[o + 5] % 4 = 0,
           o + 5 + r[o + 5] \div 4 <= Len(r)
    PROVE  /\ ReadAt(r, o) \in Nested
           /\ Len(ReadAt(r, o).body) = r[o + 5] \div 4
           /\ \A j \in 1 .. Len(ReadAt(r, o).body) : ReadAt(r, o).body[j] = r[o + 5 + j]
           /\ Len(EncodedMessage(ReadAt(r, o))) = 5 + r[o + 5] \div 4
           /\ \A j \in 1 .. 5 + r[o + 5] \div 4 : EncodedMessage(ReadAt(r, o))[j] = r[o + j]
<1> DEFINE size == r[o + 5] \div 4
           m == ReadAt(r, o)
           b == SubSeq(r, o + 6, o + 5 + size)
           e == EncodedMessage(m)
<1>1. Len(r) \in Nat BY LenProperties
<1>2. \A j \in 1 .. Len(r) : r[j] \in Word BY ElementOfSeq
<1>3. \A j \in 1 .. 5 : o + j \in 1 .. Len(r) /\ r[o + j] \in Word BY <1>1, <1>2
<1>4. r[o + 5] \in Nat BY <1>3 DEF Word
<1>5. size \in Nat /\ r[o + 5] = 4 * size BY <1>4
<1>6. o + 5 + size <= Len(r) OBVIOUS
<1> HIDE DEF size
<1>7. b \in Seq(Word) /\ Len(b) = size /\ \A j \in 1 .. size : b[j] = r[o + 5 + j]
  <2>1. o + 5 \in Nat /\ o + 6 = (o + 5) + 1 OBVIOUS
  <2> QED BY ONLY r \in Seq(Word), <1>5, <1>6, <2>1, PieceOf DEF b
<1> HIDE DEF b
<1>8. m = [id |-> Unpack(r[o + 1], r[o + 2]), seq |-> Unpack(r[o + 3], r[o + 4]), body |-> b]
  BY DEF ReadAt, b, size
<1> HIDE DEF m
<1>9. ByteSize(b) = r[o + 5] BY <1>5, <1>7 DEF ByteSize
<1>10. r[o + 1] \in Word /\ r[o + 2] \in Word /\ r[o + 3] \in Word /\ r[o + 4] \in Word
       /\ r[o + 5] \in Word
  BY <1>3
<1>11. /\ Unpack(r[o + 1], r[o + 2]) \in LongWords
       /\ Pack(Unpack(r[o + 1], r[o + 2])) = <<r[o + 1], r[o + 2]>>
       /\ Unpack(r[o + 3], r[o + 4]) \in LongWords
       /\ Pack(Unpack(r[o + 3], r[o + 4])) = <<r[o + 3], r[o + 4]>>
  BY <1>10, PackUnpack
<1>12. m \in Nested /\ m.body = b BY <1>7, <1>8, <1>9, <1>10, <1>11 DEF Nested, Short
<1>13. /\ Len(e) = 5 + size
       /\ e[1] = r[o + 1] /\ e[2] = r[o + 2] /\ e[3] = r[o + 3] /\ e[4] = r[o + 4]
       /\ e[5] = r[o + 5]
       /\ \A j \in 1 .. size : e[5 + j] = b[j]
  <2>1. Pack(m.id) = <<r[o + 1], r[o + 2]>> /\ Pack(m.seq) = <<r[o + 3], r[o + 4]>>
    BY <1>8, <1>11
  <2> HIDE DEF e
  <2>2. /\ Len(e) = 5 + Len(m.body)
        /\ e[1] = Pack(m.id)[1] /\ e[2] = Pack(m.id)[2]
        /\ e[3] = Pack(m.seq)[1] /\ e[4] = Pack(m.seq)[2] /\ e[5] = ByteSize(m.body)
        /\ \A j \in 1 .. Len(m.body) : e[5 + j] = m.body[j]
    BY <1>12, EncodedWords DEF e
  <2>3. e[1] = r[o + 1] /\ e[2] = r[o + 2] /\ e[3] = r[o + 3] /\ e[4] = r[o + 4]
    BY <2>1, <2>2
  <2> QED BY <1>7, <1>9, <1>12, <2>2, <2>3
<1> HIDE DEF e
<1>14. ASSUME NEW j \in 1 .. 5 + size PROVE e[j] = r[o + j]
  <2>1. CASE j \in {1, 2, 3, 4, 5} BY <1>13, <2>1
  <2>2. CASE j > 5
    <3>1. j - 5 \in 1 .. size /\ 5 + (j - 5) = j /\ o + 5 + (j - 5) = o + j BY <1>5, <2>2
    <3>2. e[5 + (j - 5)] = b[j - 5] /\ b[j - 5] = r[o + 5 + (j - 5)] BY <1>7, <1>13, <3>1
    <3> QED BY <3>1, <3>2
  <2> QED BY <1>5, <2>1, <2>2
<1> QED BY <1>7, <1>12, <1>13, <1>14 DEF m, e, size, b

(* What is read from an encoding is the message.                           *)
LEMMA ReadBack ==
    ASSUME NEW r \in Seq(Word), NEW o \in Nat, NEW m \in Nested,
           o + 5 + Len(m.body) <= Len(r),
           \A j \in 1 .. 5 + Len(m.body) : r[o + j] = EncodedMessage(m)[j]
    PROVE  /\ ReadAt(r, o) = m
           /\ r[o + 5] = 4 * Len(m.body) /\ r[o + 5] % 4 = 0 /\ r[o + 5] \div 4 = Len(m.body)
<1> DEFINE size == Len(m.body)
           e == EncodedMessage(m)
           b == SubSeq(r, o + 6, o + 5 + size)
<1>1. m.id \in LongWords /\ m.seq \in LongWords /\ m.body \in Seq(Word)
      /\ m = [id |-> m.id, seq |-> m.seq, body |-> m.body]
  BY DEF Nested, Short
<1>2. size \in Nat /\ Len(r) \in Nat BY <1>1, LenProperties
<1>3. /\ e[1] = Pack(m.id)[1] /\ e[2] = Pack(m.id)[2]
      /\ e[3] = Pack(m.seq)[1] /\ e[4] = Pack(m.seq)[2] /\ e[5] = ByteSize(m.body)
      /\ \A j \in 1 .. size : e[5 + j] = m.body[j]
  BY EncodedWords
<1>4. ByteSize(m.body) = 4 * size BY DEF ByteSize
<1>5. \A j \in 1 .. 5 + size : r[o + j] = e[j] OBVIOUS
<1>6. o + 5 + size <= Len(r) OBVIOUS
<1> HIDE DEF e, size
<1>7. r[o + 1] = e[1] /\ r[o + 2] = e[2] /\ r[o + 3] = e[3] /\ r[o + 4] = e[4] /\ r[o + 5] = e[5]
  BY <1>2, <1>5
<1>8. Unpack(r[o + 1], r[o + 2]) = m.id /\ Unpack(r[o + 3], r[o + 4]) = m.seq
  BY <1>1, <1>3, <1>7, UnpackPack
<1>9. r[o + 5] = 4 * size BY <1>3, <1>4, <1>7
<1>10. r[o + 5] % 4 = 0 /\ r[o + 5] \div 4 = size BY <1>2, <1>9
<1>11. \A j \in 1 .. size : r[o + 5 + j] = m.body[j]
  <2> SUFFICES ASSUME NEW j \in 1 .. size PROVE r[o + 5 + j] = m.body[j] OBVIOUS
  <2>1. 5 + j \in 1 .. 5 + size /\ o + (5 + j) = o + 5 + j
    BY ONLY <1>2, j \in 1 .. size, o \in Nat
  <2>2. r[o + (5 + j)] = e[5 + j] BY <1>5, <2>1
  <2> QED BY <1>3, <2>1, <2>2
<1>12. b \in Seq(Word) /\ Len(b) = size /\ \A j \in 1 .. size : b[j] = r[o + 5 + j]
  <2>1. o + 5 \in Nat /\ o + 6 = (o + 5) + 1 OBVIOUS
  <2> QED BY ONLY r \in Seq(Word), <1>2, <1>6, <2>1, PieceOf DEF b
<1> HIDE DEF b
<1>13. b = m.body
  <2>1. Len(b) = Len(m.body) BY <1>12 DEF size
  <2>2. \A j \in 1 .. Len(b) : b[j] = m.body[j] BY <1>11, <1>12
  <2> QED BY <1>1, <1>12, <2>1, <2>2, SeqEqual
<1>14. ReadAt(r, o) = [id |-> m.id, seq |-> m.seq, body |-> m.body]
  BY <1>8, <1>10, <1>13 DEF ReadAt, b
<1> QED BY <1>1, <1>9, <1>10, <1>14 DEF size

(* What is in a container, one message after the other.                    *)
Encoded(ms) == [k \in 1 .. Len(ms) |-> EncodedMessage(ms[k])]
Inside(ms) == FlattenSeq(Encoded(ms))

(* An encoded message is words.                                            *)
LEMMA EncodedType ==
    ASSUME NEW ms \in Seq(Nested)
    PROVE  /\ Encoded(ms) \in Seq(Seq(Word)) /\ Len(Encoded(ms)) = Len(ms)
           /\ \A k \in 1 .. Len(ms) : Encoded(ms)[k] = EncodedMessage(ms[k])
<1>1. Len(ms) \in Nat BY LenProperties
<1>2. \A k \in 1 .. Len(ms) : EncodedMessage(ms[k]) \in Seq(Word)
  BY ElementOfSeq, EncodedWords
<1> DEFINE Q == Seq(Word)
           n == Len(ms)
<1>3. Encoded(ms) = [k \in 1 .. n |-> EncodedMessage(ms[k])] BY DEF Encoded
<1> HIDE DEF Q, n
<1>4. n \in Nat /\ \A k \in 1 .. n : EncodedMessage(ms[k]) \in Q BY <1>1, <1>2 DEF Q, n
<1>5. Encoded(ms) \in Seq(Q) /\ Len(Encoded(ms)) = n BY <1>3, <1>4
<1>6. \A k \in 1 .. n : Encoded(ms)[k] = EncodedMessage(ms[k]) BY <1>3
<1> QED BY <1>5, <1>6 DEF Q, n

(* A container of nothing, and of one message more.                        *)
LEMMA InsideNothing == Inside(<<>>) = <<>>
<1>1. Encoded(<<>>) = <<>> BY DEF Encoded
<1> QED BY <1>1, FlattenNothing DEF Inside

LEMMA InsideAppend ==
    ASSUME NEW ms \in Seq(Nested), NEW m \in Nested
    PROVE  /\ Inside(ms) \in Seq(Word) /\ Inside(Append(ms, m)) \in Seq(Word)
           /\ IsConcat(Inside(Append(ms, m)), Inside(ms), EncodedMessage(m))
<1> DEFINE Q == Seq(Word)
           t == Append(ms, m)
           u == Append(Encoded(ms), EncodedMessage(m))
           n == Len(ms)
<1>1. /\ t \in Seq(Nested) /\ Len(t) = n + 1 /\ n \in Nat /\ t[n + 1] = m
      /\ \A k \in 1 .. n : t[k] = ms[k]
  BY AppendProperties, LenProperties
<1>2. EncodedMessage(m) \in Q BY EncodedWords
<1>3. Encoded(ms) \in Seq(Q) /\ Len(Encoded(ms)) = n
      /\ \A k \in 1 .. n : Encoded(ms)[k] = EncodedMessage(ms[k])
  BY EncodedType
<1> HIDE DEF Q, t, n
<1>4. Encoded(t) \in Seq(Q) /\ Len(Encoded(t)) = n + 1
      /\ \A k \in 1 .. n + 1 : Encoded(t)[k] = EncodedMessage(t[k])
  BY <1>1, EncodedType DEF Q
<1>5. /\ u \in Seq(Q) /\ Len(u) = n + 1 /\ u[n + 1] = EncodedMessage(m)
      /\ \A k \in 1 .. n : u[k] = Encoded(ms)[k]
  BY <1>2, <1>3, AppendProperties
<1> HIDE DEF u
<1>6. \A k \in 1 .. n + 1 : u[k] = Encoded(t)[k]
  <2> SUFFICES ASSUME NEW k \in 1 .. n + 1 PROVE u[k] = Encoded(t)[k] OBVIOUS
  <2>1. CASE k \in 1 .. n BY <1>1, <1>3, <1>4, <1>5, <2>1
  <2>2. CASE k = n + 1 BY <1>1, <1>4, <1>5, <2>2
  <2> QED BY <1>1, <2>1, <2>2
<1>7. u = Encoded(t) BY <1>4, <1>5, <1>6, SeqEqual
<1>8. /\ FlattenSeq(Encoded(ms)) \in Seq(Word)
      /\ FlattenSeq(u) = FlattenSeq(Encoded(ms)) \o EncodedMessage(m)
  BY <1>2, <1>3, FlattenAppend DEF Q, u
<1>9. Inside(ms) \in Seq(Word) /\ EncodedMessage(m) \in Seq(Word) BY <1>2, <1>8 DEF Inside, Q
<1>10. Inside(t) = Inside(ms) \o EncodedMessage(m) BY <1>7, <1>8 DEF Inside
<1> QED BY ONLY <1>9, <1>10, ConcatParts DEF t

(* What is in a container is words.                                        *)
LEMMA InsideType ==
    ASSUME NEW ms \in Seq(Nested)
    PROVE  Inside(ms) \in Seq(Word) /\ Len(Inside(ms)) \in Nat
<1>1. Inside(ms) \in Seq(Word) BY EncodedType, FlattenType DEF Inside
<1> QED BY <1>1, LenProperties

(* Of a container, too, all that comes first is a prefix.                  *)
LEMMA InsidePrefix ==
    ASSUME NEW ms \in Seq(Nested), NEW n \in 0 .. Len(ms)
    PROVE  /\ SubSeq(ms, 1, n) \in Seq(Nested)
           /\ Len(Inside(SubSeq(ms, 1, n))) <= Len(Inside(ms))
           /\ \A j \in 1 .. Len(Inside(SubSeq(ms, 1, n))) :
                  Inside(SubSeq(ms, 1, n))[j] = Inside(ms)[j]
<1> DEFINE Q == Seq(Word)
           t == SubSeq(ms, 1, n)
           e == Encoded(ms)
           p == SubSeq(e, 1, n)
<1>1. Len(ms) \in Nat /\ n \in Nat /\ n <= Len(ms) BY LenProperties
<1>2. t \in Seq(Nested) /\ Len(t) = n /\ \A k \in 1 .. n : t[k] = ms[k]
  <2>1. 0 \in Nat /\ 1 = 0 + 1 /\ n = 0 + n /\ 0 + n <= Len(ms) BY <1>1
  <2>2. t \in Seq(Nested) /\ Len(t) = n /\ \A k \in 1 .. n : t[k] = ms[0 + k]
    BY ONLY ms \in Seq(Nested), <1>1, <2>1, PieceOf
  <2> QED BY <2>2
<1>3. e \in Seq(Q) /\ Len(e) = Len(ms) /\ \A k \in 1 .. Len(ms) : e[k] = EncodedMessage(ms[k])
  BY EncodedType
<1> HIDE DEF Q, t, e
<1>4. p \in Seq(Q) /\ Len(p) = n /\ \A k \in 1 .. n : p[k] = e[k]
  <2>1. 0 \in Nat /\ 1 = 0 + 1 /\ n = 0 + n /\ 0 + n <= Len(e) BY <1>1, <1>3
  <2>2. p \in Seq(Q) /\ Len(p) = n /\ \A k \in 1 .. n : p[k] = e[0 + k]
    BY ONLY <1>1, <1>3, <2>1, PieceOf
  <2> QED BY <2>2
<1> HIDE DEF p
<1>5. Encoded(t) \in Seq(Q) /\ Len(Encoded(t)) = n
      /\ \A k \in 1 .. n : Encoded(t)[k] = EncodedMessage(t[k])
  BY <1>2, EncodedType DEF Q
<1>6. \A k \in 1 .. n : Encoded(t)[k] = p[k] BY <1>1, <1>2, <1>3, <1>4, <1>5
<1>7. Encoded(t) = p BY <1>4, <1>5, <1>6, SeqEqual
<1>8. n \in 0 .. Len(e) BY <1>1, <1>3
<1>9. /\ Len(FlattenSeq(p)) <= Len(FlattenSeq(e))
      /\ \A j \in 1 .. Len(FlattenSeq(p)) : FlattenSeq(p)[j] = FlattenSeq(e)[j]
  BY <1>3, <1>8, FlattenPrefix DEF Q, p
<1>10. Inside(t) = FlattenSeq(p) /\ Inside(ms) = FlattenSeq(e) BY <1>7 DEF Inside, e
<1>11. /\ Len(Inside(t)) <= Len(Inside(ms))
       /\ \A j \in 1 .. Len(Inside(t)) : Inside(t)[j] = Inside(ms)[j]
  BY ONLY <1>9, <1>10
<1> QED BY ONLY <1>2, <1>11 DEF t

(* The words behind the header are those of the messages so far.           *)
Follows(r, ms) ==
    /\ 2 + Len(Inside(ms)) <= Len(r)
    /\ \A j \in 1 .. Len(Inside(ms)) : r[2 + j] = Inside(ms)[j]

(* One message more was read, and the words behind the header are still    *)
(* its and those before it.                                                *)
LEMMA FollowsNext ==
    ASSUME NEW r \in Seq(Word), NEW ms \in Seq(Nested), Follows(r, ms), NEW m \in Nested,
           2 + Len(Inside(ms)) + 5 + Len(m.body) <= Len(r),
           \A j \in 1 .. 5 + Len(m.body) : EncodedMessage(m)[j] = r[2 + Len(Inside(ms)) + j]
    PROVE  /\ Follows(r, Append(ms, m))
           /\ Len(Inside(Append(ms, m))) = Len(Inside(ms)) + 5 + Len(m.body)
<1> DEFINE a == Inside(ms)
           e == EncodedMessage(m)
           b == Inside(Append(ms, m))
           n == Len(Inside(ms))
           size == Len(m.body)
<1>1. IsConcat(b, a, e) BY InsideAppend
<1>2. Len(e) = 5 + size /\ n \in Nat /\ size \in Nat /\ Len(r) \in Nat
  BY EncodedWords, InsideType, LenProperties DEF Nested, Short
<1>3. n = Len(a) /\ \A j \in 1 .. n : r[2 + j] = a[j] BY DEF Follows
<1>4. 2 + n + 5 + size <= Len(r) /\ \A j \in 1 .. 5 + size : e[j] = r[2 + n + j] OBVIOUS
<1> HIDE DEF a, b, e, n, size
<1>5. Len(b) = n + 5 + size BY <1>1, <1>2, <1>3 DEF IsConcat
<1>6. /\ \A j \in 1 .. n : b[j] = a[j]
      /\ \A j \in 1 .. 5 + size : b[n + j] = e[j]
  BY <1>1, <1>2, <1>3 DEF IsConcat
<1>7. ASSUME NEW j \in 1 .. n + 5 + size PROVE r[2 + j] = b[j]
  <2>1. CASE j \in 1 .. n BY <1>3, <1>6, <2>1
  <2>2. CASE j > n
    <3>1. j - n \in 1 .. 5 + size /\ n + (j - n) = j /\ 2 + n + (j - n) = 2 + j
      BY ONLY <1>2, <2>2, j \in 1 .. n + 5 + size
    <3>2. b[n + (j - n)] = e[j - n] /\ e[j - n] = r[2 + n + (j - n)] BY <1>4, <1>6, <3>1
    <3> QED BY <3>1, <3>2
  <2> QED BY <1>2, <2>1, <2>2
<1>8. 2 + Len(b) <= Len(r) /\ \A j \in 1 .. Len(b) : r[2 + j] = b[j]
  <2>1. 2 + Len(b) <= Len(r) BY ONLY <1>2, <1>4, <1>5
  <2> QED BY ONLY <1>5, <1>7, <2>1
<1> QED BY <1>5, <1>8 DEF Follows, b, n, size

(* What the decoder reads from an unchanged container is the next message. *)
LEMMA WholeNext ==
    ASSUME NEW r \in Seq(Word), NEW w \in Seq(Nested), Follows(r, w),
           NEW n \in Nat, n < Len(w), NEW o, o = 2 + Len(Inside(SubSeq(w, 1, n)))
    PROVE  /\ w[n + 1] \in Nested
           /\ SubSeq(w, 1, n + 1) = Append(SubSeq(w, 1, n), w[n + 1])
           /\ o \in Nat /\ o + 5 + Len(w[n + 1].body) <= Len(r)
           /\ ReadAt(r, o) = w[n + 1]
           /\ r[o + 5] = 4 * Len(w[n + 1].body)
<1> DEFINE ms == SubSeq(w, 1, n)
           m == w[n + 1]
           a == Inside(ms)
           b == Inside(SubSeq(w, 1, n + 1))
           c == Inside(w)
           e == EncodedMessage(m)
           size == Len(m.body)
<1>1. /\ ms \in Seq(Nested) /\ m \in Nested /\ SubSeq(w, 1, n + 1) = Append(ms, m)
  BY PrefixGrows
<1>2. IsConcat(b, a, e) /\ a \in Seq(Word) /\ b \in Seq(Word) BY <1>1, InsideAppend
<1>3. Len(w) \in Nat /\ Len(r) \in Nat BY LenProperties
<1>4. n + 1 \in 0 .. Len(w) BY <1>3
<1>5. Len(b) <= Len(c) /\ \A j \in 1 .. Len(b) : b[j] = c[j] BY <1>4, InsidePrefix
<1>6. 2 + Len(c) <= Len(r) /\ \A j \in 1 .. Len(c) : r[2 + j] = c[j] BY DEF Follows
<1>7. Len(c) \in Nat BY InsideType
<1>8. Len(e) = 5 + size /\ size \in Nat BY <1>1, EncodedWords, LenProperties DEF Nested, Short
<1> HIDE DEF m, a, b, c, e, size, ms
<1>9. Len(a) \in Nat /\ Len(b) \in Nat BY <1>2, LenProperties
<1>10. o = 2 + Len(a) BY DEF a, ms
<1>11. Len(b) = Len(a) + (5 + size) /\ \A j \in 1 .. 5 + size : b[Len(a) + j] = e[j]
  BY ONLY <1>2, <1>8 DEF IsConcat
<1>12. o \in Nat /\ o + 5 + size <= Len(r)
  BY ONLY <1>3, <1>5, <1>6, <1>7, <1>8, <1>9, <1>10, <1>11
<1>13. \A j \in 1 .. 5 + size : r[o + j] = e[j]
  <2> SUFFICES ASSUME NEW j \in 1 .. 5 + size PROVE r[o + j] = e[j] OBVIOUS
  <2>1. Len(a) + j \in 1 .. Len(b) /\ Len(a) + j \in 1 .. Len(c) /\ 2 + (Len(a) + j) = o + j
    BY ONLY <1>5, <1>7, <1>8, <1>9, <1>10, <1>11, j \in 1 .. 5 + size
  <2>2. r[2 + (Len(a) + j)] = c[Len(a) + j] /\ b[Len(a) + j] = c[Len(a) + j]
    BY ONLY <1>5, <1>6, <2>1
  <2>3. b[Len(a) + j] = e[j] BY <1>11
  <2> QED BY ONLY <2>1, <2>2, <2>3
<1>14. ReadAt(r, o) = m /\ r[o + 5] = 4 * size
  BY ONLY r \in Seq(Word), <1>1, <1>12, <1>13, ReadBack DEF e, size
<1> QED BY ONLY <1>1, <1>12, <1>14 DEF m, size, ms

(* A container, word for word.                                             *)
LEMMA ContainerWords ==
    ASSUME NEW ms \in Seq(Nested), Len(ms) \in Word
    PROVE  /\ ContainerOf(ms) \in Seq(Word)
           /\ Len(ContainerOf(ms)) = 2 + Len(Inside(ms))
           /\ ContainerOf(ms)[1] = Constructor /\ ContainerOf(ms)[2] = Len(ms)
           /\ Follows(ContainerOf(ms), ms)
<1> DEFINE h == <<Constructor, Len(ms)>>
           i == Inside(ms)
           c == ContainerOf(ms)
<1>1. h \in Seq(Word) /\ Len(h) \in 2 .. 2 /\ h[1] = Constructor /\ h[2] = Len(ms)
  BY FormatsAssumption
<1>2. i \in Seq(Word) /\ Len(i) \in Nat BY InsideType
<1>3. c = h \o i BY DEF ContainerOf, Inside, Encoded
<1> HIDE DEF h, i, c
<1>4. c \in Seq(Word) /\ IsConcat(c, h, i) BY <1>1, <1>2, <1>3, ConcatParts
<1>5. Len(h) = 2 BY <1>1
<1>6. /\ Len(c) = 2 + Len(i) /\ \A j \in 1 .. 2 : c[j] = h[j]
      /\ \A j \in 1 .. Len(i) : c[2 + j] = i[j]
  BY ONLY <1>4, <1>5 DEF IsConcat
<1>7. c[1] = h[1] /\ c[2] = h[2] BY <1>6
<1>8. 2 + Len(i) <= Len(c) BY <1>2, <1>6
<1> QED BY <1>1, <1>4, <1>6, <1>7, <1>8 DEF Follows, c, i

(* A header, and the words of the messages it counts, are a container.     *)
LEMMA IsContainer ==
    ASSUME NEW ms \in Seq(Nested), NEW r \in Seq(Word), Len(r) = 2 + Len(Inside(ms)),
           r[1] = Constructor, r[2] = Len(ms), Follows(r, ms)
    PROVE  r = ContainerOf(ms)
<1> DEFINE c == ContainerOf(ms)
           n == Len(Inside(ms))
<1>1. n \in Nat /\ Len(r) \in Nat BY InsideType, LenProperties
<1>2. r[2] \in Word
  <2>1. 2 \in 1 .. Len(r) BY <1>1
  <2> QED BY <2>1, ElementOfSeq
<1>3. /\ c \in Seq(Word) /\ Len(c) = 2 + n /\ c[1] = Constructor /\ c[2] = Len(ms)
      /\ Follows(c, ms)
  BY <1>2, ContainerWords
<1>4. \A j \in 1 .. n : r[2 + j] = c[2 + j] BY <1>3 DEF Follows
<1>5. r[1] = c[1] /\ r[2] = c[2] /\ Len(r) = 2 + n BY <1>3
<1> HIDE DEF c, n
<1>6. ASSUME NEW j \in 1 .. 2 + n PROVE r[j] = c[j]
  <2>1. CASE j \in {1, 2} BY <1>5, <2>1
  <2>2. CASE j > 2
    <3>1. j - 2 \in 1 .. n /\ 2 + (j - 2) = j BY ONLY <1>1, <2>2, j \in 1 .. 2 + n
    <3>2. r[2 + (j - 2)] = c[2 + (j - 2)] BY <1>4, <3>1
    <3> QED BY <3>1, <3>2
  <2> QED BY <1>1, <2>1, <2>2
<1>7. r = c BY ONLY r \in Seq(Word), <1>3, <1>5, <1>6, SeqEqual
<1> QED BY <1>7 DEF c

(* An unencrypted message is one that starts with eight zero bytes.        *)
Unencrypted(m) == [id |-> 0, seq |-> m.id, body |-> m.body]

(* The words of an unencrypted message.                                    *)
LEMMA PlainWords ==
    ASSUME NEW m \in Nested
    PROVE  Unencrypted(m) \in Nested /\ PlainOf(m) = EncodedMessage(Unencrypted(m))
<1>1. 0 \in LongWords /\ Pack(0) = <<0, 0>>
  <2>1. WordMod \in Nat \ {0} BY FormatsAssumption
  <2>2. WordMod * WordMod > 0 BY <2>1
  <2>3. 0 % WordMod = 0 /\ 0 \div WordMod = 0 BY <2>1
  <2>4. WordMod * WordMod \in Int BY <2>1
  <2>5. 0 \in LongWords
    <3> DEFINE WW == WordMod * WordMod
    <3>1. WW > 0 /\ WW \in Int BY <2>2, <2>4
    <3> HIDE DEF WW
    <3>2. 0 \in 0 .. WW - 1 BY <3>1
    <3> QED BY <3>2 DEF WW, LongWords
  <2> QED BY <2>3, <2>5 DEF Pack
<1>2. Unencrypted(m) \in Nested BY <1>1 DEF Unencrypted, Nested
<1> DEFINE u == Unencrypted(m)
<1>3. u.id = 0 /\ u.seq = m.id /\ u.body = m.body BY DEF Unencrypted
<1> HIDE DEF u
<1>4. EncodedMessage(u) = <<0, 0>> \o Pack(m.id) \o <<ByteSize(m.body)>> \o m.body
  BY <1>1, <1>3 DEF EncodedMessage
<1> QED BY <1>2, <1>4 DEF u, PlainOf

-----------------------------------------------------------------------------
(* A decoder that is at work on words that were not changed ends as it     *)
(* should, and what it has read so far is what it has found.               *)
AsEncoded == rdata = [words |-> data, odd |-> 0]

Encoding ==
    /\ ~OddBody
    /\ job = "container" => Len(batch) <= MaxContained /\ data = ContainerOf(Whole)
    /\ job = "plain" => data = PlainOf(Whole[1])

Decoding ==
    /\ job = "container"
    /\ todo \in Nat
    /\ found \in Seq(Nested) /\ Holds(found)
    /\ offset = 2 + Len(Inside(found))
    /\ Follows(received, found)
    /\ received[1] = Constructor /\ received[2] = Len(found) + todo
    /\ AsEncoded => Len(found) <= Len(Whole) /\ found = SubSeq(Whole, 1, Len(found))

FormatsInv ==
    /\ job \in {"none", "container", "plain", "seen"}
    /\ job = "none" => step = "unused"
    /\ batch \in Seq([id : LongWords, seq : LongWords, body : FormatBodies])
    /\ job = "plain" => Len(batch) = 1 /\ batch[1].seq = 0
    /\ job = "seen" => step = "adding"
    /\ step \in {"encode", "arrived", "on_its_way"} => found = <<>>
    /\ step \in {"on_its_way", "arrived", "decoding"} => Encoding
    /\ step \in {"arrived", "decoding"} => rdata \in Data
    /\ step = "decoding" => Decoding
    /\ FormatsExact

(* What arrived is words.                                                  *)
LEMMA WholeType ==
    ASSUME batch \in Seq([id : LongWords, seq : LongWords, body : FormatBodies])
    PROVE  /\ Whole \in Seq(Nested) /\ Len(Whole) = Len(batch) /\ Len(batch) \in Nat
           /\ \A k \in 1 .. Len(batch) : Whole[k].seq = batch[k].seq
<1> DEFINE T == [id : LongWords, seq : LongWords, body : FormatBodies]
           n == Len(batch)
           m(k) == [batch[k] EXCEPT !.body = @.words]
<1>1. n \in Nat BY LenProperties
<1>2. ASSUME NEW k \in 1 .. n
      PROVE  m(k) \in Nested /\ m(k).seq = batch[k].seq
  <2>1. batch[k] \in T BY ElementOfSeq
  <2>2. batch[k].body \in Data /\ 4 * Len(batch[k].body.words) \in Word
    BY <2>1, FormatsAssumption
  <2>3. batch[k].body.words \in Short BY <2>2 DEF Data, Short, ByteSize
  <2> DEFINE w == batch[k].body.words
  <2>4. m(k) = [id |-> batch[k].id, seq |-> batch[k].seq, body |-> w] BY <2>1
  <2> HIDE DEF w, m
  <2> QED BY <2>1, <2>3, <2>4 DEF Nested, w
<1>3. Whole = [k \in 1 .. n |-> m(k)] BY DEF Whole
<1> HIDE DEF n, m
<1>4. Whole \in Seq(Nested) /\ Len(Whole) = n /\ \A k \in 1 .. n : Whole[k] = m(k)
  BY <1>1, <1>2, <1>3
<1> QED BY <1>1, <1>2, <1>4 DEF n

(* Bytes that are left, in words.                                          *)
LEMMA BytesInWords ==
    ASSUME rdata \in Data, NEW n \in Nat, NEW k \in Nat
    PROVE  /\ BytesLeft(n) >= 4 * k <=> n + k <= Len(received)
           /\ BytesLeft(n) = 0 <=> n = Len(received) /\ rdata.odd = 0
<1>1. Len(received) \in Nat /\ rdata.odd \in 0 .. 3 BY LenProperties DEF Data, received
<1>2. BytesLeft(n) = 4 * Len(received) + rdata.odd - 4 * n BY DEF BytesLeft, ByteSize
<1> QED BY ONLY <1>1, <1>2, n \in Nat, k \in Nat

(* The invariant holds if none of this is called; it holds at first, and   *)
(* each step of the encoders and decoders keeps it.                        *)
LEMMA UnusedStarts == NoFormat => FormatsInv
<1> SUFFICES ASSUME NoFormat PROVE FormatsInv OBVIOUS
<1>1. batch \in Seq([id : LongWords, seq : LongWords, body : FormatBodies])
  BY EmptySeq DEF NoFormat
<1> QED BY <1>1 DEF NoFormat, FormatsInv, FormatsExact, AsEncoded

LEMMA FormatsStarts == FormatsInit => FormatsInv
<1> SUFFICES ASSUME FormatsInit PROVE FormatsInv OBVIOUS
<1> DEFINE T == [id : LongWords, seq : LongWords, body : FormatBodies]
<1>1. step \notin {"on_its_way", "arrived", "decoding", "decoded", "raised", "unused"}
      /\ found = <<>> /\ job \in {"container", "plain", "seen"} /\ (job = "seen" => step = "adding")
  BY DEF FormatsInit
<1>2. NestedMessage \subseteq T /\ [id : FormatIds, seq : {0}, body : FormatBodies] \subseteq T
  <2>1. 0 \in LongWords
    <3>1. WordMod \in Nat \ {0} BY FormatsAssumption
    <3> DEFINE WW == WordMod * WordMod
    <3>2. WW > 0 /\ WW \in Int BY <3>1
    <3> HIDE DEF WW
    <3>3. 0 \in 0 .. WW - 1 BY <3>2
    <3> QED BY <3>3 DEF WW, LongWords
  <2>2. FormatIds \subseteq LongWords /\ SeqNos \subseteq LongWords BY FormatsAssumption
  <2> QED BY <2>1, <2>2 DEF NestedMessage
<1>3. batch \in Seq(T) /\ (job = "plain" => Len(batch) = 1 /\ batch[1].seq = 0)
  <2>1. CASE job = "container"
    <3>1. PICK k \in 0 .. MaxBatch : batch \in [1 .. k -> NestedMessage]
      BY <2>1 DEF FormatsInit
    <3>2. k \in Nat BY FormatsAssumption
    <3>3. batch \in [1 .. k -> T] BY <1>2, <3>1
    <3> HIDE DEF T
    <3> QED BY <2>1, <3>2, <3>3
  <2>2. CASE job = "plain"
    <3>1. batch \in [1 .. 1 -> [id : FormatIds, seq : {0}, body : FormatBodies]]
      BY <2>2 DEF FormatsInit
    <3>2. batch \in [1 .. 1 -> T] /\ batch[1].seq = 0 BY <1>2, <3>1
    <3> HIDE DEF T
    <3>3. batch \in Seq(T) /\ Len(batch) \in 1 .. 1
      <4>1. 1 \in Nat OBVIOUS
      <4>2. \A n \in Nat : batch \in [1 .. n -> T] => batch \in Seq(T) /\ Len(batch) = n
        OBVIOUS
      <4> QED BY ONLY <3>2, <4>1, <4>2
    <3>4. Len(batch) = 1 BY <3>3
    <3> QED BY ONLY <3>2, <3>3, <3>4
  <2>3. CASE job = "seen"
    <3>1. batch = <<>> BY <2>3 DEF FormatsInit
    <3> QED BY <2>3, <3>1
  <2> QED BY <1>1, <2>1, <2>2, <2>3
<1> HIDE DEF T
<1>4. FormatsExact BY <1>1 DEF FormatsExact
<1> QED BY <1>1, <1>3, <1>4 DEF FormatsInv, T

LEMMA EncodeStep == FormatsInv /\ EncodeFormat => FormatsInv'
<1> SUFFICES ASSUME FormatsInv, EncodeFormat PROVE FormatsInv' OBVIOUS
<1>1. step = "encode" /\ UNCHANGED <<job, batch, outer, rdata, found>>
  BY DEF EncodeFormat, format
<1>2. step' \in {"not_encoded", "on_its_way"} BY DEF EncodeFormat
<1>3. FormatsExact' BY <1>2 DEF FormatsExact
<1>4. ASSUME step' = "on_its_way" PROVE Encoding'
  <2>1. ~Unencoded /\ data' = IF job = "container" THEN ContainerOf(Whole) ELSE PlainOf(Whole[1])
    BY <1>4 DEF EncodeFormat
  <2>2. ~OddBody' /\ Whole' = Whole BY <1>1, <2>1 DEF Unencoded, OddBody, Whole
  <2>3. job = "container" => Len(batch) <= MaxContained
    <3>1. Len(batch) \in Nat /\ MaxContained \in Nat
      BY FormatsAssumption, LenProperties DEF FormatsInv, Word
    <3> QED BY <2>1, <3>1 DEF Unencoded
  <2>4. job' = "container" => data' = ContainerOf(Whole') BY <1>1, <2>1, <2>2
  <2>5. job' = "plain" => data' = PlainOf(Whole'[1]) BY <1>1, <2>1, <2>2
  <2> QED BY <1>1, <2>2, <2>3, <2>4, <2>5 DEF Encoding
<1> QED BY <1>1, <1>2, <1>3, <1>4 DEF FormatsInv

LEMMA ArriveStep == FormatsInv /\ FormatArrives => FormatsInv'
<1> SUFFICES ASSUME FormatsInv, FormatArrives PROVE FormatsInv' OBVIOUS
<1>1. step = "on_its_way" /\ step' = "arrived" /\ UNCHANGED <<job, batch, outer, data, found>>
  BY DEF FormatArrives, format
<1>2. FormatsExact' BY <1>1 DEF FormatsExact
<1>3. Encoding' BY <1>1 DEF FormatsInv, Encoding, OddBody, Whole
<1>4. data \in Seq(Word)
  <2>1. Encoding /\ Whole \in Seq(Nested) /\ Len(Whole) = Len(batch) /\ Len(batch) \in Nat
    BY <1>1, WholeType DEF FormatsInv
  <2>2. CASE job = "container"
    <3>1. data = ContainerOf(Whole) /\ Len(batch) <= MaxContained BY <2>1, <2>2 DEF Encoding
    <3>2. Len(Whole) \in Word BY <2>1, <3>1, FormatsAssumption DEF Word
    <3> QED BY <2>1, <3>1, <3>2, ContainerWords
  <2>3. CASE job = "plain"
    <3>1. data = PlainOf(Whole[1]) /\ Len(batch) = 1 BY <2>1, <2>3 DEF Encoding, FormatsInv
    <3>2. Whole[1] \in Nested
      <4>1. 1 \in 1 .. Len(Whole) BY <2>1, <3>1
      <4> QED BY <2>1, <4>1, ElementOfSeq
    <3> QED BY <3>1, <3>2, PlainWords, EncodedWords
  <2> QED BY <1>1, <2>2, <2>3 DEF FormatsInv
<1>5. rdata' \in Data
  <2>1. Len(data) \in Nat BY <1>4, LenProperties
  <2>2. \A d \in Seq(Word), n \in 0 .. 3 : [words |-> d, odd |-> n] \in Data BY DEF Data
  <2>3. 0 \in 0 .. 3 /\ 1 \in 0 .. 3 OBVIOUS
  <2>4. CASE rdata' = [words |-> data, odd |-> 0] \/ rdata' = [words |-> data, odd |-> 1]
    BY ONLY <1>4, <2>2, <2>3, <2>4
  <2>5. CASE \E k \in 1 .. Len(data), w \in Word :
                 rdata' = [words |-> [data EXCEPT ![k] = w], odd |-> 0]
    <3>1. PICK k \in 1 .. Len(data), w \in Word :
              rdata' = [words |-> [data EXCEPT ![k] = w], odd |-> 0]
      BY <2>5
    <3>2. [data EXCEPT ![k] = w] \in Seq(Word) BY <1>4, ExceptSeq
    <3> QED BY ONLY <2>2, <2>3, <3>1, <3>2
  <2>6. CASE \E k \in 0 .. Len(data) - 1, b \in {0, 1} :
                 rdata' = [words |-> SubSeq(data, 1, k), odd |-> b]
    <3>1. PICK k \in 0 .. Len(data) - 1, b \in {0, 1} :
              rdata' = [words |-> SubSeq(data, 1, k), odd |-> b]
      BY <2>6
    <3>2. k \in Nat /\ k < Len(data) /\ b \in 0 .. 3 BY <2>1
    <3>3. SubSeq(data, 1, k) \in Seq(Word) BY <1>4, <3>2, PrefixGrows
    <3> QED BY ONLY <2>2, <3>1, <3>2, <3>3
  <2>7. CASE \E w \in {0, Constructor} : rdata' = [words |-> Append(data, w), odd |-> 0]
    <3>1. PICK w \in {0, Constructor} : rdata' = [words |-> Append(data, w), odd |-> 0]
      BY <2>7
    <3>2. w \in Word BY FormatsAssumption DEF Word
    <3>3. Append(data, w) \in Seq(Word) BY <1>4, <3>2
    <3> QED BY ONLY <2>2, <2>3, <3>1, <3>3
  <2> QED BY <2>4, <2>5, <2>6, <2>7 DEF FormatArrives
<1> QED BY <1>1, <1>2, <1>3, <1>5 DEF FormatsInv

(* A container that arrives as it was encoded.                             *)
LEMMA Unchanged ==
    ASSUME FormatsInv, job = "container", step \in {"arrived", "decoding"}, AsEncoded
    PROVE  /\ Whole \in Seq(Nested) /\ Len(Whole) <= MaxContained
           /\ rdata.odd = 0
           /\ Len(received) = 2 + Len(Inside(Whole))
           /\ received[1] = Constructor /\ received[2] = Len(Whole)
           /\ Follows(received, Whole)
<1>1. Encoding /\ Whole \in Seq(Nested) /\ Len(Whole) = Len(batch) /\ Len(batch) \in Nat
  BY WholeType DEF FormatsInv
<1>2. data = ContainerOf(Whole) /\ Len(batch) <= MaxContained BY <1>1 DEF Encoding
<1>3. received = ContainerOf(Whole) /\ rdata.odd = 0 BY <1>2 DEF AsEncoded, received
<1>4. Len(Whole) \in Word BY <1>1, <1>2, FormatsAssumption DEF Word
<1>5. /\ Len(ContainerOf(Whole)) = 2 + Len(Inside(Whole))
      /\ ContainerOf(Whole)[1] = Constructor /\ ContainerOf(Whole)[2] = Len(Whole)
      /\ Follows(ContainerOf(Whole), Whole)
  BY <1>1, <1>4, ContainerWords
<1> QED BY ONLY <1>1, <1>2, <1>3, <1>5

(* decode_container() reads the header ...                                 *)
LEMMA HeaderStep == FormatsInv /\ DecodeHeader => FormatsInv'
<1> SUFFICES ASSUME FormatsInv, DecodeHeader PROVE FormatsInv' OBVIOUS
<1> DEFINE Gates == BytesLeft(0) >= 8 /\ received[1] = Constructor /\ received[2] <= MaxContained
<1>1. /\ job = "container" /\ step = "arrived" /\ UNCHANGED <<job, batch, outer, data, rdata>>
      /\ received' = received /\ Whole' = Whole /\ AsEncoded' = AsEncoded
      /\ found = <<>> /\ found' = found /\ rdata \in Data /\ Encoding
  BY DEF DecodeHeader, RefuseFormat, format, received, Whole, AsEncoded, FormatsInv
<1>2. received \in Seq(Word) /\ Len(received) \in Nat BY <1>1, LenProperties DEF received, Data
<1>3. BytesLeft(0) >= 8 <=> 2 <= Len(received)
  <2>1. BytesLeft(0) >= 4 * 2 <=> 0 + 2 <= Len(received) BY <1>1, BytesInWords
  <2> QED BY <1>2, <2>1
<1>4. CASE Gates
  <2>1. step' = "decoding" /\ todo' = received[2] /\ offset' = 2 BY <1>4 DEF DecodeHeader
  <2>2. todo' \in Nat
    <3>1. 2 \in 1 .. Len(received) BY <1>2, <1>3, <1>4
    <3>2. received[2] \in Word BY <1>2, <3>1, ElementOfSeq
    <3> QED BY <2>1, <3>2 DEF Word
  <2>3. Inside(<<>>) = <<>> /\ Len(<<>>) = 0 BY InsideNothing
  <2>4. Follows(received, <<>>) BY <1>2, <1>3, <1>4, <2>3 DEF Follows
  <2>5. <<>> \in Seq(Nested) /\ Holds(<<>>)' BY DEF Holds
  <2>6. offset' = 2 + Len(Inside(<<>>)) BY <2>1, <2>3
  <2>7. received[1] = Constructor /\ received[2] = Len(<<>>) + todo'
    BY <1>4, <2>1, <2>2, <2>3
  <2>8. AsEncoded => Len(<<>>) <= Len(Whole) /\ <<>> = SubSeq(Whole, 1, Len(<<>>))
    <3> SUFFICES ASSUME AsEncoded
                 PROVE  Len(<<>>) <= Len(Whole) /\ <<>> = SubSeq(Whole, 1, Len(<<>>))
      OBVIOUS
    <3>1. Whole \in Seq(Nested) BY <1>1, Unchanged
    <3>2. Len(Whole) \in Nat BY <3>1, LenProperties
    <3>3. SubSeq(Whole, 1, 0) = <<>>
      <4>1. Len(SubSeq(Whole, 1, 0)) = 0 /\ SubSeq(Whole, 1, 0) \in Seq(Nested)
        BY <3>1, <3>2, InsidePrefix, PieceOf
      <4> QED BY <4>1, EmptySeq
    <3> QED BY <2>3, <3>2, <3>3
  <2>9. Decoding'
    BY ONLY <1>1, <2>2, <2>4, <2>5, <2>6, <2>7, <2>8 DEF Decoding
  <2>10. FormatsExact' BY <2>1 DEF FormatsExact
  <2>11. Encoding' BY <1>1 DEF Encoding, OddBody
  <2> QED BY <1>1, <2>1, <2>9, <2>10, <2>11 DEF FormatsInv
<1>5. CASE ~Gates
  <2>1. step' = "raised" BY <1>5 DEF DecodeHeader, RefuseFormat
  <2>2. ~AsEncoded
    <3> SUFFICES ASSUME AsEncoded PROVE FALSE OBVIOUS
    <3>1. /\ Whole \in Seq(Nested) /\ Len(Whole) <= MaxContained
          /\ Len(received) = 2 + Len(Inside(Whole))
          /\ received[1] = Constructor /\ received[2] = Len(Whole)
      BY <1>1, Unchanged
    <3>2. Len(Inside(Whole)) \in Nat BY <3>1, InsideType
    <3>3. BytesLeft(0) >= 8 BY <1>3, <3>1, <3>2
    <3> QED BY <1>5, <3>1, <3>3
  <2>3. FormatsExact' BY <1>1, <2>1, <2>2 DEF FormatsExact, AsEncoded
  <2> QED BY <1>1, <2>1, <2>3 DEF FormatsInv
<1> QED BY <1>4, <1>5

(* The decoder lets a message pass that a container may hold.              *)
LEMMA GatesOpen ==
    ASSUME rdata \in Data, offset \in Nat,
           NEW m \in Nested, ReadAt(received, offset) = m,
           offset + 5 + Len(m.body) <= Len(received),
           received[offset + 5] = 4 * Len(m.body),
           outer # <<>> => m.id < outer[1],
           m.body = <<>> \/ m.body[1] # Constructor
    PROVE  BytesLeft(offset) >= 20 /\ NestedOK
<1> DEFINE r == received
           o == offset
           b == m.body
           size == Len(b)
<1>1. b \in Seq(Word) /\ size \in Nat BY LenProperties DEF Nested, Short
<1>2. r \in Seq(Word) /\ Len(r) \in Nat BY LenProperties DEF Data, received
<1>3. o \in Nat /\ o + 5 + size <= Len(r) /\ r[o + 5] = 4 * size OBVIOUS
<1>4. r[o + 5] % 4 = 0 /\ r[o + 5] \div 4 = size
  <2> HIDE DEF r, o, size
  <2> QED BY <1>1, <1>3
<1>5. m.id = Unpack(r[o + 1], r[o + 2]) /\ b = SubSeq(r, o + 6, o + 5 + size)
  <2>1. m.id = Unpack(r[o + 1], r[o + 2]) /\ b = SubSeq(r, o + 6, o + 5 + r[o + 5] \div 4)
    BY DEF ReadAt
  <2> QED BY ONLY <1>4, <2>1
<1>6. BytesLeft(o) >= 20
  <2>1. BytesLeft(o) >= 4 * 5 <=> o + 5 <= Len(r) BY BytesInWords
  <2> HIDE DEF r, o, b, size
  <2>2. o + 5 <= Len(r) BY ONLY <1>1, <1>2, <1>3
  <2> QED BY <2>1, <2>2
<1>7. BytesLeft(o + 5) >= r[o + 5]
  <2>1. o + 5 \in Nat OBVIOUS
  <2>2. BytesLeft(o + 5) >= 4 * size <=> o + 5 + size <= Len(r)
    BY <1>1, <2>1, BytesInWords
  <2> HIDE DEF r, o, b, size
  <2> QED BY ONLY <1>3, <2>2
<1>8. r[o + 5] >= 4 => r[o + 6] # Constructor
  <2> SUFFICES ASSUME r[o + 5] >= 4 PROVE r[o + 6] # Constructor OBVIOUS
  <2>1. b = <<>> \/ b[1] # Constructor OBVIOUS
  <2> HIDE DEF r, o, b
  <2>2. b # <<>>
    <3> SUFFICES ASSUME b = <<>> PROVE FALSE OBVIOUS
    <3>1. size = 0 BY <1>1, EmptySeq
    <3> HIDE DEF size
    <3> QED BY ONLY r[o + 5] >= 4, <1>3, <3>1
  <2> HIDE DEF size
  <2>3. size >= 1 BY ONLY r[o + 5] >= 4, <1>1, <1>3
  <2>4. o + 5 \in Nat /\ o + 6 = (o + 5) + 1 /\ o + 5 + 1 = o + 6 BY ONLY <1>3
  <2>5. \A j \in 1 .. size : b[j] = r[o + 5 + j]
    BY ONLY <1>1, <1>2, <1>3, <1>5, <2>4, PieceOf
  <2>6. 1 \in 1 .. size BY ONLY <1>1, <2>3
  <2>7. b[1] = r[o + 6] BY ONLY <2>4, <2>5, <2>6
  <2> QED BY ONLY <2>1, <2>2, <2>7
<1>9. outer # <<>> => Unpack(r[o + 1], r[o + 2]) < outer[1] 
  BY ONLY <1>5, outer # <<>> => m.id < outer[1]
<1> QED BY ONLY <1>4, <1>6, <1>7, <1>8, <1>9 DEF NestedOK, r, o

(* ... and one message after the other, ...                                *)
LEMMA NestedStep == FormatsInv /\ DecodeNested => FormatsInv'
<1> SUFFICES ASSUME FormatsInv, DecodeNested PROVE FormatsInv' OBVIOUS
<1> DEFINE r == received
           o == offset
           m == ReadAt(r, o)
           size == r[o + 5] \div 4
           n == Len(found)
           w == Whole[n + 1]
           Gates == BytesLeft(offset) >= 20 /\ NestedOK
<1>1. /\ job = "container" /\ step = "decoding" /\ todo > 0
      /\ UNCHANGED <<job, batch, outer, data, rdata>>
      /\ received' = received /\ Whole' = Whole /\ AsEncoded' = AsEncoded
      /\ rdata \in Data /\ Encoding /\ Decoding
  BY DEF DecodeNested, format, received, Whole, AsEncoded, FormatsInv
<1>2. r \in Seq(Word) /\ Len(r) \in Nat BY <1>1, LenProperties DEF received, Data
<1>3. /\ todo \in Nat /\ found \in Seq(Nested) /\ Holds(found)
      /\ o = 2 + Len(Inside(found)) /\ Follows(r, found)
      /\ r[1] = Constructor /\ r[2] = Len(found) + todo
      /\ AsEncoded => Len(found) <= Len(Whole) /\ found = SubSeq(Whole, 1, Len(found))
  BY <1>1 DEF Decoding
<1>4. n \in Nat /\ o \in Nat BY <1>3, InsideType, LenProperties
<1>5. BytesLeft(o) >= 20 <=> o + 5 <= Len(r)
  <2>1. BytesLeft(o) >= 4 * 5 <=> o + 5 <= Len(r) BY <1>1, <1>4, BytesInWords
  <2> QED BY <2>1
<1>6. AsEncoded => /\ w \in Nested /\ n + 1 <= Len(Whole)
                   /\ SubSeq(Whole, 1, n + 1) = Append(found, w)
                   /\ o + 5 + Len(w.body) <= Len(r) /\ Len(w.body) \in Nat
                   /\ m = w /\ r[o + 5] = 4 * Len(w.body)
  <2> SUFFICES ASSUME AsEncoded
               PROVE  /\ w \in Nested /\ n + 1 <= Len(Whole)
                      /\ SubSeq(Whole, 1, n + 1) = Append(found, w)
                      /\ o + 5 + Len(w.body) <= Len(r) /\ Len(w.body) \in Nat
                      /\ m = w /\ r[o + 5] = 4 * Len(w.body)
    OBVIOUS
  <2>1. Whole \in Seq(Nested) /\ r[2] = Len(Whole) /\ Follows(r, Whole) BY <1>1, Unchanged
  <2>2. Len(Whole) \in Nat BY <2>1, LenProperties
  <2>3. n < Len(Whole) BY <1>1, <1>3, <1>4, <2>1, <2>2
  <2>4. found = SubSeq(Whole, 1, n) /\ o = 2 + Len(Inside(SubSeq(Whole, 1, n))) BY <1>3
  <2>5. /\ w \in Nested /\ SubSeq(Whole, 1, n + 1) = Append(SubSeq(Whole, 1, n), w)
        /\ o + 5 + Len(w.body) <= Len(r) /\ m = w /\ r[o + 5] = 4 * Len(w.body)
    <3> HIDE DEF n
    <3> QED BY ONLY <1>2, <1>4, <2>1, <2>3, <2>4, WholeNext
  <2>6. Len(w.body) \in Nat BY <2>5, LenProperties DEF Nested, Short
  <2>7. n + 1 <= Len(Whole) BY <1>4, <2>2, <2>3
  <2>8. SubSeq(Whole, 1, n + 1) = Append(found, w)
    <3> HIDE DEF n, w
    <3> QED BY ONLY <2>4, <2>5
  <2> HIDE DEF m, w
  <2> QED BY ONLY <2>5, <2>6, <2>7, <2>8
<1>7. CASE Gates
  <2>1. /\ step' = step /\ todo' = todo - 1
        /\ found' = Append(found, m) /\ offset' = o + 5 + size
    BY <1>7 DEF DecodeNested, ReadAt
  <2>2. /\ r[o + 5] % 4 = 0 /\ BytesLeft(o + 5) >= r[o + 5]
        /\ outer # <<>> => m.id < outer[1]
        /\ r[o + 5] >= 4 => r[o + 6] # Constructor
    BY <1>7 DEF NestedOK, ReadAt
  <2>3. o + 5 <= Len(r) BY <1>5, <1>7
  <2>4. r[o + 5] \in Nat
    <3>1. o + 5 \in 1 .. Len(r) BY <1>2, <1>4, <2>3
    <3>2. r[o + 5] \in Word BY <1>2, <3>1, ElementOfSeq
    <3> QED BY <3>2 DEF Word
  <2>5. size \in Nat /\ r[o + 5] = 4 * size BY <2>2, <2>4
  <2>6. o + 5 + size <= Len(r)
    <3>1. o + 5 \in Nat BY <1>4
    <3>2. BytesLeft(o + 5) >= 4 * size <=> o + 5 + size <= Len(r)
      BY <1>1, <2>5, <3>1, BytesInWords
    <3> QED BY <2>2, <2>5, <3>2
  <2>7. /\ m \in Nested /\ Len(m.body) = size
        /\ \A j \in 1 .. size : m.body[j] = r[o + 5 + j]
        /\ \A j \in 1 .. 5 + size : EncodedMessage(m)[j] = r[o + j]
    BY <1>2, <1>4, <2>2, <2>3, <2>6, ReadEncoded
  <2> HIDE DEF m, size
  <2>8. Follows(r, Append(found, m))
        /\ Len(Inside(Append(found, m))) = Len(Inside(found)) + 5 + size
    <3>1. /\ 2 + Len(Inside(found)) + 5 + Len(m.body) <= Len(r)
          /\ \A j \in 1 .. 5 + Len(m.body) :
                 EncodedMessage(m)[j] = r[2 + Len(Inside(found)) + j]
      BY ONLY <1>3, <2>6, <2>7
    <3> HIDE DEF r
    <3> QED BY ONLY <1>2, <1>3, <2>7, <3>1, FollowsNext
  <2>9. offset' = 2 + Len(Inside(found'))
    <3>1. Len(Inside(found)) \in Nat BY <1>3, InsideType
    <3> QED BY <1>3, <2>1, <2>5, <2>8, <3>1
  <2>10. /\ found' \in Seq(Nested) /\ Len(found') = n + 1 /\ found'[n + 1] = m
         /\ \A k \in 1 .. n : found'[k] = found[k]
    BY <1>3, <2>1, <2>7, AppendProperties
  <2>11. Holds(found)'
    <3> SUFFICES ASSUME NEW k \in 1 .. n + 1
                 PROVE  /\ outer # <<>> => found'[k].id < outer[1]
                        /\ found'[k].body = <<>> \/ found'[k].body[1] # Constructor
      BY <1>1, <2>10 DEF Holds
    <3>1. CASE k \in 1 .. n BY <1>3, <2>10, <3>1 DEF Holds
    <3>2. CASE k = n + 1
      <4>1. found'[k] = m BY <2>10, <3>2
      <4>2. m.body = <<>> \/ m.body[1] # Constructor
        <5>1. CASE size = 0
          <6>1. m.body \in Seq(Word) BY <2>7 DEF Nested, Short
          <6>2. m.body = <<>> BY <2>7, <5>1, <6>1, EmptySeq
          <6> QED BY <6>2
        <5>2. CASE size # 0
          <6>1. 1 \in 1 .. size /\ r[o + 5] >= 4 /\ o + 5 + 1 = o + 6
            BY <1>4, <2>5, <5>2
          <6>2. m.body[1] = r[o + 6] BY <2>7, <6>1
          <6> QED BY <2>2, <6>1, <6>2
        <5> QED BY <5>1, <5>2
      <4> QED BY <2>2, <4>1, <4>2
    <3> QED BY <1>4, <3>1, <3>2
  <2>12. AsEncoded => Len(found') <= Len(Whole) /\ found' = SubSeq(Whole, 1, Len(found'))
    BY ONLY <1>6, <2>1, <2>10
  <2>13. todo' \in Nat /\ r[2] = Len(found') + todo' BY <1>1, <1>3, <1>4, <2>1, <2>10
  <2>14. Follows(r, found') BY <2>1, <2>8
  <2>15. Decoding'
    BY ONLY <1>1, <1>3, <2>9, <2>10, <2>11, <2>12, <2>13, <2>14 DEF Decoding
  <2>16. FormatsExact' BY <1>1, <2>1 DEF FormatsExact
  <2>17. Encoding' BY <1>1 DEF Encoding, OddBody
  <2> QED BY <1>1, <2>1, <2>15, <2>16, <2>17 DEF FormatsInv
<1>8. CASE ~Gates
  <2>1. step' = "raised" BY <1>8 DEF DecodeNested, RefuseFormat
  <2>2. AsEncoded => ~Holds(Whole)
    <3> SUFFICES ASSUME AsEncoded, Holds(Whole) PROVE FALSE OBVIOUS
    <3>1. /\ w \in Nested /\ n + 1 <= Len(Whole) /\ Len(w.body) \in Nat
          /\ o + 5 + Len(w.body) <= Len(r) /\ m = w /\ r[o + 5] = 4 * Len(w.body)
      BY <1>6
    <3>2. n + 1 \in 1 .. Len(Whole)
      <4>1. Whole \in Seq(Nested) BY <1>1, Unchanged
      <4>2. Len(Whole) \in Nat BY <4>1, LenProperties
      <4> QED BY <1>4, <3>1, <4>2
    <3>3. /\ outer # <<>> => w.id < outer[1]
          /\ w.body = <<>> \/ w.body[1] # Constructor
      BY <3>2 DEF Holds
    <3> HIDE DEF w
    <3>4. BytesLeft(offset) >= 20 /\ NestedOK
      BY ONLY <1>1, <1>4, <3>1, <3>3, GatesOpen
    <3> QED BY <1>8, <3>4
  <2>3. Holds(Whole)' = Holds(Whole) BY <1>1 DEF Holds
  <2>4. FormatsExact' BY <1>1, <2>1, <2>2, <2>3 DEF FormatsExact, AsEncoded
  <2> QED BY <1>1, <2>1, <2>4 DEF FormatsInv
<1> QED BY <1>7, <1>8

(* ... and then nothing is left.                                           *)
LEMMA EndStep == FormatsInv /\ DecodeEnd => FormatsInv'
<1> SUFFICES ASSUME FormatsInv, DecodeEnd PROVE FormatsInv' OBVIOUS
<1>1. /\ job = "container" /\ step = "decoding" /\ todo = 0
      /\ UNCHANGED <<job, batch, outer, data, rdata, found>>
      /\ received' = received /\ Whole' = Whole /\ AsEncoded' = AsEncoded
      /\ rdata \in Data /\ Encoding /\ Decoding
  BY DEF DecodeEnd, RefuseFormat, format, received, Whole, AsEncoded, FormatsInv
<1>2. received \in Seq(Word) /\ Len(received) \in Nat BY <1>1, LenProperties DEF received, Data
<1>3. /\ found \in Seq(Nested) /\ Holds(found)
      /\ offset = 2 + Len(Inside(found)) /\ Follows(received, found)
      /\ received[1] = Constructor /\ received[2] = Len(found) + 0
      /\ AsEncoded => Len(found) <= Len(Whole) /\ found = SubSeq(Whole, 1, Len(found))
  BY <1>1 DEF Decoding
<1>4. Len(found) \in Nat /\ offset \in Nat /\ received[2] = Len(found)
  BY <1>3, InsideType, LenProperties
<1>5. BytesLeft(offset) = 0 <=> offset = Len(received) /\ rdata.odd = 0
  <2>1. 0 \in Nat OBVIOUS
  <2> QED BY <1>1, <1>4, <2>1, BytesInWords
<1>6. AsEncoded => found = Whole
  <2> SUFFICES ASSUME AsEncoded PROVE found = Whole OBVIOUS
  <2>1. Whole \in Seq(Nested) /\ received[2] = Len(Whole) BY <1>1, Unchanged
  <2>2. found = SubSeq(Whole, 1, Len(Whole)) BY <1>3, <1>4, <2>1
  <2> QED BY <2>1, <2>2, SubSeqFull
<1>7. CASE BytesLeft(offset) = 0
  <2>1. step' = "decoded" BY <1>7 DEF DecodeEnd
  <2>2. received = ContainerOf(found)
    <3>1. Len(received) = 2 + Len(Inside(found)) BY <1>3, <1>5, <1>7
    <3> QED BY ONLY <1>2, <1>3, <1>4, <3>1, IsContainer
  <2>3. rdata = [words |-> ContainerOf(found), odd |-> 0]
    BY <1>1, <1>5, <1>7, <2>2 DEF Data, received
  <2>4. Holds(found)' BY <1>1, <1>3 DEF Holds
  <2>5. FormatsExact' BY <1>1, <1>6, <2>1, <2>3, <2>4 DEF FormatsExact, AsEncoded
  <2> QED BY <1>1, <2>1, <2>5 DEF FormatsInv
<1>8. CASE BytesLeft(offset) # 0
  <2>1. step' = "raised" BY <1>8 DEF DecodeEnd, RefuseFormat
  <2>2. ~AsEncoded
    <3> SUFFICES ASSUME AsEncoded PROVE FALSE OBVIOUS
    <3>1. Len(received) = 2 + Len(Inside(Whole)) /\ rdata.odd = 0 BY <1>1, Unchanged
    <3> QED BY <1>3, <1>5, <1>6, <1>8, <3>1
  <2>3. FormatsExact' BY <1>1, <2>1, <2>2 DEF FormatsExact, AsEncoded
  <2> QED BY <1>1, <2>1, <2>3 DEF FormatsInv
<1> QED BY <1>7, <1>8

(* An unencrypted message: what is read is what the words say, and more    *)
(* words may follow.                                                       *)
LEMMA PlainRead ==
    ASSUME NEW r \in Seq(Word), 5 <= Len(r), r[1] = 0, r[2] = 0, r[5] % 4 = 0,
           5 + r[5] \div 4 <= Len(r),
           NEW m, m = [id |-> Unpack(r[3], r[4]), seq |-> 0,
                       body |-> SubSeq(r, 6, 5 + r[5] \div 4)]
    PROVE  IsPrefix(PlainOf(m), r)
<1> DEFINE a == ReadAt(r, 0)
           size == r[5] \div 4
           p == PlainOf(m)
<1>1. Len(r) \in Nat BY LenProperties
<1>2. r[5] \in Nat
  <2>1. 5 \in 1 .. Len(r) BY <1>1
  <2>2. r[5] \in Word BY <2>1, ElementOfSeq
  <2> QED BY <2>2 DEF Word
<1>3. size \in Nat /\ 5 + size <= Len(r) BY <1>2
<1>4. a = [id |-> Unpack(r[1], r[2]), seq |-> Unpack(r[3], r[4]),
           body |-> SubSeq(r, 6, 5 + size)]
  <2>1. 0 + 1 = 1 /\ 0 + 2 = 2 /\ 0 + 3 = 3 /\ 0 + 4 = 4 /\ 0 + 5 = 5 /\ 0 + 6 = 6
    OBVIOUS
  <2> QED BY ONLY <2>1 DEF ReadAt, size
<1>5. Unpack(r[1], r[2]) = 0
  <2>1. WordMod \in Nat BY FormatsAssumption
  <2> QED BY <2>1 DEF Unpack
<1>6. /\ a \in Nested /\ Len(EncodedMessage(a)) = 5 + size
      /\ \A j \in 1 .. 5 + size : EncodedMessage(a)[j] = r[j]
  <2>1. 0 \in Nat /\ 0 + 5 = 5 /\ \A j \in 1 .. 5 + size : 0 + j = j BY <1>3
  <2>2. /\ a \in Nested /\ Len(EncodedMessage(a)) = 5 + r[0 + 5] \div 4
        /\ \A j \in 1 .. 5 + r[0 + 5] \div 4 : EncodedMessage(a)[j] = r[0 + j]
    <3>1. 0 \in Nat /\ 0 + 5 <= Len(r) /\ r[0 + 5] % 4 = 0 /\ 0 + 5 + r[0 + 5] \div 4 <= Len(r)
      BY ONLY <2>1, 5 <= Len(r), r[5] % 4 = 0, 5 + r[5] \div 4 <= Len(r)
    <3> HIDE DEF size, a
    <3> QED BY ONLY r \in Seq(Word), <3>1, ReadEncoded DEF a
  <2> QED BY ONLY <2>1, <2>2
<1> HIDE DEF size, a
<1>7. p = EncodedMessage(a)
  <2> DEFINE b == [id |-> Unpack(r[3], r[4]), seq |-> 0, body |-> SubSeq(r, 6, 5 + size)]
  <2>1. a.id = 0 /\ a.seq = b.id /\ a.body = b.body BY <1>4, <1>5
  <2>2. 0 \in LongWords /\ a.seq \in LongWords /\ a.body \in Short
    BY <1>6, <2>1 DEF Nested
  <2>3. b \in Nested BY <2>1, <2>2 DEF Nested
  <2>4. Unencrypted(b) = a BY <1>4, <1>5 DEF Unencrypted
  <2>5. m = b BY DEF size
  <2> HIDE DEF b
  <2> QED BY <2>3, <2>4, <2>5, PlainWords
<1>8. p \in Seq(Word) BY <1>6, <1>7, EncodedWords
<1>9. Len(p) = 5 + size /\ \A j \in 1 .. 5 + size : p[j] = r[j] BY <1>6, <1>7
<1> HIDE DEF p
<1>10. /\ SubSeq(r, 1, 5 + size) \in Seq(Word) /\ Len(SubSeq(r, 1, 5 + size)) = 5 + size
       /\ \A j \in 1 .. 5 + size : SubSeq(r, 1, 5 + size)[j] = r[0 + j]
  <2>1. 5 + size \in Nat /\ 0 \in Nat /\ 0 + (5 + size) <= Len(r) /\ 1 = 0 + 1
        /\ 5 + size = 0 + (5 + size)
    BY <1>3
  <2> QED BY ONLY r \in Seq(Word), <2>1, PieceOf
<1>11. SubSeq(r, 1, 5 + size) = p
  <2> DEFINE u == SubSeq(r, 1, 5 + size)
  <2>1. \A j \in 1 .. 5 + size : 0 + j = j BY <1>3
  <2> HIDE DEF u
  <2>2. u \in Seq(Word) /\ Len(u) = Len(p) /\ \A j \in 1 .. Len(u) : u[j] = p[j]
    BY ONLY <1>9, <1>10, <2>1 DEF u
  <2>3. u = p BY ONLY <1>8, <2>2, SeqEqual
  <2> QED BY <2>3 DEF u
<1>12. SubSeq(p, 1, Len(p)) = p BY <1>8, SubSeqFull
<1> QED BY <1>1, <1>3, <1>9, <1>11, <1>12 DEF IsPrefix, p

(* An unencrypted message that arrives as it was encoded.                  *)
LEMMA PlainUnchanged ==
    ASSUME NEW w \in Nested, w.seq = 0, NEW r, r = PlainOf(w)
    PROVE  /\ r \in Seq(Word) /\ Len(r) = 5 + Len(w.body) /\ Len(w.body) \in Nat
           /\ r[1] = 0 /\ r[2] = 0 /\ r[5] = 4 * Len(w.body)
           /\ [id |-> Unpack(r[3], r[4]), seq |-> 0,
               body |-> SubSeq(r, 6, 5 + r[5] \div 4)] = w
<1> DEFINE u == Unencrypted(w)
           size == Len(w.body)
<1>1. u \in Nested /\ r = EncodedMessage(u) BY PlainWords
<1>2. u.id = 0 /\ u.seq = w.id /\ u.body = w.body BY DEF Unencrypted
<1>3. w.body \in Seq(Word) /\ size \in Nat BY LenProperties DEF Nested, Short
<1> HIDE DEF u
<1>4. /\ EncodedMessage(u) \in Seq(Word) /\ Len(EncodedMessage(u)) = 5 + Len(u.body)
      /\ EncodedMessage(u)[1] = Pack(u.id)[1] /\ EncodedMessage(u)[2] = Pack(u.id)[2]
  BY <1>1, EncodedWords
<1>5. r \in Seq(Word) /\ Len(r) = 5 + size /\ r[1] = Pack(0)[1] /\ r[2] = Pack(0)[2]
  BY ONLY <1>1, <1>2, <1>4
<1>6. Pack(0)[1] = 0 /\ Pack(0)[2] = 0
  <2>1. WordMod \in Nat \ {0} BY FormatsAssumption
  <2>2. 0 % WordMod = 0 /\ 0 \div WordMod = 0 BY <2>1
  <2> QED BY <2>2 DEF Pack
<1>7. ReadAt(r, 0) = u /\ r[0 + 5] = 4 * Len(u.body)
  <2>1. 0 \in Nat /\ 0 + 5 + Len(u.body) <= Len(r) BY <1>2, <1>3, <1>5
  <2>2. \A j \in 1 .. 5 + Len(u.body) : r[0 + j] = EncodedMessage(u)[j]
    <3>1. \A j \in 1 .. 5 + Len(u.body) : 0 + j = j BY <1>2, <1>3
    <3> QED BY ONLY <1>1, <3>1
  <2> QED BY ONLY <1>1, <1>5, <2>1, <2>2, ReadBack
<1>8. 0 + 1 = 1 /\ 0 + 2 = 2 /\ 0 + 3 = 3 /\ 0 + 4 = 4 /\ 0 + 5 = 5 /\ 0 + 6 = 6
  OBVIOUS
<1>9. r[5] = 4 * size BY ONLY <1>2, <1>7, <1>8
<1>10. ReadAt(r, 0) = [id |-> Unpack(r[1], r[2]), seq |-> Unpack(r[3], r[4]),
                       body |-> SubSeq(r, 6, 5 + r[5] \div 4)]
  BY ONLY <1>8 DEF ReadAt
<1>11. w.id = Unpack(r[3], r[4]) /\ w.body = SubSeq(r, 6, 5 + r[5] \div 4)
  BY ONLY <1>2, <1>7, <1>10
<1>12. w = [id |-> w.id, seq |-> 0, body |-> w.body] BY DEF Nested
<1>13. [id |-> Unpack(r[3], r[4]), seq |-> 0, body |-> SubSeq(r, 6, 5 + r[5] \div 4)] = w
  BY ONLY <1>11, <1>12
<1> QED BY ONLY <1>3, <1>5, <1>6, <1>9, <1>13

(* decode_unencrypted().                                                   *)
LEMMA PlainStep == FormatsInv /\ DecodePlain => FormatsInv'
<1> SUFFICES ASSUME FormatsInv, DecodePlain PROVE FormatsInv' OBVIOUS
<1> DEFINE r == received
           w == Whole[1]
           m == [id |-> Unpack(r[3], r[4]), seq |-> 0, body |-> SubSeq(r, 6, 5 + r[5] \div 4)]
           Gates == BytesLeft(0) >= 20 /\ PlainOK
<1>1. /\ job = "plain" /\ step = "arrived" /\ UNCHANGED <<job, batch, outer, data, rdata>>
      /\ received' = received /\ Whole' = Whole /\ AsEncoded' = AsEncoded
      /\ rdata \in Data /\ Encoding
  BY DEF DecodePlain, RefuseFormat, format, received, Whole, AsEncoded, FormatsInv
<1>2. r \in Seq(Word) /\ Len(r) \in Nat BY <1>1, LenProperties DEF received, Data
<1>3. BytesLeft(0) >= 20 <=> 5 <= Len(r)
  <2>1. BytesLeft(0) >= 4 * 5 <=> 0 + 5 <= Len(r) BY <1>1, BytesInWords
  <2> QED BY <1>2, <2>1
<1>4. \A n \in Nat : BytesLeft(5) >= 4 * n <=> 5 + n <= Len(r) BY <1>1, BytesInWords
<1>5. AsEncoded => Gates /\ Whole = <<m>>
  <2> SUFFICES ASSUME AsEncoded PROVE Gates /\ Whole = <<m>> OBVIOUS
  <2>1. /\ Whole \in Seq(Nested) /\ Len(Whole) = Len(batch) /\ Len(batch) = 1
        /\ \A k \in 1 .. Len(batch) : Whole[k].seq = batch[k].seq
        /\ batch[1].seq = 0
    BY <1>1, WholeType DEF FormatsInv
  <2>2. 1 \in 1 .. Len(Whole) /\ 1 \in 1 .. Len(batch) BY <2>1
  <2>3. w \in Nested /\ w.seq = 0 BY <2>1, <2>2, ElementOfSeq
  <2>4. r = PlainOf(w) BY <1>1 DEF AsEncoded, received, Encoding
  <2> HIDE DEF r, w
  <2>5. /\ Len(r) = 5 + Len(w.body) /\ Len(w.body) \in Nat
        /\ r[1] = 0 /\ r[2] = 0 /\ r[5] = 4 * Len(w.body) /\ m = w
    BY ONLY <2>3, <2>4, PlainUnchanged
  <2> DEFINE size == Len(w.body)
  <2> HIDE DEF size, m
  <2>6. Len(r) = 5 + size /\ size \in Nat /\ r[5] = 4 * size BY ONLY <2>5 DEF size
  <2>7. BytesLeft(0) >= 20 /\ BytesLeft(5) >= r[5] /\ r[5] % 4 = 0
    <3>1. 5 <= Len(r) /\ 5 + size <= Len(r) /\ r[5] % 4 = 0 BY ONLY <2>6
    <3> QED BY ONLY <1>3, <1>4, <2>6, <3>1
  <2>8. PlainOK BY <2>5, <2>7 DEF PlainOK, r
  <2>9. Whole = <<m>>
    <3>1. Whole[1] = m BY <2>5 DEF w
    <3>2. <<m>> \in Seq(Nested) /\ Len(<<m>>) = Len(Whole) /\ <<m>>[1] = m
      BY <2>1, <2>3, <2>5
    <3>3. Len(Whole) \in 1 .. 1 BY <2>1
    <3>4. \A n \in 1 .. 1 : \A k \in 1 .. n : k = 1 OBVIOUS
    <3>5. \A k \in 1 .. Len(Whole) : k = 1 BY ONLY <3>3, <3>4
    <3> QED BY ONLY <2>1, <3>1, <3>2, <3>5, SeqEqual
  <2> QED BY <2>7, <2>8, <2>9
<1>6. CASE Gates
  <2>1. step' = "decoded" /\ found' = <<m>> BY <1>6 DEF DecodePlain
  <2>2. found'[1] = m BY <2>1
  <2>3. IsPrefix(PlainOf(m), r)
    <3>1. r[1] = 0 /\ r[2] = 0 /\ r[5] % 4 = 0 /\ BytesLeft(5) >= r[5] /\ 5 <= Len(r)
      BY <1>3, <1>6 DEF PlainOK
    <3> HIDE DEF r
    <3>2. r[5] \in Nat
      <4>1. 5 \in 1 .. Len(r) BY <1>2, <3>1
      <4>2. r[5] \in Word BY <1>2, <4>1, ElementOfSeq
      <4> QED BY <4>2 DEF Word
    <3>3. r[5] \div 4 \in Nat /\ r[5] = 4 * (r[5] \div 4) BY <3>1, <3>2
    <3>4. 5 + r[5] \div 4 <= Len(r) BY <1>4, <3>1, <3>3
    <3> QED BY ONLY <1>2, <3>1, <3>4, PlainRead
  <2>4. FormatsExact'
    <3>1. IsPrefix(PlainOf(found'[1]), rdata'.words) BY <1>1, <2>2, <2>3 DEF received
    <3> HIDE DEF m
    <3>2. AsEncoded' => found' = Whole' BY ONLY <1>1, <1>5, <2>1
    <3> QED BY <1>1, <2>1, <3>1, <3>2 DEF FormatsExact, AsEncoded
  <2> QED BY <1>1, <2>1, <2>4 DEF FormatsInv
<1>7. CASE ~Gates
  <2>1. step' = "raised" BY <1>7 DEF DecodePlain, RefuseFormat
  <2>2. ~AsEncoded BY <1>5, <1>7
  <2>3. FormatsExact' BY <1>1, <2>1, <2>2 DEF FormatsExact, AsEncoded
  <2> QED BY <1>1, <2>1, <2>3 DEF FormatsInv
<1> QED BY <1>6, <1>7

(* Every step.                                                             *)
LEMMA FormatsSteps == FormatsInv /\ [FormatsNext]_formatVars => FormatsInv'
<1> SUFFICES ASSUME FormatsInv, [FormatsNext]_formatVars PROVE FormatsInv' OBVIOUS
<1>1. CASE UNCHANGED <<job, batch, outer, step, data, rdata, offset, todo, found>>
  BY <1>1 DEF FormatsInv, Encoding, Decoding, AsEncoded, FormatsExact, Holds, OddBody, Whole,
              received
<1>2. CASE Returned \/ UNCHANGED formatVars \/ \E n \in Seeable : AddSeen(n)
  BY <1>1, <1>2 DEF Returned, formatVars, format, AddSeen
<1> QED BY <1>2, EncodeStep, ArriveStep, HeaderStep, NestedStep, EndStep, PlainStep
        DEF FormatsNext

(* Whatever is put into a container or sent unencrypted, and whatever      *)
(* happens to it on the way: the decoders of containers.py and envelope.py *)
(* accept the exact encodings and nothing else, and return what was        *)
(* encoded (FormatsExact).                                                 *)
THEOREM FormatsAlwaysExact == CallsSpec => []FormatsExact
<1>1. FormatsInv => FormatsExact BY DEF FormatsInv
<1>2. CallsInit => FormatsInv BY FormatsStarts, UnusedStarts DEF CallsInit
<1>3. [CallsNext]_<<vars, formatVars>> => [FormatsNext]_formatVars BY DEF CallsNext
<1> QED BY <1>1, <1>2, <1>3, FormatsSteps, PTL DEF CallsSpec
=============================================================================

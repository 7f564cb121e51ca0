----------------------- MODULE EntropyCollector_proofs -----------------------
(***************************************************************************)
(* Proofs about the construction of a DigitalURandom: its types, the       *)
(* account of what the devices gave, the strict mode, and that no source   *)
(* is left out, for any devices, answers, threads and configurations.      *)
(***************************************************************************)
EXTENDS EntropyCollector, TLAPS

Entry == [from : Sources, bytes : 1 .. Max({1, HwByteCount})]

(* Where the data of a source is in a pool.                                *)
Places(p, s) == {i \in 1 .. Len(p) : p[i].from = s}

(* The n bytes of a device are in the pool, once.                          *)
Booked(p, s, n) == \E i \in Places(p, s) : Places(p, s) = {i} /\ p[i].bytes = n

-----------------------------------------------------------------------------
LEMMA MinOfTwo ==
    ASSUME NEW a \in Nat, NEW b \in Nat
    PROVE  Min({a, b}) = IF a <= b THEN a ELSE b
<1> DEFINE m == IF a <= b THEN a ELSE b
<1>1. m \in {a, b} /\ \A y \in {a, b} : m =< y OBVIOUS
<1>2. \A x \in {a, b} : (\A y \in {a, b} : x =< y) => x = m OBVIOUS
<1> QED BY <1>1, <1>2 DEF Min

LEMMA MaxOfTwo ==
    ASSUME NEW a \in Nat, NEW b \in Nat
    PROVE  Max({a, b}) \in Nat /\ a <= Max({a, b}) /\ b <= Max({a, b})
<1> DEFINE m == IF a >= b THEN a ELSE b
<1>1. m \in {a, b} /\ \A y \in {a, b} : m >= y OBVIOUS
<1>2. \A x \in {a, b} : (\A y \in {a, b} : x >= y) => x = m OBVIOUS
<1>3. Max({a, b}) = m BY <1>1, <1>2 DEF Max
<1> QED BY <1>3

LEMMA EntryBound ==
    /\ Max({1, HwByteCount}) \in Nat /\ 1 <= Max({1, HwByteCount})
    /\ HwByteCount <= Max({1, HwByteCount})
<1>1. HwByteCount \in Nat BY CollectorAssumption
<1> QED BY <1>1, MaxOfTwo

(* What mix() does to the places of the sources.                           *)
LEMMA MixedPool ==
    ASSUME NEW p \in Seq(Entry), NEW s \in Sources, NEW n \in 0 .. Max({1, HwByteCount})
    PROVE  /\ Mixed(p, s, n) \in Seq(Entry)
           /\ \A r : r # s \/ n = 0 => Places(Mixed(p, s, n), r) = Places(p, r)
           /\ \A r : \A i \in Places(p, r) : i \in Places(Mixed(p, s, n), r)
                                             /\ Mixed(p, s, n)[i] = p[i]
           /\ n # 0 => /\ Places(Mixed(p, s, n), s) = Places(p, s) \cup {Len(p) + 1}
                       /\ Mixed(p, s, n)[Len(p) + 1].bytes = n
<1>0. Max({1, HwByteCount}) \in Nat BY EntryBound
<1>1. CASE n = 0 BY <1>1 DEF Mixed
<1>2. CASE n # 0
  <2> DEFINE e == [from |-> s, bytes |-> n]
             q == Append(p, e)
  <2>1. e \in Entry BY <1>0, <1>2 DEF Entry
  <2>2. /\ q \in Seq(Entry) /\ Len(q) = Len(p) + 1 /\ q[Len(p) + 1] = e
        /\ \A i \in 1 .. Len(p) : q[i] = p[i]
        /\ Len(p) \in Nat
    BY <2>1
  <2>3. Mixed(p, s, n) = q BY <1>2 DEF Mixed
  <2>4. e.from = s /\ e.bytes = n OBVIOUS
  <2> HIDE DEF q, e
  <2>5. \A r : r # s => Places(q, r) = Places(p, r) BY <2>2, <2>4 DEF Places
  <2>6. Places(q, s) = Places(p, s) \cup {Len(p) + 1} BY <2>2, <2>4 DEF Places
  <2>7. \A r : \A i \in Places(p, r) : i \in Places(q, r) /\ q[i] = p[i]
    BY <2>2 DEF Places
  <2> QED BY <1>2, <2>2, <2>3, <2>4, <2>5, <2>6, <2>7
<1> QED BY <1>1, <1>2

-----------------------------------------------------------------------------
(* The account: HardwareAccounted and the counter, at every stage.         *)
Reading(d) == pc = "read" /\ d = Tpm[node]

Early == pc \in {"runtime", "tpm2", "read"}

Accounts ==
    \A d \in Devices :
        IF given[d] = 0 \/ Reading(d) THEN Places(pool, d) = {}
        ELSE Booked(pool, d, Usable(d))

Stages ==
    /\ Early => given["hwrng"] = 0 /\ given["hw_random"] = 0 /\ hardware = 0
    /\ pc = "hwrng" => given["hwrng"] = 0 /\ given["hw_random"] = 0
    /\ pc \in {"runtime", "tpm2"} => given["tpmrm0"] = 0 /\ given["tpm0"] = 0
    /\ pc = "read" => given[Tpm[node]] = got /\ given[Tpm[3 - node]] = 0
                    /\ (got = 0 \/ HwByteCount # 0)
    /\ ~Early => hardware = Usable("tpmrm0") + Usable("tpm0")
                              + Usable("hwrng") + Usable("hw_random")
    /\ pc = "ready" => ~strict \/ hardware >= Required
    /\ pc = "refused" => strict /\ hardware < Required

OneOfTwo ==
    /\ given["tpmrm0"] = 0 \/ given["tpm0"] = 0
    /\ given["hwrng"] = 0 \/ given["hw_random"] = 0

Types ==
    /\ strict \in BOOLEAN /\ useNetwork \in BOOLEAN /\ skip \in Skips
    /\ pc \in {"runtime", "tpm2", "read", "hwrng", "linux", "timer", "thread",
               "sample", "join", "alloc", "network", "check"} \cup Ended
    /\ node \in {1, 2} /\ got \in Nat
    /\ given \in [Devices -> Nat]
    /\ pool \in Seq(Entry)
    /\ hardware \in Nat
    /\ round \in 0 .. Rounds /\ stop \in BOOLEAN
    /\ work \in [Workers -> {"none", "spinning", "ended"}]

IInv == Types /\ Accounts /\ Stages /\ OneOfTwo

LEMMA UsableType ==
    ASSUME Types, NEW d \in Devices
    PROVE  /\ Usable(d) \in Nat /\ Usable(d) <= HwByteCount
           /\ given[d] = 0 => Usable(d) = 0
           /\ Usable(d) = IF given[d] <= HwByteCount THEN given[d] ELSE HwByteCount
<1>1. given[d] \in Nat /\ HwByteCount \in Nat BY CollectorAssumption DEF Types
<1>2. Usable(d) = IF given[d] <= HwByteCount THEN given[d] ELSE HwByteCount
  BY <1>1, MinOfTwo DEF Usable
<1> QED BY <1>1, <1>2

LEMMA InitIInv == Init => IInv
<1> SUFFICES ASSUME Init PROVE IInv OBVIOUS
<1>1. Types
  <2>1. pool \in Seq(Entry) BY DEF Init
  <2>2. round \in 0 .. Rounds /\ got \in Nat /\ hardware \in Nat /\ node \in {1, 2}
    BY CollectorAssumption DEF Init
  <2>3. given \in [Devices -> Nat] /\ work \in [Workers -> {"none", "spinning", "ended"}]
    BY DEF Init
  <2> QED BY <2>1, <2>2, <2>3 DEF Init, Types
<1>2. Accounts
  <2>1. \A d \in Devices : given[d] = 0 BY DEF Init
  <2>2. \A d \in Devices : Places(pool, d) = {} BY DEF Init, Places
  <2> QED BY <2>1, <2>2 DEF Accounts
<1>3. Stages BY DEF Init, Stages, Early, Devices
<1>4. OneOfTwo BY DEF Init, OneOfTwo, Devices
<1> QED BY <1>1, <1>2, <1>3, <1>4 DEF IInv

(* After the hardware, what is mixed in or not concerns no device.         *)
Same(p, q, s) == Places(q, s) = Places(p, s) /\ \A i \in Places(p, s) : q[i] = p[i]

LEMMA Booking ==
    ASSUME NEW p, NEW q, NEW s, Same(p, q, s), NEW n, Booked(p, s, n)
    PROVE  Booked(q, s, n)
  BY DEF Same, Booked

LEMMA OtherSource ==
    ASSUME IInv, NEW s \in Sources \ Devices, NEW n \in {0, 1}, NEW p \in Seq(Entry)
    PROVE  /\ Mixed(p, s, n) \in Seq(Entry)
           /\ \A d \in Devices : Same(p, Mixed(p, s, n), d)
<1>1. s \in Sources /\ n \in 0 .. Max({1, HwByteCount}) BY EntryBound
<1> DEFINE q == Mixed(p, s, n)
<1>2. /\ q \in Seq(Entry)
      /\ \A r : r # s \/ n = 0 => Places(q, r) = Places(p, r)
      /\ \A r : \A i \in Places(p, r) : i \in Places(q, r) /\ q[i] = p[i]
  BY <1>1, MixedPool
<1> HIDE DEF q
<1>3. ASSUME NEW d \in Devices PROVE Same(p, q, d)
  BY <1>2 DEF Same
<1>4. q \in Seq(Entry) /\ \A d \in Devices : Same(p, q, d) BY <1>2, <1>3
<1> QED BY <1>4 DEF q

LEMMA SameTwice ==
    ASSUME NEW p, NEW q, NEW r, NEW d, Same(p, q, d), Same(q, r, d)
    PROVE  Same(p, r, d)
  BY DEF Same

LEMMA Quiet ==
    ASSUME IInv, Types',
           given' = given, hardware' = hardware,
           \A d \in Devices : Same(pool, pool', d),
           pc \notin {"runtime", "tpm2", "read", "hwrng"},
           pc' \notin {"runtime", "tpm2", "read", "hwrng"},
           pc' = "ready" => ~strict' \/ hardware' >= Required,
           pc' = "refused" => strict' /\ hardware' < Required
    PROVE  IInv'
<1>1. Accounts'
  <2> SUFFICES ASSUME NEW d \in Devices
               PROVE  IF given'[d] = 0 \/ (pc' = "read" /\ d = Tpm[node'])
                      THEN Places(pool', d) = {} ELSE Booked(pool', d, Usable(d)')
    BY DEF Accounts, Reading
  <2>1. Usable(d)' = Usable(d) BY DEF Usable
  <2>2. CASE given[d] = 0 BY <2>2 DEF IInv, Accounts, Same
  <2>3. CASE given[d] # 0
    <3>1. Booked(pool, d, Usable(d)) BY <2>3 DEF IInv, Accounts, Reading
    <3> QED BY <2>1, <2>3, <3>1, Booking
  <2> QED BY <2>2, <2>3
<1>2. Stages'
  <2>1. \A d \in Devices : Usable(d)' = Usable(d) BY DEF Usable
  <2>2. hardware = Usable("tpmrm0") + Usable("tpm0") + Usable("hwrng") + Usable("hw_random")
    BY DEF IInv, Stages, Early
  <2> QED BY <2>1, <2>2 DEF Stages, Early, Devices
<1>3. OneOfTwo' BY DEF IInv, OneOfTwo
<1> QED BY <1>1, <1>2, <1>3 DEF IInv

-----------------------------------------------------------------------------
(* One lemma for each kind of step.                                        *)
LEMMA UnchangedPool ==
    ASSUME NEW p, NEW d PROVE Same(p, p, d)
  BY DEF Same

LEMMA RuntimeIInv == ASSUME IInv, Runtime PROVE IInv'
<1>1. pool' \in Seq(Entry) /\ \A d \in Devices : Same(pool, pool', d)
  BY OtherSource DEF Runtime, IInv, Types, Sources, Devices, Software
<1>2. Types'
  <2>1. pc' = "tpm2" /\ UNCHANGED <<config, reads, jitter>> BY DEF Runtime
  <2> QED BY <1>1, <2>1 DEF IInv, Types, config, reads, jitter
<1>3. Accounts'
  <2>1. \A d \in Devices : given[d] = 0
    BY DEF IInv, Stages, Early, Runtime, Devices
  <2>2. \A d \in Devices : Places(pool, d) = {} BY <2>1 DEF IInv, Accounts
  <2>3. \A d \in Devices : Places(pool', d) = {} BY <1>1, <2>2 DEF Same
  <2> QED BY <2>1, <2>3 DEF Accounts, Runtime, reads
<1>4. Stages' BY DEF IInv, Stages, Early, Runtime, reads
<1>5. OneOfTwo' BY DEF IInv, OneOfTwo, Runtime, reads
<1> QED BY <1>2, <1>3, <1>4, <1>5 DEF IInv

(* No device file of the TPM is left, or one is: nothing was read.         *)
LEMMA NothingRead ==
    ASSUME IInv, Types', pc \in {"tpm2", "read"}, pc = "read" => got = 0,
           pc' \in {"tpm2", "read", "hwrng"}, pc' = "read" => got' = 0,
           UNCHANGED <<given, hardware, pool>>
    PROVE  IInv'
<1>1. node \in {1, 2} /\ node' \in {1, 2} BY DEF IInv, Types
<1>2. Tpm[1] = "tpmrm0" /\ Tpm[2] = "tpm0" BY DEF Tpm
<1>3. 3 - 1 = 2 /\ 3 - 2 = 1 OBVIOUS
<1>4. given["tpmrm0"] = 0 /\ given["tpm0"] = 0
  <2>1. CASE pc = "tpm2" BY <2>1 DEF IInv, Stages
  <2>2. CASE pc = "read"
    <3>1. given[Tpm[node]] = 0 /\ given[Tpm[3 - node]] = 0 BY <2>2 DEF IInv, Stages
    <3> QED BY <1>1, <1>2, <1>3, <3>1
  <2> QED BY <2>1, <2>2
<1>5. given["hwrng"] = 0 /\ given["hw_random"] = 0 /\ hardware = 0
  BY DEF IInv, Stages, Early
<1>6. \A d \in Devices : given[d] = 0 BY <1>4, <1>5 DEF Devices
<1>7. \A d \in Devices : Places(pool, d) = {} BY <1>6 DEF IInv, Accounts
<1>8. Accounts' BY <1>6, <1>7 DEF Accounts
<1>9. Stages'
  <2>1. \A d \in Devices : Usable(d)' = 0
    BY <1>6, UsableType DEF IInv, Usable
  <2>2. given[Tpm[node']] = 0 /\ given[Tpm[3 - node']] = 0 BY <1>1, <1>2, <1>3, <1>4
  <2> QED BY <1>4, <1>5, <2>1, <2>2 DEF Stages, Early, Devices
<1>10. OneOfTwo' BY <1>4, <1>5 DEF OneOfTwo
<1> QED BY <1>8, <1>9, <1>10 DEF IInv

LEMMA OpenIInv == ASSUME IInv, OpenFails \/ Open PROVE IInv'
<1>1. Types'
  BY DEF IInv, Types, OpenFails, Open, NextNode, config, jitter
<1> QED BY <1>1, NothingRead DEF OpenFails, Open, NextNode

LEMMA AnswerIInv == ASSUME IInv, NEW n \in Answers, Answer(n) PROVE IInv'
<1>1. n \in Nat /\ n # 0 BY CollectorAssumption
<1>2. node \in {1, 2} /\ got \in Nat /\ given \in [Devices -> Nat] BY DEF IInv, Types
<1>3. Tpm[1] = "tpmrm0" /\ Tpm[2] = "tpm0" BY DEF Tpm
<1>4. Tpm[node] \in Devices /\ Tpm[3 - node] \in Devices /\ Tpm[3 - node] # Tpm[node]
      /\ Tpm[node] \notin {"hwrng", "hw_random"}
  BY <1>2, <1>3 DEF Devices
<1>5. given[Tpm[node]] = got /\ given[Tpm[3 - node]] = 0 BY DEF IInv, Stages, Answer
<1>6. given' = [given EXCEPT ![Tpm[node]] = got + n] BY <1>5 DEF Answer
<1>7. pc = "read" /\ pc' = "read" /\ node' = node /\ got' = got + n /\ hardware' = hardware
      /\ pool' = pool
  BY DEF Answer
<1>8. Types'
  <2>1. given' \in [Devices -> Nat] BY <1>1, <1>2, <1>4, <1>6
  <2>2. UNCHANGED <<config, jitter>> BY DEF Answer
  <2> QED BY <1>1, <1>2, <1>7, <2>1, <2>2 DEF IInv, Types, config, jitter
<1>9. Accounts'
  <2> SUFFICES ASSUME NEW d \in Devices
               PROVE  IF given'[d] = 0 \/ (pc' = "read" /\ d = Tpm[node'])
                      THEN Places(pool', d) = {} ELSE Booked(pool', d, Usable(d)')
    BY DEF Accounts, Reading
  <2>1. CASE d = Tpm[node] BY <1>7, <2>1 DEF IInv, Accounts, Reading
  <2>2. CASE d # Tpm[node]
    <3>1. given'[d] = given[d] BY <1>2, <1>4, <1>6, <2>2
    <3>2. given[d] = 0 BY <1>2, <1>3, <1>5, <1>7, <2>2 DEF IInv, Stages, Early, Devices
    <3> QED BY <1>7, <3>1, <3>2 DEF IInv, Accounts
  <2> QED BY <2>1, <2>2
<1>10. Stages'
  <2>1. given'["hwrng"] = given["hwrng"] /\ given'["hw_random"] = given["hw_random"]
    BY <1>2, <1>4, <1>6 DEF Devices
  <2>2. given'[Tpm[node]] = got + n /\ given'[Tpm[3 - node]] = 0 BY <1>2, <1>4, <1>5, <1>6
  <2>3. HwByteCount # 0 BY <1>2, CollectorAssumption DEF Answer
  <2> QED BY <1>7, <2>1, <2>2, <2>3 DEF IInv, Stages, Early
<1>11. OneOfTwo'
  <2>1. given'["hwrng"] = given["hwrng"] BY <1>2, <1>4, <1>6 DEF Devices
  <2>2. given["hwrng"] = 0 BY <1>7 DEF IInv, Stages, Early
  <2>3. given'[Tpm[3 - node]] = 0 BY <1>2, <1>4, <1>5, <1>6
  <2> QED BY <1>2, <1>3, <2>1, <2>2, <2>3 DEF OneOfTwo
<1> QED BY <1>8, <1>9, <1>10, <1>11 DEF IInv

(* What a device gave is mixed in, for the first time.                     *)
LEMMA Taken ==
    ASSUME NEW p \in Seq(Entry), NEW s \in Devices, NEW n \in 1 .. HwByteCount,
           Places(p, s) = {}
    PROVE  /\ Mixed(p, s, n) \in Seq(Entry)
           /\ Booked(Mixed(p, s, n), s, n)
           /\ \A d \in Devices \ {s} : Same(p, Mixed(p, s, n), d)
<1>1. s \in Sources /\ n \in 0 .. Max({1, HwByteCount}) /\ n # 0
  BY CollectorAssumption, EntryBound DEF Sources
<1> DEFINE q == Mixed(p, s, n)
<1>2. /\ q \in Seq(Entry)
      /\ \A r : r # s \/ n = 0 => Places(q, r) = Places(p, r)
      /\ \A r : \A i \in Places(p, r) : i \in Places(q, r) /\ q[i] = p[i]
      /\ n # 0 => /\ Places(q, s) = Places(p, s) \cup {Len(p) + 1}
                  /\ q[Len(p) + 1].bytes = n
  BY ONLY p \in Seq(Entry), <1>1, MixedPool
<1> HIDE DEF q
<1>3. Booked(q, s, n) BY <1>1, <1>2 DEF Booked
<1>4. \A d \in Devices \ {s} : Same(p, q, d) BY <1>2 DEF Same
<1>5. q \in Seq(Entry) /\ Booked(q, s, n) /\ \A d \in Devices \ {s} : Same(p, q, d)
  BY <1>2, <1>3, <1>4
<1> QED BY <1>5 DEF q

LEMMA EndTpmIInv == ASSUME IInv, EndTpm PROVE IInv'
<1> DEFINE n == Min({got, HwByteCount})
           s == Tpm[node]
<1>1. HwByteCount \in Nat /\ node \in {1, 2} /\ got \in Nat /\ given \in [Devices -> Nat]
  BY CollectorAssumption DEF IInv, Types
<1>2. n = IF got <= HwByteCount THEN got ELSE HwByteCount BY <1>1, MinOfTwo
<1>3. Tpm[1] = "tpmrm0" /\ Tpm[2] = "tpm0" BY DEF Tpm
<1>4. /\ given[s] = got /\ given[Tpm[3 - node]] = 0 /\ (got = 0 \/ HwByteCount # 0)
      /\ pc = "read" /\ given' = given /\ UNCHANGED <<config, got, jitter>>
  BY DEF IInv, Stages, EndTpm
<1> HIDE DEF n, s
<1>5. CASE n = 0
  <2>1. NextNode("tpm2", "hwrng") /\ UNCHANGED <<hardware, pool>> BY <1>5 DEF EndTpm, n
  <2>2. got = 0 BY <1>1, <1>2, <1>4, <1>5
  <2>3. Types' BY <1>4, <2>1 DEF IInv, Types, NextNode, config, jitter
  <2> QED BY <1>4, <2>1, <2>2, <2>3, NothingRead DEF NextNode
<1>6. CASE n # 0
  <2>1. /\ hardware' = hardware + n /\ pool' = Mixed(pool, s, n) /\ node' = 1 /\ pc' = "hwrng"
    BY <1>6 DEF EndTpm, n, s, Take
  <2>2. n \in 1 .. HwByteCount /\ got # 0 BY <1>1, <1>2, <1>6
  <2>3. s \in Devices /\ s \in {"tpmrm0", "tpm0"} BY <1>1, <1>3 DEF s, Devices
  <2>4. Places(pool, s) = {} BY <1>4, <2>3 DEF IInv, Accounts, Reading, s
  <2>5. /\ pool' \in Seq(Entry) /\ Booked(pool', s, n)
        /\ \A d \in Devices \ {s} : Same(pool, pool', d)
    BY <2>1, <2>2, <2>3, <2>4, Taken DEF IInv, Types
  <2>6. hardware = 0 /\ given["hwrng"] = 0 /\ given["hw_random"] = 0
    BY <1>4 DEF IInv, Stages, Early
  <2>7. \A d \in Devices \ {s} : given[d] = 0
    BY <1>1, <1>3, <1>4, <2>6 DEF Devices, s
  <2>8. Types' BY <1>1, <1>4, <2>1, <2>2, <2>5, <2>6 DEF IInv, Types, config, jitter
  <2>9. \A d \in Devices : Usable(d)' = Usable(d) BY <1>4 DEF Usable
  <2>10. Usable(s) = n BY <1>2, <1>4, <2>3, UsableType DEF IInv
  <2>11. \A d \in Devices \ {s} : Usable(d) = 0 BY <2>7, UsableType DEF IInv
  <2>12. Accounts'
    <3> SUFFICES ASSUME NEW d \in Devices
                 PROVE  IF given'[d] = 0 \/ (pc' = "read" /\ d = Tpm[node'])
                        THEN Places(pool', d) = {} ELSE Booked(pool', d, Usable(d)')
      BY DEF Accounts, Reading
    <3>1. CASE d = s BY <1>4, <2>1, <2>2, <2>5, <2>9, <2>10, <3>1
    <3>2. CASE d # s
      <4>1. Places(pool, d) = {} BY <2>7, <3>2 DEF IInv, Accounts
      <4> QED BY <1>4, <2>5, <2>7, <3>2, <4>1 DEF Same
    <3> QED BY <3>1, <3>2
  <2>13. Stages'
    <3>1. n = Usable("tpmrm0") + Usable("tpm0") + Usable("hwrng") + Usable("hw_random")
      <4>1. Usable("hwrng") = 0 /\ Usable("hw_random") = 0 BY <2>3, <2>11 DEF Devices
      <4>2. CASE s = "tpmrm0" BY <2>2, <2>10, <2>11, <4>1, <4>2 DEF Devices
      <4>3. CASE s = "tpm0" BY <2>2, <2>10, <2>11, <4>1, <4>3 DEF Devices
      <4> QED BY <2>3, <4>2, <4>3
    <3>2. hardware' = n BY <2>1, <2>2, <2>6
    <3> QED BY <1>4, <2>1, <2>6, <2>9, <3>1, <3>2 DEF Stages, Early, Devices
  <2>14. OneOfTwo' BY <1>4 DEF IInv, OneOfTwo
  <2> QED BY <2>8, <2>12, <2>13, <2>14 DEF IInv
<1> QED BY <1>5, <1>6

LEMMA ReadHwrngIInv == ASSUME IInv, NEW n \in 0 .. HwByteCount, ReadHwrng(n) PROVE IInv'
<1>1. HwByteCount \in Nat /\ node \in {1, 2} /\ given \in [Devices -> Nat] /\ n \in Nat
  BY CollectorAssumption DEF IInv, Types
<1>2. Hwrng[1] = "hwrng" /\ Hwrng[2] = "hw_random" BY DEF Hwrng
<1>3. PICK s \in {"hwrng", "hw_random"} : s = Hwrng[node] /\ s \in Devices
  BY <1>1, <1>2 DEF Devices
<1>4. pc = "hwrng" /\ given' = [given EXCEPT ![s] = n] /\ UNCHANGED <<config, got, jitter>>
  BY <1>3 DEF ReadHwrng
<1>5. given["hwrng"] = 0 /\ given["hw_random"] = 0 BY <1>4 DEF IInv, Stages
<1>6. given[s] = 0 /\ Places(pool, s) = {} BY <1>3, <1>4, <1>5 DEF IInv, Accounts
<1>7. given' \in [Devices -> Nat] /\ given'[s] = n /\ \A d \in Devices \ {s} : given'[d] = given[d]
  BY <1>1, <1>3, <1>4
<1>8. \A d \in Devices \ {s} : Usable(d)' = Usable(d) BY <1>7 DEF Usable
<1>9. Usable(s) = 0 BY <1>3, <1>6, UsableType DEF IInv
<1>10. Usable(s)' = n BY <1>1, <1>7, MinOfTwo DEF Usable
<1>11. \A d \in Devices : Usable(d) \in Nat BY UsableType DEF IInv
<1>12. hardware = Usable("tpmrm0") + Usable("tpm0") + Usable("hwrng") + Usable("hw_random")
  BY <1>4 DEF IInv, Stages, Early
<1>13. hardware + n = (Usable("tpmrm0") + Usable("tpm0") + Usable("hwrng") + Usable("hw_random"))'
  <2>1. Usable("tpmrm0")' = Usable("tpmrm0") /\ Usable("tpm0")' = Usable("tpm0")
    BY <1>3, <1>8 DEF Devices
  <2>2. CASE s = "hwrng"
    <3>1. Usable("hw_random")' = Usable("hw_random") /\ Usable("hwrng") = 0 /\ Usable("hwrng")' = n
      BY <1>8, <1>9, <1>10, <2>2 DEF Devices
    <3>2. \A d \in {"tpmrm0", "tpm0", "hw_random"} : Usable(d) \in Nat BY <1>11 DEF Devices
    <3> QED BY <1>1, <1>12, <2>1, <3>1, <3>2
  <2>3. CASE s = "hw_random"
    <3>1. Usable("hwrng")' = Usable("hwrng") /\ Usable("hw_random") = 0 /\ Usable("hw_random")' = n
      BY <1>8, <1>9, <1>10, <2>3 DEF Devices
    <3>2. \A d \in {"tpmrm0", "tpm0", "hwrng"} : Usable(d) \in Nat BY <1>11 DEF Devices
    <3> QED BY <1>1, <1>12, <2>1, <3>1, <3>2
  <2> QED BY <1>3, <2>2, <2>3
<1>14. OneOfTwo'
  <2>1. given'["tpmrm0"] = given["tpmrm0"] /\ given'["tpm0"] = given["tpm0"]
    BY <1>3, <1>7 DEF Devices
  <2>2. given'["hwrng"] = 0 \/ given'["hw_random"] = 0 BY <1>3, <1>5, <1>7 DEF Devices
  <2> QED BY <2>1, <2>2 DEF IInv, OneOfTwo
<1>15. CASE n = 0
  <2>1. NextNode("hwrng", "linux") /\ UNCHANGED <<hardware, pool>> BY <1>15 DEF ReadHwrng
  <2>2. Types' BY <1>4, <1>7, <2>1 DEF IInv, Types, NextNode, config, jitter
  <2>3. \A d \in Devices : given'[d] = given[d] BY <1>6, <1>7, <1>15
  <2>4. \A d \in Devices : Usable(d)' = Usable(d) BY <2>3 DEF Usable
  <2>5. pc' \in {"hwrng", "linux"} BY <2>1 DEF NextNode
  <2>6. Accounts' BY <1>4, <2>1, <2>3, <2>4, <2>5 DEF IInv, Accounts, Reading
  <2>7. hardware' = (Usable("tpmrm0") + Usable("tpm0") + Usable("hwrng") + Usable("hw_random"))'
    BY <1>12, <2>1, <2>4 DEF Devices
  <2>8. Stages' BY <1>5, <2>3, <2>5, <2>7 DEF Stages, Early, Devices
  <2> QED BY <1>14, <2>2, <2>6, <2>8 DEF IInv
<1>16. CASE n # 0
  <2>1. /\ hardware' = hardware + n /\ pool' = Mixed(pool, s, n) /\ node' = 1 /\ pc' = "linux"
    BY <1>3, <1>16 DEF ReadHwrng, Take
  <2>2. /\ pool' \in Seq(Entry) /\ Booked(pool', s, n)
        /\ \A d \in Devices \ {s} : Same(pool, pool', d)
    BY <1>1, <1>3, <1>6, <1>16, <2>1, Taken DEF IInv, Types
  <2>3. hardware' \in Nat BY <1>1, <2>1 DEF IInv, Types
  <2>4. Types' BY <1>4, <1>7, <2>1, <2>2, <2>3 DEF IInv, Types, config, jitter
  <2>5. Accounts'
    <3> SUFFICES ASSUME NEW d \in Devices
                 PROVE  IF given'[d] = 0 \/ (pc' = "read" /\ d = Tpm[node'])
                        THEN Places(pool', d) = {} ELSE Booked(pool', d, Usable(d)')
      BY DEF Accounts, Reading
    <3>1. CASE d = s BY <1>7, <1>10, <1>16, <2>1, <2>2, <3>1
    <3>2. CASE d # s
      <4>1. Same(pool, pool', d) /\ given'[d] = given[d] /\ Usable(d)' = Usable(d)
        BY <1>7, <1>8, <2>2, <3>2
      <4>2. CASE given[d] = 0 BY <4>1, <4>2 DEF IInv, Accounts, Same
      <4>3. CASE given[d] # 0
        <5>1. Booked(pool, d, Usable(d)) BY <1>4, <4>3 DEF IInv, Accounts, Reading
        <5> QED BY <2>1, <4>1, <4>3, <5>1, Booking
      <4> QED BY <4>2, <4>3
    <3> QED BY <3>1, <3>2
  <2>6. Stages' BY <1>13, <2>1 DEF Stages, Early
  <2> QED BY <1>14, <2>4, <2>5, <2>6 DEF IInv
<1> QED BY <1>15, <1>16

(* The sources after the hardware, and the steps that mix in nothing.      *)
LEMMA SoftwareIInv ==
    ASSUME IInv,
           LinuxState \/ (\E b \in {0, 1} : TimerJitter(b)) \/ JoinAll
             \/ AllocatorJitter \/ NetworkTiming
    PROVE  IInv'
<1>1. /\ pc \notin {"runtime", "tpm2", "read", "hwrng"}
      /\ pc' \in {"timer", "thread", "alloc", "network", "check"}
      /\ UNCHANGED <<config, reads, jitter>>
  BY DEF LinuxState, TimerJitter, JoinAll, AllocatorJitter, NetworkTiming
<1>2. pool \in Seq(Entry) BY DEF IInv, Types
<1>3. /\ Min({Rounds, 1}) \in {0, 1}
      /\ Min({TimerSamples, 1}) \in {0, 1}
      /\ Min({AllocSamples, 1}) \in {0, 1}
  <2>1. Rounds \in Nat /\ TimerSamples \in Nat /\ AllocSamples \in Nat
    BY CollectorAssumption
  <2> QED BY <2>1, MinOfTwo
<1>4. {"linux", "timer", "timer-vn", "thread", "alloc", "network"} \subseteq Sources \ Devices
  BY DEF Sources, Software, Devices
<1>5. pool' \in Seq(Entry) /\ \A d \in Devices : Same(pool, pool', d)
  <2>1. CASE LinuxState
    <3>1. PICK n \in {0, 1} : pool' = Mixed(pool, "linux", n) BY <2>1 DEF LinuxState
    <3> QED BY <1>2, <1>4, <3>1, OtherSource
  <2>2. CASE \E b \in {0, 1} : TimerJitter(b)
    <3>1. PICK b \in {0, 1} : TimerJitter(b) BY <2>2
    <3>2. CASE "timer" \in skip BY <1>2, <3>1, <3>2, UnchangedPool DEF TimerJitter
    <3>3. CASE "timer" \notin skip
      <4> DEFINE q == Mixed(pool, "timer", Min({TimerSamples, 1}))
      <4>1. q \in Seq(Entry) /\ \A d \in Devices : Same(pool, q, d)
        BY <1>2, <1>3, <1>4, OtherSource
      <4>2. pool' = Mixed(q, "timer-vn", b) BY <3>1, <3>3 DEF TimerJitter
      <4> HIDE DEF q
      <4>3. pool' \in Seq(Entry) /\ \A d \in Devices : Same(q, pool', d)
        BY <1>4, <4>1, <4>2, OtherSource
      <4> QED BY <4>1, <4>3, SameTwice
    <3> QED BY <3>2, <3>3
  <2>3. CASE JoinAll
    <3>1. PICK n \in {0, 1} : pool' = Mixed(pool, "thread", n) BY <1>3, <2>3 DEF JoinAll
    <3> QED BY <1>2, <1>4, <3>1, OtherSource
  <2>4. CASE AllocatorJitter
    <3>1. PICK n \in {0, 1} : pool' = Mixed(pool, "alloc", n) BY <1>3, <2>4 DEF AllocatorJitter
    <3> QED BY <1>2, <1>4, <3>1, OtherSource
  <2>5. CASE NetworkTiming
    <3>1. PICK n \in {0, 1} : pool' = Mixed(pool, "network", n) BY <2>5 DEF NetworkTiming
    <3> QED BY <1>2, <1>4, <3>1, OtherSource
  <2> QED BY <2>1, <2>2, <2>3, <2>4, <2>5
<1>6. Types' BY <1>1, <1>5 DEF IInv, Types, config, reads, jitter
<1> QED BY <1>1, <1>5, <1>6, Quiet DEF reads

LEMMA OtherIInv ==
    ASSUME IInv,
           SkipThreads \/ (\E k \in Workers : Start(k)) \/ StartFails \/ Sample \/ StopAll
             \/ Check \/ (\E k \in Workers : Worker(k)),
           pc \notin {"runtime", "tpm2", "read", "hwrng"}
    PROVE  IInv'
<1>1. UNCHANGED <<config, reads, pool>>
  BY DEF SkipThreads, Start, StartFails, Sample, StopAll, Check, Worker
<1>2. Types'
  <2>0. Rounds \in Nat BY CollectorAssumption
  <2>1. CASE SkipThreads \/ StartFails \/ StopAll \/ Check
    BY <1>1, <2>1
       DEF IInv, Types, config, reads, jitter, SkipThreads, StartFails, StopAll, Check, Ended
  <2>2. CASE Sample BY <1>1, <2>0, <2>2 DEF IInv, Types, config, reads, Sample
  <2>3. CASE \E k \in Workers : Start(k) \/ Worker(k)
    BY <1>1, <2>3 DEF IInv, Types, config, reads, Start, Worker
  <2> QED BY <2>1, <2>2, <2>3
<1>3. pc' \notin {"runtime", "tpm2", "read", "hwrng"}
  BY DEF SkipThreads, Start, StartFails, Sample, StopAll, Check, Worker
<1>4. hardware \in Nat /\ Required \in Nat BY CollectorAssumption DEF IInv, Types
<1>5. /\ pc' = "ready" => ~strict' \/ hardware' >= Required
      /\ pc' = "refused" => strict' /\ hardware' < Required
  <2>1. CASE Check BY <1>1, <1>4, <2>1 DEF Check, config, reads
  <2>2. CASE \E k \in Workers : Worker(k) BY <1>1, <2>2 DEF Worker, config, reads, IInv, Stages
  <2>3. CASE SkipThreads \/ (\E k \in Workers : Start(k)) \/ StartFails \/ Sample \/ StopAll
    BY <2>3 DEF SkipThreads, Start, StartFails, Sample, StopAll
  <2> QED BY <2>1, <2>2, <2>3
<1>6. \A d \in Devices : Same(pool, pool', d) BY <1>1, UnchangedPool
<1> QED BY <1>1, <1>2, <1>3, <1>5, <1>6, Quiet DEF reads

LEMMA NextIInv == IInv /\ [Next]_vars => IInv'
<1> SUFFICES ASSUME IInv, [Next]_vars PROVE IInv' OBVIOUS
<1>1. CASE Runtime BY <1>1, RuntimeIInv
<1>2. CASE OpenFails \/ Open BY <1>2, OpenIInv
<1>3. CASE \E n \in Answers : Answer(n) BY <1>3, AnswerIInv
<1>4. CASE EndTpm BY <1>4, EndTpmIInv
<1>5. CASE \E n \in 0 .. HwByteCount : ReadHwrng(n) BY <1>5, ReadHwrngIInv
<1>6. CASE LinuxState \/ (\E b \in {0, 1} : TimerJitter(b)) \/ JoinAll
             \/ AllocatorJitter \/ NetworkTiming
  BY <1>6, SoftwareIInv
<1>7. CASE SkipThreads \/ (\E k \in Workers : Start(k)) \/ StartFails \/ Sample \/ StopAll \/ Check
  <2>1. pc \notin {"runtime", "tpm2", "read", "hwrng"}
    BY <1>7 DEF SkipThreads, Start, StartFails, Sample, StopAll, Check
  <2> QED BY <1>7, <2>1, OtherIInv
<1>8. CASE \E k \in Workers : Worker(k)
  <2>1. UNCHANGED <<config, pc, reads, pool, round, stop>> BY <1>8 DEF Worker
  <2>2. CASE pc \in {"runtime", "tpm2", "read", "hwrng"}
    <3>1. work' \in [Workers -> {"none", "spinning", "ended"}]
      BY <1>8 DEF IInv, Types, Worker
    <3>2. Types' BY <2>1, <3>1 DEF IInv, Types, config, reads
    <3>3. \A d \in Devices : Usable(d)' = Usable(d) BY <2>1 DEF Usable, reads
    <3>4. Accounts' BY <2>1, <3>3 DEF IInv, Accounts, Reading, reads
    <3>5. Stages' BY <2>1, <3>3 DEF IInv, Stages, Early, config, reads, Devices
    <3>6. OneOfTwo' BY <2>1 DEF IInv, OneOfTwo, reads
    <3> QED BY <3>2, <3>4, <3>5, <3>6 DEF IInv
  <2> QED BY <1>8, <2>2, OtherIInv
<1>9. CASE UNCHANGED vars
  <2>1. UNCHANGED <<config, pc, reads, pool, jitter>> BY <1>9 DEF vars
  <2>2. Types' BY <2>1 DEF IInv, Types, config, reads, jitter
  <2>3. \A d \in Devices : Usable(d)' = Usable(d) BY <2>1 DEF Usable, reads
  <2>4. Accounts' BY <2>1, <2>3 DEF IInv, Accounts, Reading, reads
  <2>5. Stages' BY <2>1, <2>3 DEF IInv, Stages, Early, config, reads, Devices
  <2>6. OneOfTwo' BY <2>1 DEF IInv, OneOfTwo, reads
  <2> QED BY <2>2, <2>4, <2>5, <2>6 DEF IInv
<1> QED BY <1>1, <1>2, <1>3, <1>4, <1>5, <1>6, <1>7, <1>8, <1>9 DEF Next, Constructor

LEMMA AlwaysIInv == Spec => []IInv
<1> QED BY InitIInv, NextIInv, PTL DEF Spec

(* The counter is never more than what two devices may give.               *)
LEMMA HardwareBound ==
    ASSUME IInv
    PROVE  hardware \in 0 .. 2 * HwByteCount
<1>1. HwByteCount \in Nat /\ hardware \in Nat BY CollectorAssumption DEF IInv, Types
<1>2. \A d \in Devices : /\ Usable(d) \in Nat /\ Usable(d) <= HwByteCount
                         /\ given[d] = 0 => Usable(d) = 0
  BY UsableType DEF IInv
<1>3. CASE Early BY <1>1, <1>3 DEF IInv, Stages
<1>4. CASE ~Early
  <2>1. hardware = Usable("tpmrm0") + Usable("tpm0") + Usable("hwrng") + Usable("hw_random")
    BY <1>4 DEF IInv, Stages
  <2>2. Usable("tpmrm0") = 0 \/ Usable("tpm0") = 0 BY <1>2 DEF IInv, OneOfTwo, Devices
  <2>3. Usable("hwrng") = 0 \/ Usable("hw_random") = 0 BY <1>2 DEF IInv, OneOfTwo, Devices
  <2>4. \A d \in {"tpmrm0", "tpm0", "hwrng", "hw_random"} :
            Usable(d) \in Nat /\ Usable(d) <= HwByteCount
    BY <1>2 DEF Devices
  <2> HIDE DEF Usable
  <2> QED BY <1>1, <2>1, <2>2, <2>3, <2>4
<1> QED BY <1>3, <1>4

(* Type correctness of the construction (TypeOK).                          *)
THEOREM TypeCorrect == Spec => []TypeOK
<1>1. IInv => TypeOK BY HardwareBound DEF IInv, Types, TypeOK, Entry
<1> QED BY <1>1, AlwaysIInv, PTL

(* The strict mode lets an object through exactly if its devices have      *)
(* given enough (StrictRefuses).                                           *)
THEOREM StrictAlwaysRefuses == Spec => []StrictRefuses
<1>1. IInv => StrictRefuses
  <2> SUFFICES ASSUME IInv PROVE StrictRefuses OBVIOUS
  <2>1. \A d \in Devices : Usable(d) \in Nat BY UsableType DEF IInv
  <2>2. \A d \in {"tpmrm0", "tpm0", "hwrng", "hw_random"} : Usable(d) \in Nat
    BY <2>1 DEF Devices
  <2>3. Required \in Nat BY CollectorAssumption
  <2>4. pc \in {"ready", "refused"} =>
            hardware = Usable("tpmrm0") + Usable("tpm0") + Usable("hwrng") + Usable("hw_random")
    BY DEF IInv, Stages, Early
  <2> QED BY <2>2, <2>3, <2>4 DEF IInv, Stages, StrictRefuses
<1> QED BY <1>1, AlwaysIInv, PTL

(* For any devices and any way in which their exchanges break off, every   *)
(* byte up to the number asked for is in the pool once, and no device is   *)
(* used through both of its files (HardwareAccounted).                     *)
THEOREM HardwareAlwaysAccounted == Spec => []HardwareAccounted
<1>1. ASSUME IInv, NEW d \in Devices
      PROVE  LET mixed == {i \in 1 .. Len(pool) : pool[i].from = d}
             IN  IF given[d] = 0 \/ (pc = "read" /\ d = Tpm[node]) THEN mixed = {}
                 ELSE \E i \in mixed : mixed = {i} /\ pool[i].bytes = Usable(d)
  BY <1>1 DEF IInv, Accounts, Reading, Booked, Places
<1>2. IInv /\ StrictRefuses => HardwareAccounted
  BY <1>1 DEF HardwareAccounted, IInv, OneOfTwo
<1> QED BY <1>2, AlwaysIInv, StrictAlwaysRefuses, PTL

-----------------------------------------------------------------------------
(* Which sources the pool has, at every stage.                             *)
Has(s) == Places(pool, s) # {}

Off(s) == s \in skip \/ Count[s] = 0

Sourced(s, stages) == pc \in stages => Off(s) \/ Has(s)

AfterThreads == {"alloc", "network", "check", "refused", "ready"}

MixInv ==
    /\ pc # "runtime" => Has("runtime")
    /\ Sourced("linux", {"timer", "thread", "sample", "join"} \cup AfterThreads)
    /\ Sourced("timer", {"thread", "sample", "join"} \cup AfterThreads)
    /\ Sourced("thread", AfterThreads)
    /\ Sourced("alloc", {"network", "check", "refused", "ready"})
    /\ useNetwork /\ pc \in {"check", "refused", "ready"} => Has("network")

LEMMA MixedHas ==
    ASSUME NEW p \in Seq(Entry), NEW s \in Sources, NEW n \in 0 .. Max({1, HwByteCount})
    PROVE  /\ Mixed(p, s, n) \in Seq(Entry)
           /\ \A r : Places(p, r) # {} => Places(Mixed(p, s, n), r) # {}
           /\ n # 0 => Places(Mixed(p, s, n), s) # {}
<1> DEFINE q == Mixed(p, s, n)
<1>1. /\ q \in Seq(Entry)
      /\ \A r : \A i \in Places(p, r) : i \in Places(q, r)
      /\ n # 0 => Places(q, s) = Places(p, s) \cup {Len(p) + 1}
  BY MixedPool
<1> HIDE DEF q
<1>2. /\ q \in Seq(Entry)
      /\ \A r : Places(p, r) # {} => Places(q, r) # {}
      /\ n # 0 => Places(q, s) # {}
  BY <1>1
<1> QED BY <1>2 DEF q

LEMMA OneMixed ==
    ASSUME NEW p \in Seq(Entry), NEW s \in Sources, NEW n \in {0, 1}
    PROVE  /\ Mixed(p, s, n) \in Seq(Entry)
           /\ \A r : Places(p, r) # {} => Places(Mixed(p, s, n), r) # {}
           /\ n # 0 => Places(Mixed(p, s, n), s) # {}
<1>1. n \in 0 .. Max({1, HwByteCount}) BY EntryBound
<1> QED BY ONLY p \in Seq(Entry), s \in Sources, <1>1, MixedHas

(* No step takes anything out of the pool, and each adds what it is for.   *)
Keeps == \A r : Has(r) => Has(r)'

LEMMA DevicesKeep ==
    ASSUME IInv, EndTpm \/ \E n \in 0 .. HwByteCount : ReadHwrng(n)
    PROVE  Keeps
<1>1. HwByteCount \in Nat /\ node \in {1, 2} /\ got \in Nat /\ pool \in Seq(Entry)
  BY CollectorAssumption DEF IInv, Types
<1>2. CASE pool' = pool BY <1>2 DEF Keeps, Has
<1>3. ASSUME NEW s \in Sources, NEW n \in 0 .. HwByteCount, pool' = Mixed(pool, s, n)
      PROVE  Keeps
  <2>1. n \in 0 .. Max({1, HwByteCount}) BY <1>1, EntryBound
  <2>2. \A r : Places(pool, r) # {} => Places(Mixed(pool, s, n), r) # {}
    BY ONLY <1>1, <2>1, s \in Sources, MixedHas
  <2> QED BY <1>3, <2>2 DEF Keeps, Has
<1>4. Tpm[node] \in Sources /\ Hwrng[node] \in Sources
  BY <1>1 DEF Tpm, Hwrng, Sources, Devices
<1>5. CASE EndTpm
  <2>1. Min({got, HwByteCount}) \in 0 .. HwByteCount BY <1>1, MinOfTwo
  <2>2. pool' = pool \/ pool' = Mixed(pool, Tpm[node], Min({got, HwByteCount}))
    BY <1>5 DEF EndTpm, Take
  <2> QED BY <1>2, <1>3, <1>4, <2>1, <2>2
<1>6. ASSUME NEW n \in 0 .. HwByteCount, ReadHwrng(n) PROVE Keeps
  <2>1. pool' = pool \/ pool' = Mixed(pool, Hwrng[node], n) BY <1>6 DEF ReadHwrng, Take
  <2> QED BY <1>2, <1>3, <1>4, <2>1
<1> QED BY <1>5, <1>6

LEMMA SoftwareMixed ==
    ASSUME IInv
    PROVE  /\ Runtime => Keeps /\ Has("runtime")'
           /\ LinuxState => Keeps /\ (Off("linux") \/ Has("linux")')
           /\ (\E b \in {0, 1} : TimerJitter(b)) => Keeps /\ (Off("timer") \/ Has("timer")')
           /\ JoinAll => Keeps /\ (Off("thread") \/ Has("thread")')
           /\ AllocatorJitter => Keeps /\ (Off("alloc") \/ Has("alloc")')
           /\ NetworkTiming => Keeps /\ (useNetwork => Has("network")')
<1>1. pool \in Seq(Entry) BY DEF IInv, Types
<1>2. {"runtime", "linux", "timer", "timer-vn", "thread", "alloc", "network"} \subseteq Sources
  BY DEF Sources, Software
<1>3. ASSUME NEW s \in Sources, NEW n \in {0, 1}, pool' = Mixed(pool, s, n)
      PROVE  Keeps /\ (n # 0 => Has(s)')
  <2>1. /\ \A r : Places(pool, r) # {} => Places(Mixed(pool, s, n), r) # {}
        /\ n # 0 => Places(Mixed(pool, s, n), s) # {}
    BY ONLY <1>1, s \in Sources, n \in {0, 1}, OneMixed
  <2> QED BY <1>3, <2>1 DEF Keeps, Has
<1>b. ASSUME NEW k \in Nat PROVE Min({k, 1}) \in {0, 1} /\ (k # 0 => Min({k, 1}) # 0)
  BY MinOfTwo
<1>a. /\ Rounds \in Nat /\ TimerSamples \in Nat /\ AllocSamples \in Nat
       /\ Count["timer"] = TimerSamples /\ Count["thread"] = Rounds
       /\ Count["alloc"] = AllocSamples
  BY CollectorAssumption DEF Count
<1>4. Runtime => Keeps /\ Has("runtime")' BY <1>2, <1>3 DEF Runtime
<1>5. LinuxState => Keeps /\ (Off("linux") \/ Has("linux")')
  BY <1>2, <1>3 DEF LinuxState, Off
<1>6. ASSUME NEW b \in {0, 1}, TimerJitter(b)
      PROVE  Keeps /\ (Off("timer") \/ Has("timer")')
  <2>1. CASE "timer" \in skip BY <1>6, <2>1 DEF TimerJitter, Keeps, Has, Off
  <2>2. CASE "timer" \notin skip
    <3> DEFINE m == Min({TimerSamples, 1})
               q == Mixed(pool, "timer", m)
    <3>0. m \in {0, 1} /\ (TimerSamples # 0 => m # 0) BY <1>a, <1>b
    <3> HIDE DEF m, q
    <3>1. "timer" \in Sources BY <1>2
    <3>2. /\ Mixed(pool, "timer", m) \in Seq(Entry)
          /\ m # 0 => Places(Mixed(pool, "timer", m), "timer") # {}
          /\ \A r : Places(pool, r) # {} => Places(Mixed(pool, "timer", m), r) # {}
      BY ONLY <1>1, <3>0, <3>1, OneMixed
    <3>3. /\ q \in Seq(Entry) /\ (m # 0 => Places(q, "timer") # {})
          /\ \A r : Places(pool, r) # {} => Places(q, r) # {}
      BY ONLY <3>2 DEF q
    <3>4. pool' = Mixed(q, "timer-vn", b) BY <1>6, <2>2 DEF TimerJitter, m, q
    <3>5. \A r : Places(q, r) # {} => Places(Mixed(q, "timer-vn", b), r) # {}
      BY ONLY <1>2, <3>3, b \in {0, 1}, OneMixed
    <3>6. \A r : Places(pool, r) # {} => Places(pool', r) # {} BY <3>3, <3>4, <3>5
    <3>7. m # 0 => Places(pool', "timer") # {} BY <3>3, <3>4, <3>5
    <3> QED BY <1>a, <3>0, <3>6, <3>7 DEF Keeps, Has, Off
  <2> QED BY <2>1, <2>2
<1>7. JoinAll => Keeps /\ (Off("thread") \/ Has("thread")')
  <2>1. Min({Rounds, 1}) \in {0, 1} /\ (Rounds # 0 => Min({Rounds, 1}) # 0) BY <1>a, <1>b
  <2> QED BY <1>a, <1>2, <1>3, <2>1 DEF JoinAll, Off
<1>8. AllocatorJitter => Keeps /\ (Off("alloc") \/ Has("alloc")')
  <2>1. /\ Min({AllocSamples, 1}) \in {0, 1}
        /\ AllocSamples # 0 => Min({AllocSamples, 1}) # 0
    BY <1>a, <1>b
  <2> QED BY <1>a, <1>2, <1>3, <2>1 DEF AllocatorJitter, Off
<1>9. NetworkTiming => Keeps /\ (useNetwork => Has("network")')
  <2>1. useNetwork \in BOOLEAN BY DEF IInv, Types
  <2> QED BY <1>2, <1>3, <2>1 DEF NetworkTiming
<1> QED BY <1>4, <1>5, <1>6, <1>7, <1>8, <1>9

LEMMA MixSteps ==
    ASSUME IInv, MixInv, [Next]_vars
    PROVE  MixInv'
<1> USE DEF MixInv, Sourced, AfterThreads, Off
<1>1. CASE Runtime BY <1>1, SoftwareMixed DEF Runtime, config
<1>2. CASE OpenFails \/ Open \/ (\E n \in Answers : Answer(n))
  <2>1. pc' \in {"tpm2", "read", "hwrng"} /\ pool' = pool /\ pc \in {"tpm2", "read"}
    BY <1>2 DEF OpenFails, Open, Answer, NextNode
  <2> QED BY <2>1 DEF Has
<1>3. CASE EndTpm \/ \E n \in 0 .. HwByteCount : ReadHwrng(n)
  <2>1. pc' \in {"tpm2", "hwrng", "linux"} /\ pc \in {"read", "hwrng"}
    BY <1>3 DEF EndTpm, ReadHwrng, NextNode, Take
  <2>2. Keeps BY <1>3, DevicesKeep
  <2> QED BY <2>1, <2>2 DEF Keeps
<1>4. CASE LinuxState
  <2>1. pc = "linux" /\ pc' = "timer" /\ skip' = skip BY <1>4 DEF LinuxState, config
  <2>2. Keeps /\ (Off("linux") \/ Has("linux")') BY <1>4, SoftwareMixed
  <2> QED BY <2>1, <2>2 DEF Keeps
<1>5. CASE \E b \in {0, 1} : TimerJitter(b)
  <2>1. pc = "timer" /\ pc' = "thread" /\ skip' = skip BY <1>5 DEF TimerJitter, config
  <2>2. Keeps /\ (Off("timer") \/ Has("timer")') BY <1>5, SoftwareMixed
  <2> QED BY <2>1, <2>2 DEF Keeps
<1>6. CASE SkipThreads BY <1>6 DEF SkipThreads, config, Has
<1>7. CASE (\E k \in Workers : Start(k)) \/ StartFails \/ Sample \/ StopAll
  <2>1. /\ pc \in {"thread", "sample"} /\ pc' \in {"thread", "sample", "join", "crashed"}
        /\ skip' = skip /\ pool' = pool
    BY <1>7 DEF Start, StartFails, Sample, StopAll, config
  <2> QED BY <2>1 DEF Has
<1>8. CASE JoinAll
  <2>1. pc = "join" /\ pc' = "alloc" /\ skip' = skip BY <1>8 DEF JoinAll, config
  <2>2. Keeps /\ (Off("thread") \/ Has("thread")') BY <1>8, SoftwareMixed
  <2> QED BY <2>1, <2>2 DEF Keeps
<1>9. CASE AllocatorJitter
  <2>1. pc = "alloc" /\ pc' = "network" /\ skip' = skip BY <1>9 DEF AllocatorJitter, config
  <2>2. Keeps /\ (Off("alloc") \/ Has("alloc")') BY <1>9, SoftwareMixed
  <2> QED BY <2>1, <2>2 DEF Keeps
<1>10. CASE NetworkTiming
  <2>1. pc = "network" /\ pc' = "check" /\ skip' = skip /\ useNetwork' = useNetwork
    BY <1>10 DEF NetworkTiming, config
  <2>2. Keeps /\ (useNetwork => Has("network")') BY <1>10, SoftwareMixed
  <2> QED BY <2>1, <2>2 DEF Keeps
<1>11. CASE Check
  <2>1. /\ pc = "check" /\ pc' \in {"refused", "ready"} /\ pool' = pool
        /\ skip' = skip /\ useNetwork' = useNetwork
    BY <1>11 DEF Check, config
  <2> QED BY <2>1 DEF Has
<1>12. CASE (\E k \in Workers : Worker(k)) \/ UNCHANGED vars
  <2>1. UNCHANGED <<pc, pool, skip, useNetwork>> BY <1>12 DEF Worker, vars, config
  <2> QED BY <2>1 DEF Has
<1> QED BY <1>1, <1>2, <1>3, <1>4, <1>5, <1>6, <1>7, <1>8, <1>9, <1>10, <1>11, <1>12
        DEF Next, Constructor

(* No seed is extracted before every source was mixed in that is not       *)
(* switched off and samples anything (EverySourceMixed).                   *)
THEOREM EverySourceAlwaysMixed == Spec => []EverySourceMixed
<1>1. Init => MixInv BY DEF Init, MixInv, Sourced, AfterThreads, Off
<1>2. IInv /\ MixInv /\ [Next]_vars => MixInv' BY MixSteps
<1>3. MixInv => EverySourceMixed
  <2> SUFFICES ASSUME MixInv, pc = "ready",
                      NEW s \in {"runtime"} \cup {c \in Software \ skip : Count[c] # 0}
                                \cup (IF useNetwork THEN {"network"} ELSE {})
               PROVE  Has(s)
    BY DEF EverySourceMixed, Has, Places
  <2>1. CASE s = "runtime" BY <2>1 DEF MixInv
  <2>2. CASE s \in Software \ skip /\ Count[s] # 0
    BY <2>2 DEF MixInv, Sourced, AfterThreads, Software, Off
  <2>3. CASE useNetwork /\ s = "network" BY <2>3 DEF MixInv
  <2> QED BY <2>1, <2>2, <2>3
<1> QED BY <1>1, <1>2, <1>3, AlwaysIInv, PTL DEF Spec
=============================================================================

---------------------------- MODULE Derivations ----------------------------
(***************************************************************************)
(* What is built on HMAC: HKDF (kdf/hkdf.py), PBKDF2 (kdf/pbkdf2.py) and   *)
(* HMAC_DRBG_SHA256 (utils/drbg.py).  Each of their calls of hmac_...() is *)
(* one of Digests, block by block.                                         *)
(***************************************************************************)
EXTENDS Digests

CONSTANTS
    HkdfCalls,      \* [salt, ikm, info, length]
    Pbkdf2Calls,    \* [password, salt, iterations, length]
    CounterLen,     \* bytes of block_num (4)
    Entropies, Personalizations, Nonces, Additional,
    SeedLen,        \* _SEEDLEN
    NonceTag,       \* b"HMAC-DRBG-256-NONCE|"
    Requests,       \* n of random_bytes(); none is over the limit
    ReseedInterval, \* _RESEED_INTERVAL
    MaxCalls        \* bounds the calls of the generator

ASSUME DerivationAssumption ==
    /\ HkdfCalls \subseteq [salt : Seq(Byte), ikm : Seq(Byte), info : Seq(Byte), length : Nat]
    /\ Pbkdf2Calls \subseteq
          [password : Seq(Byte), salt : Seq(Byte), iterations : Nat, length : Nat]
    /\ CounterLen \in Nat \ {0} /\ SeedLen \in Nat \ {0}
    /\ Entropies \cup Personalizations \cup Nonces \cup Additional \subseteq Seq(Byte)
    /\ NonceTag \in Seq(Byte)
    /\ Requests \subseteq Nat /\ ReseedInterval \in Nat /\ MaxCalls \in Nat

VARIABLES
    stage,          \* where the derivation or the generator is
    job,            \* its arguments
    prk, t, okm,    \* of hkdf_expand(); okm is dk of pbkdf2_hmac(), too
    block,          \* blocks of output begun
    round, mixed,   \* iterations, and the digests of which result is the xor
    gen,            \* _key, _v and _reseed_counter
    todo,           \* the rest of a call of the generator
    calls,
    fed, handed     \* since the seeding: the inputs, the bytes returned (history)

deriveVars == <<prk, t, okm, block, round, mixed>>
drbgVars == <<gen, todo, calls, fed, handed>>
vars == <<hashVars, stage, job, deriveVars, drbgVars>>

Init ==
    /\ HashInit
    /\ stage = "idle" /\ job = <<>>
    /\ prk = <<>> /\ t = <<>> /\ okm = <<>> /\ block = 0 /\ round = 0 /\ mixed = {}
    /\ gen = [key |-> <<>>, v |-> <<>>, count |-> 0]
    /\ todo = <<>> /\ calls = 0 /\ fed = <<>> /\ handed = <<>>

(* The application calls a hash function or HMAC itself.                   *)
Plain ==
    /\ stage = "idle" /\ stage' = "plain"
    /\ Hash \/ Hmac
    /\ UNCHANGED <<job, deriveVars, drbgVars>>

Blocks(length) == (length + HashLen - 1) \div HashLen

-----------------------------------------------------------------------------
HkdfExtract ==
    /\ stage = "idle" /\ IsMd(fn)
    /\ \E c \in HkdfCalls :
          /\ job' = c
          /\ CallHmac(IF c.salt = <<>> THEN Zeros(HashLen) ELSE c.salt, c.ikm)
    /\ stage' = "extract"
    /\ UNCHANGED <<deriveVars, drbgVars>>

HkdfExpand ==
    /\ stage = "extract" /\ Returned
    /\ prk' = out
    /\ stage' = IF job.length > (Base - 1) * HashLen THEN "refused" ELSE "expand"
    /\ UNCHANGED <<hashVars, job, t, okm, block, round, mixed, drbgVars>>

(* bytes([i]) raises for what is not a byte; here it is cut, to be seen.   *)
HkdfBlock ==
    /\ stage = "expand" /\ block < Blocks(job.length)
    /\ CallHmac(prk, t \o job.info \o ToBytes(block + 1, 1))
    /\ block' = block + 1
    /\ stage' = "expanding"
    /\ UNCHANGED <<job, prk, t, okm, round, mixed, drbgVars>>

HkdfTake ==
    /\ stage = "expanding" /\ Returned
    /\ t' = out /\ okm' = okm \o out
    /\ stage' = "expand"
    /\ UNCHANGED <<hashVars, job, prk, block, round, mixed, drbgVars>>

-----------------------------------------------------------------------------
Pbkdf2 ==
    /\ stage = "idle" /\ IsMd(fn)
    /\ \E c \in Pbkdf2Calls :
          /\ job' = c
          /\ stage' = IF c.iterations < 1 \/ c.length > (Power[CounterLen] - 1) * HashLen
                      THEN "refused" ELSE "blocks"
    /\ UNCHANGED <<hashVars, deriveVars, drbgVars>>

(* Fault: every block starts from the same salt.                           *)
SaltOfBlock_Same(b) == job.salt \o ToBytes(1, CounterLen)

SaltOfBlock(b) == job.salt \o ToBytes(b, CounterLen)

Pbkdf2Block ==
    /\ stage = "blocks" /\ block < Blocks(job.length)
    /\ CallHmac(job.password, SaltOfBlock(block + 1))
    /\ block' = block + 1 /\ round' = 1 /\ mixed' = {}
    /\ stage' = "mixing"
    /\ UNCHANGED <<job, prk, t, okm, drbgVars>>

(* The xor of digests is the set of those that were mixed in an odd number *)
(* of times.                                                               *)
Pbkdf2Mix ==
    /\ stage = "mixing" /\ Returned
    /\ LET u == {DigestOf(out[1])}
       IN  mixed' = (mixed \ u) \cup (u \ mixed)
    /\ \/ /\ round < job.iterations
          /\ CallHmac(job.password, out)
          /\ round' = round + 1
          /\ UNCHANGED <<okm, stage>>
       \/ /\ round = job.iterations
          /\ okm' = okm \o [j \in 1 .. HashLen |-> <<mixed', j>>]
          /\ stage' = "blocks"
          /\ UNCHANGED <<hashVars, round>>
    /\ UNCHANGED <<job, prk, t, block, drbgVars>>

(* return okm[:length], return dk[:dklen]                                  *)
DeriveEnd ==
    /\ stage \in {"expand", "blocks"} /\ block = Blocks(job.length)
    /\ okm' = SubSeq(okm, 1, job.length)
    /\ stage' = "ended"
    /\ UNCHANGED <<hashVars, job, prk, t, block, round, mixed, drbgVars>>

-----------------------------------------------------------------------------
(* What is left to do: an HMAC for _key, for _v, or for _v and output, the *)
(* check of the counter, or its increment.                                 *)
Task(target, arg) == [target |-> target, arg |-> arg]

(* Fault: the second half does not get the data.                           *)
Update_Half(provided) ==
    <<Task("key", <<0>>), Task("v", <<>>)>>
      \o IF provided = <<>> THEN <<>>
         ELSE <<Task("key", <<1>> \o provided), Task("v", <<>>)>>

(* _update(): the assignments at its end are made at once here, and nobody *)
(* sees the difference.                                                    *)
Update(provided) ==
    <<Task("key", <<0>> \o provided), Task("v", <<>>)>>
      \o IF provided = <<>> THEN <<>>
         ELSE <<Task("key", <<1>> \o provided), Task("v", <<>>)>>

UpdateIfAny(provided) == IF provided = <<>> THEN <<>> ELSE Update(provided)

Seed(material) ==
    /\ gen' = [key |-> Zeros(HashLen), v |-> [j \in 1 .. HashLen |-> 1], count |-> 1]
    /\ todo' = Update(material)
    /\ stage' = "drbg"
    /\ fed' = <<material>> /\ handed' = <<>>

Ready == stage = "drbg" /\ todo = <<>> /\ calls < MaxCalls

(* HMAC_DRBG_SHA256(); too little entropy raises.                          *)
Instantiate ==
    /\ Ready \/ (stage = "idle" /\ IsMd(fn))
    /\ calls' = calls + 1
    /\ \E e \in Entropies, p \in Personalizations :
          /\ Len(e) >= SeedLen
          /\ \/ /\ \E nonce \in Nonces : Seed(e \o nonce \o p)
                /\ UNCHANGED <<hashVars, job>>
             \/ /\ job' = [entropy |-> e, personalization |-> p]
                /\ Call(NonceTag \o SubSeq(e, 1, SeedLen)) /\ use' = "hash"
                /\ stage' = "nonce"
                /\ UNCHANGED <<args, shortKey, known, gen, todo, fed, handed>>
    /\ UNCHANGED deriveVars

NonceMade ==
    /\ stage = "nonce" /\ Returned
    /\ Seed(job.entropy \o out \o job.personalization)
    /\ UNCHANGED <<hashVars, job, deriveVars, calls>>

Reseed ==
    /\ Ready
    /\ calls' = calls + 1
    /\ \E e \in Entropies, a \in Additional : Seed(e \o a)
    /\ UNCHANGED <<hashVars, job, deriveVars>>

(* Fault: no update after a request without additional input.              *)
AfterRequest_IfAny(additional) == UpdateIfAny(additional) \o <<Task("count", <<>>)>>

AfterRequest(additional) == Update(additional) \o <<Task("count", <<>>)>>

(* random_bytes()                                                          *)
Request ==
    /\ Ready
    /\ calls' = calls + 1
    /\ \E n \in Requests, a \in Additional :
          /\ todo' = UpdateIfAny(a) \o <<Task("check", <<>>)>>
                       \o [j \in 1 .. Blocks(n) |->
                               Task("out", Least(HashLen, n - HashLen * (j - 1)))]
                       \o AfterRequest(a)
          /\ fed' = fed \o (IF a = <<>> THEN <<>> ELSE <<a>>)
                        \o (IF gen.count > ReseedInterval THEN <<>> ELSE <<a>>)
    /\ UNCHANGED <<hashVars, stage, job, deriveVars, gen, handed>>

(* The reseed interval; the additional input has been mixed in by then.    *)
RequestStep ==
    /\ stage = "drbg" /\ todo # <<>>
    /\ \/ /\ Head(todo).target = "check"
          /\ todo' = IF gen.count > ReseedInterval THEN <<>> ELSE Tail(todo)
          /\ UNCHANGED gen
       \/ /\ Head(todo).target = "count"
          /\ gen' = [gen EXCEPT !.count = @ + 1]
          /\ todo' = Tail(todo)
    /\ UNCHANGED <<hashVars, stage, job, deriveVars, calls, fed, handed>>

(* hmac_sha256(_key, _v + ...)                                             *)
DrbgMac ==
    /\ stage = "drbg" /\ todo # <<>> /\ Head(todo).target \in {"key", "v", "out"}
    /\ CallHmac(gen.key, gen.v \o IF Head(todo).target = "key" THEN Head(todo).arg ELSE <<>>)
    /\ stage' = "mac"
    /\ UNCHANGED <<job, deriveVars, drbgVars>>

DrbgTake ==
    /\ stage = "mac" /\ Returned
    /\ stage' = "drbg"
    /\ todo' = Tail(todo)
    /\ IF Head(todo).target = "key"
       THEN gen' = [gen EXCEPT !.key = out] ELSE gen' = [gen EXCEPT !.v = out]
    /\ handed' = IF Head(todo).target = "out"
                 THEN handed \o SubSeq(out, 1, Head(todo).arg) ELSE handed
    /\ UNCHANGED <<hashVars, job, deriveVars, calls, fed>>

Next ==
    \/ HashNext /\ UNCHANGED <<stage, job, deriveVars, drbgVars>>
    \/ Plain
    \/ HkdfExtract \/ HkdfExpand \/ HkdfBlock \/ HkdfTake
    \/ Pbkdf2 \/ Pbkdf2Block \/ Pbkdf2Mix \/ DeriveEnd
    \/ Instantiate \/ NonceMade \/ Reseed \/ Request \/ RequestStep \/ DrbgMac \/ DrbgTake

Spec == Init /\ [][Next]_vars

-----------------------------------------------------------------------------
(* hkdf() and pbkdf2_hmac() return as many bytes as they were asked for or *)
(* refuse, and refuse no more than they must; no counter wraps round and   *)
(* no block is given out twice; every iteration of PBKDF2 counts, none     *)
(* being cancelled by another.                                             *)
DerivedFresh ==
    /\ stage = "ended" =>
          /\ Len(okm) = job.length
          /\ IsInjective(okm)
          /\ "iterations" \in DOMAIN job =>
                \A b \in DOMAIN okm : Cardinality(okm[b][1]) = job.iterations
    /\ stage \in {"ended", "refused"} =>
          LET counterLen == IF "info" \in DOMAIN job THEN 1 ELSE CounterLen
              fits == Blocks(job.length) < Power[counterLen]
          IN  stage = "ended" <=> fits /\ ("iterations" \in DOMAIN job => job.iterations > 0)

(* What went into the keys that led to a key and a v, with the byte before *)
(* it: each HMAC that made them is opened, the last one first.  There are  *)
(* no more of them than states known.                                      *)
Unmade(s) ==
    IF s.v[1] \in Byte /\ s.key[1] \in Byte THEN s
    ELSE IF s.v[1] \notin Byte /\ Opened(s.v)[1] = BlockKey(s.key)
    THEN [s EXCEPT !.v = Opened(s.v)[3]]
    ELSE LET mac == Opened(s.key)
             m == mac[3]
         IN  [key |-> SubSeq(mac[1], 1, HashLen), v |-> SubSeq(m, 1, HashLen),
              inputs |-> <<SubSeq(m, HashLen + 1, Len(m))>> \o s.inputs]

Inputs(k, v) ==
    LET before[n \in 0 .. Len(known)] ==
            IF n = 0 THEN [key |-> k, v |-> v, inputs |-> <<>>] ELSE Unmade(before[n - 1])
    IN  before[Len(known)].inputs

(* What _update() mixes in of an input: it, and it again if it is not      *)
(* empty, with a byte before them that says which.                         *)
Twice(d) == IF d = <<>> THEN <<<<0>>>> ELSE <<<<0>> \o d, <<1>> \o d>>

(* Between calls of HMAC_DRBG_SHA256, its state contains all it was given  *)
(* since its seeding, in order and each part twice, and nothing from       *)
(* before: reseed() leaves no trace of the old state.  This holds for      *)
(* input of requests that were refused after the interval, too.            *)
InputsInState ==
    stage = "drbg" /\ todo = <<>> =>
        Inputs(gen.key, gen.v) = FlattenSeq([j \in DOMAIN fed |-> Twice(fed[j])])

(* A byte that random_bytes() has returned is returned once, and is not in *)
(* the state when the call is over, though _v itself is what was returned. *)
OutputNotState ==
    stage = "drbg" /\ todo = <<>> =>
        /\ IsInjective(handed)
        /\ ToSet(handed) \cap (ToSet(gen.key) \cup ToSet(gen.v)) = {}
=============================================================================

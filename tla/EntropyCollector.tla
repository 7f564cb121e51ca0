-------------------------- MODULE EntropyCollector --------------------------
(***************************************************************************)
(* The construction of one DigitalURandom (utils/digital_entropy.py): its  *)
(* DigitalEntropyCollector asks the devices, then the software sources,    *)
(* mixes what they give into the pool, and extracts the seed, or raises.   *)
(*                                                                         *)
(* The pool is a hash chain: it is modelled by what was mixed into it, in  *)
(* order, without the time stamps that mix() adds to everything.  Bytes    *)
(* are counted where the code counts them, for the devices; other data is  *)
(* there (1) or empty (0).                                                 *)
(*                                                                         *)
(* The thread jitter source starts threads that spin until a flag is set.  *)
(* They are daemons and are waited for 50 ms each, so that they may still  *)
(* run when the object is ready.                                           *)
(***************************************************************************)
EXTENDS Integers, Sequences, FiniteSetsExt

CONSTANTS
    HwByteCount,    \* entropy_config["hw_byte_count"]
    Required,       \* bytes that strict_hardware asks for (32)
    Answers,        \* bytes that a TPM may put into one answer
    Workers,        \* the jitter threads, thread_workers of them
    Rounds,         \* entropy_config["thread_rounds"]
    TimerSamples,   \* entropy_config["timer_samples"]
    AllocSamples,   \* entropy_config["alloc_samples"]
    Skips           \* sets of sources that a configuration switches off

Software == {"linux", "timer", "thread", "alloc"}

ASSUME CollectorAssumption ==
    /\ HwByteCount \in Nat /\ Required \in Nat
    /\ Answers \subseteq Nat \ {0}
    /\ Workers # {} /\ IsFiniteSet(Workers)
    /\ {Rounds, TimerSamples, AllocSamples} \subseteq Nat
    /\ Skips \subseteq SUBSET Software

(* The two device files of the TPM, and of the hardware generator, in the  *)
(* order in which they are tried.                                          *)
Tpm   == <<"tpmrm0", "tpm0">>
Hwrng == <<"hwrng", "hw_random">>

Devices == {"tpmrm0", "tpm0", "hwrng", "hw_random"}
Sources == Devices \cup Software \cup {"runtime", "timer-vn", "network"}

VARIABLES
    strict,         \* strict_hardware
    useNetwork,     \* use_network
    skip,           \* the sources that entropy_config switches off
    pc,             \* what the constructor does next, or how it ended
    node,           \* index of the device file that is tried
    got,            \* len(out) in _tpm2_getrandom_from_device()
    given,          \* bytes that each device file has given
    pool,           \* what was mixed in
    hardware,       \* hardware_bytes
    round,          \* rounds of the jitter loop done
    stop,           \* stop[0]
    work            \* the jitter threads: "none", "spinning" or "ended"

config == <<strict, useNetwork, skip>>
reads  == <<node, got, given, hardware>>
jitter == <<round, stop, work>>
vars   == <<config, pc, reads, pool, jitter>>

-----------------------------------------------------------------------------
Init ==
    /\ strict \in BOOLEAN /\ useNetwork \in BOOLEAN /\ skip \in Skips
    /\ pc = "runtime"
    /\ node = 1 /\ got = 0 /\ hardware = 0
    /\ given = [d \in Devices |-> 0]
    /\ pool = <<>>
    /\ round = 0 /\ stop = FALSE
    /\ work = [k \in Workers |-> "none"]

(* mix(): nothing happens if there is no data.                             *)
Mixed(p, from, n) ==
    IF n = 0 THEN p ELSE Append(p, [from |-> from, bytes |-> n])

Runtime ==
    /\ pc = "runtime"
    /\ pool' = Mixed(pool, "runtime", 1)
    /\ pc' = "tpm2"
    /\ UNCHANGED <<config, reads, jitter>>

(* The next of the two device files, or the next source.                   *)
NextNode(same, other) ==
    IF node = 1 THEN node' = 2 /\ pc' = same
                ELSE node' = 1 /\ pc' = other

(* collect_tpm2(): open() raised.                                          *)
OpenFails ==
    /\ pc = "tpm2"
    /\ NextNode("tpm2", "hwrng")
    /\ UNCHANGED <<config, got, given, hardware, pool, jitter>>

Open ==
    /\ pc = "tpm2"
    /\ pc' = "read"
    /\ got' = 0
    /\ UNCHANGED <<config, node, given, hardware, pool, jitter>>

(* TPM2_GetRandom: a well-formed answer with some bytes, which may be      *)
(* fewer than were asked for, and are taken as they come if they are more. *)
Answer(n) ==
    /\ pc = "read"
    /\ got < HwByteCount
    /\ got' = got + n
    /\ given' = [given EXCEPT ![Tpm[node]] = @ + n]
    /\ UNCHANGED <<config, pc, node, hardware, pool, jitter>>

(* A device gave n bytes: they are counted and mixed in, and the other     *)
(* device file of its kind is left alone.                                  *)
Take(from, n, then) ==
    /\ hardware' = hardware + n
    /\ pool' = Mixed(pool, from, n)
    /\ node' = 1
    /\ pc' = then

(* Fault: what an interrupted exchange gave is thrown away.                *)
EndTpm_AllOrNothing ==
    /\ pc = "read"
    /\ IF got < HwByteCount
       THEN NextNode("tpm2", "hwrng") /\ UNCHANGED <<hardware, pool>>
       ELSE Take(Tpm[node], HwByteCount, "hwrng")
    /\ UNCHANGED <<config, got, given, jitter>>

(* The loop over the commands ends: there is enough, or the answer was     *)
(* not one (an exception, a short read, an error code, a wrong size, no    *)
(* bytes), which may happen at any command.                                *)
EndTpm ==
    /\ pc = "read"
    /\ LET n == Min({got, HwByteCount})
       IN  IF n = 0
           THEN NextNode("tpm2", "hwrng") /\ UNCHANGED <<hardware, pool>>
           ELSE Take(Tpm[node], n, "hwrng")
    /\ UNCHANGED <<config, got, given, jitter>>

(* collect_hwrng(): one read(), which may return fewer bytes, or none, or  *)
(* raise (n = 0).                                                          *)
ReadHwrng(n) ==
    /\ pc = "hwrng"
    /\ given' = [given EXCEPT ![Hwrng[node]] = n]
    /\ IF n = 0
       THEN NextNode("hwrng", "linux") /\ UNCHANGED <<hardware, pool>>
       ELSE Take(Hwrng[node], n, "linux")
    /\ UNCHANGED <<config, got, jitter>>

(* collect_linux_state(): a file that cannot be read counts as data too,   *)
(* by the name of the exception.                                           *)
LinuxState ==
    /\ pc = "linux"
    /\ pool' = Mixed(pool, "linux", IF "linux" \in skip THEN 0 ELSE 1)
    /\ pc' = "timer"
    /\ UNCHANGED <<config, reads, jitter>>

(* collect_timer_jitter(): the raw samples, then the debiased bits, each   *)
(* made from two samples, of which there may be none.                      *)
TimerJitter(bits) ==
    /\ pc = "timer"
    /\ bits <= TimerSamples \div 2
    /\ pool' = IF "timer" \in skip THEN pool
               ELSE Mixed(Mixed(pool, "timer", Min({TimerSamples, 1})), "timer-vn", bits)
    /\ pc' = "thread"
    /\ UNCHANGED <<config, reads, jitter>>

-----------------------------------------------------------------------------
(* collect_thread_jitter()                                                 *)

SkipThreads ==
    /\ pc = "thread"
    /\ "thread" \in skip
    /\ pc' = "alloc"
    /\ UNCHANGED <<config, reads, pool, jitter>>

Start(k) ==
    /\ pc = "thread"
    /\ "thread" \notin skip
    /\ work[k] = "none"
    /\ work' = [work EXCEPT ![k] = "spinning"]
    /\ pc' = IF \A j \in Workers \ {k} : work[j] # "none" THEN "sample" ELSE "thread"
    /\ UNCHANGED <<config, reads, pool, round, stop>>

(* t.start() raises ("can't start new thread"): the exception leaves the   *)
(* constructor, and nobody stops the threads that were started.            *)
StartFails ==
    /\ pc = "thread"
    /\ "thread" \notin skip
    /\ pc' = "crashed"
    /\ UNCHANGED <<config, reads, pool, jitter>>

Sample ==
    /\ pc = "sample"
    /\ round < Rounds
    /\ round' = round + 1
    /\ UNCHANGED <<config, pc, reads, pool, stop, work>>

(* Fault: the flag is not set.                                             *)
StopAll_Forgotten ==
    /\ pc = "sample"
    /\ round = Rounds
    /\ pc' = "join"
    /\ UNCHANGED <<config, reads, pool, round, stop, work>>

StopAll ==
    /\ pc = "sample"
    /\ round = Rounds
    /\ stop' = TRUE
    /\ pc' = "join"
    /\ UNCHANGED <<config, reads, pool, round, work>>

(* Fault: the samples are dropped if a thread does not end in time.        *)
JoinAll_Strict ==
    /\ pc = "join"
    /\ pool' = IF \E k \in Workers : work[k] = "spinning" THEN pool
               ELSE Mixed(pool, "thread", 1)
    /\ pc' = "alloc"
    /\ UNCHANGED <<config, reads, jitter>>

(* Each t.join(0.05) returns, whether the thread has ended or not.         *)
JoinAll ==
    /\ pc = "join"
    /\ pool' = Mixed(pool, "thread", Min({Rounds, 1}))
    /\ pc' = "alloc"
    /\ UNCHANGED <<config, reads, jitter>>

(* A jitter thread sees the flag; before, it only writes its counter.      *)
Worker(k) ==
    /\ work[k] = "spinning"
    /\ stop
    /\ work' = [work EXCEPT ![k] = "ended"]
    /\ UNCHANGED <<config, pc, reads, pool, round, stop>>

-----------------------------------------------------------------------------
AllocatorJitter ==
    /\ pc = "alloc"
    /\ pool' = Mixed(pool, "alloc", IF "alloc" \in skip THEN 0 ELSE Min({AllocSamples, 1}))
    /\ pc' = "network"
    /\ UNCHANGED <<config, reads, jitter>>

(* collect_network_timing(): a host that cannot be reached counts too.     *)
NetworkTiming ==
    /\ pc = "network"
    /\ pool' = Mixed(pool, "network", IF useNetwork THEN 1 ELSE 0)
    /\ pc' = "check"
    /\ UNCHANGED <<config, reads, jitter>>

(* The strict mode raises; otherwise extract_seed() and the DRBG.          *)
Check ==
    /\ pc = "check"
    /\ pc' = IF strict /\ hardware < Required THEN "refused" ELSE "ready"
    /\ UNCHANGED <<config, reads, pool, jitter>>

Constructor ==
    \/ Runtime
    \/ OpenFails \/ Open \/ (\E n \in Answers : Answer(n)) \/ EndTpm
    \/ \E n \in 0 .. HwByteCount : ReadHwrng(n)
    \/ LinuxState
    \/ \E bits \in {0, 1} : TimerJitter(bits)
    \/ SkipThreads \/ (\E k \in Workers : Start(k)) \/ StartFails
    \/ Sample \/ StopAll \/ JoinAll
    \/ AllocatorJitter \/ NetworkTiming \/ Check

Next == Constructor \/ \E k \in Workers : Worker(k)

Spec == Init /\ [][Next]_vars

(* The constructor and the threads are scheduled again and again; devices  *)
(* and hosts answer or time out.                                           *)
FairSpec ==
    Spec /\ WF_vars(Constructor) /\ \A k \in Workers : WF_vars(Worker(k))

-----------------------------------------------------------------------------
Ended == {"ready", "refused", "crashed"}

TypeOK ==
    /\ strict \in BOOLEAN /\ useNetwork \in BOOLEAN /\ skip \in Skips
    /\ pc \in {"runtime", "tpm2", "read", "hwrng", "linux", "timer", "thread",
               "sample", "join", "alloc", "network", "check"} \cup Ended
    /\ node \in {1, 2} /\ got \in Nat
    /\ given \in [Devices -> Nat]
    /\ pool \in Seq([from : Sources, bytes : 1 .. Max({1, HwByteCount})])
    /\ hardware \in 0 .. 2 * HwByteCount
    /\ round \in 0 .. Rounds /\ stop \in BOOLEAN
    /\ work \in [Workers -> {"none", "spinning", "ended"}]

(* What the strict mode may count of a device.                             *)
Usable(d) == Min({given[d], HwByteCount})

(* docs/RANDO.md, strict hardware mode: "Require at least 32 bytes from    *)
(* TPM/hwrng before proceeding".  The object is refused exactly if the     *)
(* devices, not the counter, have given less.                              *)
StrictRefuses ==
    LET enough == Usable("tpmrm0") + Usable("tpm0") + Usable("hwrng") + Usable("hw_random")
                    >= Required
    IN  /\ pc = "ready" => ~strict \/ enough
        /\ pc = "refused" => strict /\ ~enough

(* Every byte that a device gave, up to the number asked for, is in the    *)
(* pool and counted, once, also when the exchange broke off; and the two   *)
(* device files of one device are never both used (collect_tpm2,           *)
(* collect_hwrng, _tpm2_getrandom_from_device): the strict mode goes by    *)
(* the right number.                                                       *)
HardwareAccounted ==
    /\ \A d \in Devices :
           LET mixed == {i \in 1 .. Len(pool) : pool[i].from = d}
           IN  IF given[d] = 0 \/ (pc = "read" /\ d = Tpm[node]) THEN mixed = {}
               ELSE \E i \in mixed : mixed = {i} /\ pool[i].bytes = Usable(d)
    /\ given["tpmrm0"] = 0 \/ given["tpm0"] = 0
    /\ given["hwrng"] = 0 \/ given["hw_random"] = 0
    /\ StrictRefuses

(* The rounds that a software source is configured for.                    *)
Count == [linux |-> 1, timer |-> TimerSamples, thread |-> Rounds, alloc |-> AllocSamples]

(* The seed is extracted after every source was mixed in that is neither   *)
(* switched off nor configured for no samples at all, whatever threads and *)
(* devices did (DigitalURandom.__init__).                                  *)
EverySourceMixed ==
    pc = "ready" =>
        \A s \in {"runtime"} \cup {c \in Software \ skip : Count[c] # 0}
                 \cup (IF useNetwork THEN {"network"} ELSE {}) :
            \E i \in 1 .. Len(pool) : pool[i].from = s

(* The constructor comes to an end, whatever the devices answer, and once  *)
(* the object is ready its jitter threads end, although nobody waits for   *)
(* them longer than 50 ms (DigitalURandom.__init__,                        *)
(* collect_thread_jitter).                                                 *)
EverythingEnds ==
    <>[](pc \in Ended /\ (pc = "ready" => \A k \in Workers : work[k] # "spinning"))
=============================================================================

----------------------------- MODULE RngService -----------------------------
(***************************************************************************)
(* Threads that share the random number generator of utils/random.py: one  *)
(* DigitalURandom made on first use behind a double-checked lock, and in   *)
(* it one HMAC_DRBG_SHA256 behind a lock of its own.                       *)
(*                                                                         *)
(* Lengths are in output blocks of 32 bytes.  The state of the DRBG is the *)
(* pair of a key, numbered by the calls of _update() so far, and of _v,    *)
(* numbered within its key, since HMAC never gives a value twice; what     *)
(* HMAC_DRBG_SHA256 hands out is the sequence of values of _v.             *)
(***************************************************************************)
EXTENDS Integers, SequencesExt

CONSTANTS
    Threads,
    NoThread,
    Requests,       \* lengths that are asked for
    MaxRequest,     \* _MAX_BYTES_PER_REQUEST (65536 bytes)
    Interval,       \* _RESEED_INTERVAL (2^48)
    MaxCalls,       \* bound: calls of a thread
    MaxFailures,    \* bound: failures of self_test() and of the constructor
    MaxInstances    \* bound: generators made

ASSUME RngAssumption ==
    /\ NoThread \notin Threads
    /\ Requests \subseteq Nat
    /\ MaxRequest \in Nat /\ Interval \in Nat
    /\ MaxCalls \in Nat /\ MaxFailures \in Nat /\ MaxInstances \in Nat \ {0}

Instances == 1 .. MaxInstances

VARIABLES
    rng,            \* _rng: an instance, or 0 for None
    rngLock,        \* who holds _rng_lock
    built,          \* DigitalURandom objects made by _get_rng()
    failures,       \* exceptions of self_test() and of the constructor
    drbg,           \* the HMAC_DRBG_SHA256 of each instance
    lock,           \* who holds the _lock of each instance
    generated,      \* _generated of each instance
    pc,             \* where each thread is
    want,           \* the n of its call
    mine,           \* the instance that _get_rng() gave it
    block,          \* the local `out` of random_bytes()
    seen,           \* the value of _generated that it read
    calls,          \* calls it made
    served          \* the results of urandom(), in the order they were made

locals == <<want, mine, block, seen>>
vars   == <<rng, rngLock, built, failures, drbg, lock, generated, pc, want,
            mine, block, seen, calls, served>>

Init ==
    /\ rng = 0 /\ rngLock = NoThread
    /\ built = 0 /\ failures = 0
    /\ drbg = [i \in Instances |-> [key |-> 1, v |-> 0, counter |-> 1]]
    /\ lock = [i \in Instances |-> NoThread]
    /\ generated = [i \in Instances |-> 0]
    /\ pc = [t \in Threads |-> "idle"]
    /\ want = [t \in Threads |-> 0]
    /\ mine = [t \in Threads |-> 0]
    /\ block = [t \in Threads |-> <<>>]
    /\ seen = [t \in Threads |-> 0]
    /\ calls = [t \in Threads |-> 0]
    /\ served = <<>>

Goto(t, from, to) == pc[t] = from /\ pc' = [pc EXCEPT ![t] = to]

(* urandom(n), token_bytes(n) and the rest, which all end up in it; only   *)
(* random_bytes(0) returns without.                                        *)
Call(t, n) ==
    /\ Goto(t, "idle", "check")
    /\ calls[t] < MaxCalls
    /\ calls' = [calls EXCEPT ![t] = @ + 1]
    /\ want' = [want EXCEPT ![t] = n]
    /\ block' = [block EXCEPT ![t] = <<>>]
    /\ UNCHANGED <<rng, rngLock, built, failures, drbg, lock, generated, mine,
                   seen, served>>

-----------------------------------------------------------------------------
(* _get_rng()                                                              *)

shared == <<drbg, lock, generated, want, block, seen, calls, served>>

(* The first look at _rng, without the lock.                               *)
CheckFound(t) ==
    /\ Goto(t, "check", "acquire")
    /\ rng # 0
    /\ mine' = [mine EXCEPT ![t] = rng]
    /\ UNCHANGED <<rng, rngLock, built, failures, shared>>

CheckNone(t) ==
    /\ Goto(t, "check", "init")
    /\ rng = 0
    /\ UNCHANGED <<rng, rngLock, built, failures, mine, shared>>

InitLock(t) ==
    /\ Goto(t, "init", "recheck")
    /\ rngLock = NoThread
    /\ rngLock' = t
    /\ UNCHANGED <<rng, built, failures, mine, shared>>

(* The second look, with the lock.                                         *)
RecheckFound(t) ==
    /\ Goto(t, "recheck", "acquire")
    /\ rng # 0
    /\ rngLock' = NoThread
    /\ mine' = [mine EXCEPT ![t] = rng]
    /\ UNCHANGED <<rng, built, failures, shared>>

(* Fault: _get_rng() does not look again once it has the lock.             *)
RecheckNone_Blind(t) ==
    /\ Goto(t, "recheck", "construct")
    /\ UNCHANGED <<rng, rngLock, built, failures, mine, shared>>

(* self_test() works on generators of its own.                             *)
RecheckNone(t) ==
    /\ Goto(t, "recheck", "construct")
    /\ rng = 0
    /\ UNCHANGED <<rng, rngLock, built, failures, mine, shared>>

(* self_test() or DigitalURandom() raises: the with statement releases the *)
(* lock, _rng stays None, and the next call tries again.                   *)
InitFails(t) ==
    /\ Goto(t, "construct", "idle")
    /\ failures < MaxFailures
    /\ failures' = failures + 1
    /\ rngLock' = NoThread
    /\ UNCHANGED <<rng, built, mine, shared>>

Construct(t) ==
    /\ Goto(t, "construct", "acquire")
    /\ built < MaxInstances
    /\ built' = built + 1
    /\ rng' = built'
    /\ mine' = [mine EXCEPT ![t] = built']
    /\ rngLock' = NoThread
    /\ UNCHANGED <<failures, shared>>

-----------------------------------------------------------------------------
(* DigitalURandom.urandom() and HMAC_DRBG_SHA256.random_bytes()            *)

init == <<rng, rngLock, built, failures, mine, want, calls>>

(* Fault: the generator is used without its lock.                          *)
Acquire_Open(t) ==
    /\ Goto(t, "acquire", "begin")
    /\ lock' = [lock EXCEPT ![mine[t]] = t]
    /\ UNCHANGED <<init, drbg, generated, block, seen, served>>

Acquire(t) ==
    /\ Goto(t, "acquire", "begin")
    /\ lock[mine[t]] = NoThread
    /\ lock' = [lock EXCEPT ![mine[t]] = t]
    /\ UNCHANGED <<init, drbg, generated, block, seen, served>>

(* _update(): a new key, and a new _v under it.                            *)
Updated(s, counter) == [key |-> s.key + 1, v |-> 0, counter |-> counter]

(* n > _MAX_BYTES_PER_REQUEST: ValueError.                                 *)
TooMany(t) ==
    /\ Goto(t, "begin", "idle")
    /\ want[t] > MaxRequest
    /\ lock' = [lock EXCEPT ![mine[t]] = NoThread]
    /\ UNCHANGED <<init, drbg, generated, block, seen, served>>

(* Fault: a request is counted before it is known to be served.            *)
AddInput_Counts(t) ==
    /\ Goto(t, "begin", "interval")
    /\ want[t] <= MaxRequest
    /\ drbg' = [drbg EXCEPT ![mine[t]] = Updated(@, @.counter + 1)]
    /\ UNCHANGED <<init, lock, generated, block, seen, served>>

(* The additional input goes in before the counter is looked at.           *)
AddInput(t) ==
    /\ Goto(t, "begin", "interval")
    /\ want[t] <= MaxRequest
    /\ drbg' = [drbg EXCEPT ![mine[t]] = Updated(@, @.counter)]
    /\ UNCHANGED <<init, lock, generated, block, seen, served>>

(* Fault: the call waits for somebody to reseed.                           *)
IntervalOver_Waits(t) ==
    /\ Goto(t, "interval", "interval")
    /\ drbg[mine[t]].counter > Interval
    /\ UNCHANGED <<init, drbg, lock, generated, block, seen, served>>

(* _reseed_counter > _RESEED_INTERVAL: RuntimeError.                       *)
IntervalOver(t) ==
    /\ Goto(t, "interval", "idle")
    /\ drbg[mine[t]].counter > Interval
    /\ lock' = [lock EXCEPT ![mine[t]] = NoThread]
    /\ UNCHANGED <<init, drbg, generated, block, seen, served>>

IntervalLeft(t) ==
    /\ Goto(t, "interval", "loop")
    /\ drbg[mine[t]].counter <= Interval
    /\ UNCHANGED <<init, drbg, lock, generated, block, seen, served>>

Hashed(s, v) == [key |-> s.key, v |-> v, counter |-> s.counter]

(* Fault: _v is computed once per request.                                 *)
NextV_Once(t) ==
    /\ Goto(t, "loop", "extend")
    /\ Len(block[t]) < want[t]
    /\ drbg' = [drbg EXCEPT ![mine[t]] = Hashed(@, 1)]
    /\ UNCHANGED <<init, lock, generated, block, seen, served>>

(* One round of the loop: self._v = hmac(...), then out.extend(self._v).   *)
NextV(t) ==
    /\ Goto(t, "loop", "extend")
    /\ Len(block[t]) < want[t]
    /\ drbg' = [drbg EXCEPT ![mine[t]] = Hashed(@, @.v + 1)]
    /\ UNCHANGED <<init, lock, generated, block, seen, served>>

Extend(t) ==
    /\ Goto(t, "extend", "loop")
    /\ block' = [block EXCEPT ![t] = Append(@,
           <<mine[t], drbg[mine[t]].key, drbg[mine[t]].v>>)]
    /\ UNCHANGED <<init, drbg, lock, generated, seen, served>>

(* The _update() after the output, the counter, and the end of the with.   *)
Finish(t) ==
    /\ Goto(t, "loop", "count")
    /\ Len(block[t]) >= want[t]
    /\ drbg' = [drbg EXCEPT ![mine[t]] = Updated(@, @.counter + 1)]
    /\ served' = Append(served, [by |-> t, blocks |-> block[t]])
    /\ lock' = [lock EXCEPT ![mine[t]] = NoThread]
    /\ UNCHANGED <<init, generated, block, seen>>

(* self._generated += n, after the lock was released: a read and a write.  *)
CountRead(t) ==
    /\ Goto(t, "count", "store")
    /\ seen' = [seen EXCEPT ![t] = generated[mine[t]]]
    /\ UNCHANGED <<init, drbg, lock, generated, block, served>>

CountWrite(t) ==
    /\ Goto(t, "store", "idle")
    /\ generated' = [generated EXCEPT ![mine[t]] = seen[t] + want[t]]
    /\ UNCHANGED <<init, drbg, lock, block, seen, served>>

-----------------------------------------------------------------------------
GetRng(t) ==
    \/ CheckFound(t) \/ CheckNone(t) \/ InitLock(t) \/ RecheckFound(t)
    \/ RecheckNone(t) \/ InitFails(t) \/ Construct(t)

Generate(t) ==
    \/ Acquire(t) \/ TooMany(t) \/ AddInput(t) \/ IntervalOver(t)
    \/ IntervalLeft(t) \/ NextV(t) \/ Extend(t) \/ Finish(t)
    \/ CountRead(t) \/ CountWrite(t)

(* Every thread has made its calls: the model, not the code, stops there.  *)
Done ==
    /\ \A t \in Threads : pc[t] = "idle" /\ calls[t] = MaxCalls
    /\ UNCHANGED vars

Next ==
    \/ \E t \in Threads : \/ \E n \in Requests : Call(t, n)
                          \/ GetRng(t)
                          \/ Generate(t)
    \/ Done

Spec == Init /\ [][Next]_vars

(* A thread inside a call is scheduled, and gets a lock that nobody else   *)
(* goes on to take; a thread need not make calls.  threading.Lock promises *)
(* no more, and with finitely many calls no more is needed.                *)
FairSpec ==
    Spec /\ \A t \in Threads : WF_vars(GetRng(t)) /\ WF_vars(Generate(t))

-----------------------------------------------------------------------------
Locations == {"idle", "check", "init", "recheck", "construct", "acquire",
              "begin", "interval", "loop", "extend", "count", "store"}

State  == [key : Nat, v : Nat, counter : Nat]
Block  == Nat \X Nat \X Nat
Result == [by : Threads, blocks : Seq(Block)]

TypeOK ==
    /\ rng \in Instances \cup {0}
    /\ rngLock \in Threads \cup {NoThread}
    /\ built \in 0 .. MaxInstances /\ failures \in Nat
    /\ drbg \in [Instances -> State]
    /\ lock \in [Instances -> Threads \cup {NoThread}]
    /\ generated \in [Instances -> Nat]
    /\ pc \in [Threads -> Locations]
    /\ want \in [Threads -> Nat]
    /\ mine \in [Threads -> Instances \cup {0}]
    /\ block \in [Threads -> Seq(Block)]
    /\ seen \in [Threads -> Nat]
    /\ calls \in [Threads -> Nat]
    /\ served \in Seq(Result)

Initializing == {"recheck", "construct"}
Generating   == {"begin", "interval", "loop", "extend"}

(* A lock is held exactly while a thread is in the section it guards: no   *)
(* exception on the way, of the self test, of the constructor or of the    *)
(* generator, leaves one behind, and no two threads are in a section.      *)
LocksBalanced ==
    /\ \A t \in Threads : pc[t] \in Initializing <=> rngLock = t
    /\ \A i \in Instances, t \in Threads :
           pc[t] \in Generating /\ mine[t] = i <=> lock[i] = t

(* No block of output is ever handed out twice, in one result or in two    *)
(* (urandom, random_bytes).                                                *)
FreshBlocks ==
    \A p, q \in 1 .. Len(served) :
        \A a \in 1 .. Len(served[p].blocks), b \in 1 .. Len(served[q].blocks) :
            served[p].blocks[a] = served[q].blocks[b] => p = q /\ a = b

(* However many threads make the first call together, and however often    *)
(* the initialisation fails, one generator is made, and all results come   *)
(* from it (_get_rng).                                                     *)
OneGenerator ==
    /\ built <= 1
    /\ rng = built
    /\ \A t \in Threads : mine[t] \in {0, rng}

(* The generator serves at most _RESEED_INTERVAL requests, counts each one *)
(* that it serves, and no other (random_bytes).                            *)
IntervalRespected ==
    \A i \in Instances :
        /\ drbg[i].counter - 1 <= Interval
        /\ drbg[i].counter - 1 =
               (IF rng = i THEN Len(served) ELSE 0)

(* A request is refused for the interval exactly when _RESEED_INTERVAL     *)
(* results were handed out, to whichever threads, and is let through       *)
(* exactly when there were fewer: neither requests that are too long nor   *)
(* those refused before count (random_bytes, under the lock of urandom).   *)
RefusedAt(t) == (pc[t] = "interval" /\ pc'[t] = "idle") => Len(served) = Interval
ServedAt(t)  == (pc[t] = "interval" /\ pc'[t] = "loop") => Len(served) < Interval

IntervalExact == [][\A t \in Threads : RefusedAt(t) /\ ServedAt(t)]_vars

(* Every call comes to an end, returning or raising.                       *)
EveryCallEnds == \A t \in Threads : pc[t] # "idle" ~> pc[t] = "idle"

(* Callers see a generator that serves one request at a time: a result is  *)
(* made of consecutive values under one key.                               *)
Serial == INSTANCE SerialRng WITH results <- [p \in 1 .. Len(served) |-> served[p].blocks]

ImplementsSerialRng == Serial!Spec
=============================================================================

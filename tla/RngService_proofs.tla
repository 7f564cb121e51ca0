-------------------------- MODULE RngService_proofs --------------------------
(***************************************************************************)
(* Proofs about RngService, for any number of threads, of calls and of     *)
(* failures.  The argument is the one of the code: the two locks exclude,  *)
(* so that between taking a lock and releasing it a thread sees a state    *)
(* that only it changes.                                                   *)
(***************************************************************************)
EXTENDS RngService, TLAPS

(* Where a thread has been given an instance by _get_rng().                *)
Serving == {"acquire", "begin", "interval", "loop", "extend", "count", "store"}

(* LocksBalanced and OneGenerator are inductive together with two facts:   *)
(* a thread that is past _get_rng() has an instance, and the one that is   *)
(* constructing has seen _rng to be None under the lock it still holds.    *)
Attached ==
    \A t \in Threads : /\ pc[t] \in Serving => mine[t] \in Instances
                       /\ pc[t] = "construct" => rng = 0

LockInv == TypeOK /\ Attached /\ LocksBalanced /\ OneGenerator

-----------------------------------------------------------------------------
LEMMA LockInit == Init => LockInv
BY RngAssumption
   DEF Init, LockInv, TypeOK, Locations, State, Attached, Serving, LocksBalanced,
       Initializing, Generating, OneGenerator, Block, Instances

(* What the generator does with its state keeps it a state.                *)
LEMMA StateClosed ==
  ASSUME NEW s \in State
  PROVE  /\ Updated(s, s.counter) \in State
         /\ Updated(s, s.counter + 1) \in State
         /\ Hashed(s, s.v + 1) \in State
BY DEF State, Updated, Hashed

LEMMA TypeStep == TypeOK /\ Attached /\ [Next]_vars => TypeOK'
<1> SUFFICES ASSUME TypeOK, Attached, [Next]_vars PROVE TypeOK'
    OBVIOUS
<1> USE DEF Goto
<1>1. ASSUME NEW t \in Threads, NEW n \in Requests, Call(t, n) PROVE TypeOK'
  <2>1. n \in Nat
      BY RngAssumption
  <2>2. calls' \in [Threads -> Nat]
    <3>1. calls \in [Threads -> Nat] /\ calls' = [calls EXCEPT ![t] = @ + 1]
        BY <1>1 DEF TypeOK, Call
    <3> QED
        BY <3>1
  <2> QED
      BY <1>1, <2>1, <2>2 DEF Call, TypeOK, Locations
<1>2. ASSUME NEW t \in Threads, GetRng(t) PROVE TypeOK'
  <2> USE DEF shared
  <2>1. CASE CheckFound(t)
      BY <2>1 DEF CheckFound, TypeOK, Locations
  <2>2. CASE CheckNone(t)
      BY <2>2 DEF CheckNone, TypeOK, Locations
  <2>3. CASE InitLock(t)
      BY <2>3 DEF InitLock, TypeOK, Locations
  <2>4. CASE RecheckFound(t)
      BY <2>4 DEF RecheckFound, TypeOK, Locations
  <2>5. CASE RecheckNone(t)
      BY <2>5 DEF RecheckNone, TypeOK, Locations
  <2>6. CASE InitFails(t)
      BY <2>6 DEF InitFails, TypeOK, Locations
  <2>7. CASE Construct(t)
    <3>1. built' \in Instances /\ built' \in 0 .. MaxInstances
        BY <2>7, RngAssumption DEF Construct, TypeOK, Instances
    <3> QED
        BY <2>7, <3>1 DEF Construct, TypeOK, Locations
  <2> QED
      BY <1>2, <2>1, <2>2, <2>3, <2>4, <2>5, <2>6, <2>7 DEF GetRng
<1>3. ASSUME NEW t \in Threads, Generate(t) PROVE TypeOK'
  <2> USE DEF init
  <2>1. CASE Acquire(t)
      BY <2>1 DEF Acquire, TypeOK, Locations
  <2>2. CASE TooMany(t)
      BY <2>2 DEF TooMany, TypeOK, Locations
  <2>3. CASE AddInput(t)
    <3>1. drbg' \in [Instances -> State]
        BY <2>3, StateClosed DEF AddInput, TypeOK
    <3> QED
        BY <2>3, <3>1 DEF AddInput, TypeOK, Locations
  <2>4. CASE IntervalOver(t)
      BY <2>4 DEF IntervalOver, TypeOK, Locations
  <2>5. CASE IntervalLeft(t)
      BY <2>5 DEF IntervalLeft, TypeOK, Locations
  <2>6. CASE NextV(t)
    <3>1. drbg' \in [Instances -> State]
        BY <2>6, StateClosed DEF NextV, TypeOK
    <3> QED
        BY <2>6, <3>1 DEF NextV, TypeOK, Locations
  <2>7. CASE Extend(t)
    <3>1. mine[t] \in Instances
        BY <2>7 DEF Extend, Attached, Serving
    <3>2. <<mine[t], drbg[mine[t]].key, drbg[mine[t]].v>> \in Block
        BY <3>1 DEF TypeOK, State, Block, Instances
    <3>3. block' \in [Threads -> Seq(Block)]
        BY <2>7, <3>2 DEF Extend, TypeOK
    <3> QED
        BY <2>7, <3>3 DEF Extend, TypeOK, Locations
  <2>8. CASE Finish(t)
    <3>1. [by |-> t, blocks |-> block[t]] \in Result
        BY DEF TypeOK, Result
    <3>2. drbg' \in [Instances -> State]
        BY <2>8, StateClosed DEF Finish, TypeOK
    <3> QED
        BY <2>8, <3>1, <3>2 DEF Finish, TypeOK, Locations
  <2>9. CASE CountRead(t) \/ CountWrite(t)
    <3>1. mine[t] \in Instances
        BY <2>9 DEF CountRead, CountWrite, Attached, Serving
    <3>2. seen' \in [Threads -> Nat]
        BY <2>9, <3>1 DEF CountRead, CountWrite, TypeOK
    <3>3. generated' \in [Instances -> Nat]
      <4>1. seen[t] + want[t] \in Nat
          BY DEF TypeOK
      <4> QED
          BY <2>9, <3>1, <4>1 DEF CountRead, CountWrite, TypeOK
    <3> QED
        BY <2>9, <3>2, <3>3 DEF CountRead, CountWrite, TypeOK, Locations
  <2> QED
      BY <1>3, <2>1, <2>2, <2>3, <2>4, <2>5, <2>6, <2>7, <2>8, <2>9 DEF Generate
<1>4. CASE UNCHANGED vars
    BY <1>4 DEF vars, TypeOK
<1> QED
    BY <1>1, <1>2, <1>3, <1>4 DEF Next, Done

(* A step of _get_rng(): only the holder of _rng_lock constructs, and it   *)
(* gives the lock back on every way out.                                   *)
LEMMA GetRngStep ==
  ASSUME LockInv, NEW t \in Threads, GetRng(t)
  PROVE  Attached' /\ LocksBalanced' /\ OneGenerator'
<1>1. /\ rng \in Instances \cup {0} /\ rngLock \in Threads \cup {NoThread}
      /\ built \in 0 .. MaxInstances
      /\ pc \in [Threads -> Locations] /\ mine \in [Threads -> Instances \cup {0}]
      /\ lock \in [Instances -> Threads \cup {NoThread}]
      /\ NoThread \notin Threads /\ MaxInstances \in Nat
    BY RngAssumption DEF LockInv, TypeOK
<1> USE <1>1 DEF LockInv, Goto, Attached, Serving, LocksBalanced, Initializing,
        Generating, OneGenerator, shared
<1>2. CASE CheckFound(t)
    BY <1>2 DEF CheckFound
<1>3. CASE CheckNone(t)
  <2>1. UNCHANGED <<rng, built, mine, lock, rngLock>>
      BY <1>3 DEF CheckNone
  <2>2. Attached'
      BY <1>3, <2>1 DEF CheckNone
  <2>3. LocksBalanced'
      BY <1>3 DEF CheckNone
  <2>4. OneGenerator'
      BY <2>1
  <2> QED
      BY <2>2, <2>3, <2>4
<1>4. CASE InitLock(t)
    BY <1>4 DEF InitLock
<1>5. CASE RecheckFound(t)
    BY <1>5 DEF RecheckFound
<1>6. CASE RecheckNone(t)
  <2>1. UNCHANGED <<rng, built, mine, lock, rngLock>>
      BY <1>6 DEF RecheckNone
  <2>2. Attached'
      BY <1>6, <2>1 DEF RecheckNone
  <2>3. LocksBalanced'
      BY <1>6 DEF RecheckNone
  <2>4. OneGenerator'
      BY <2>1
  <2> QED
      BY <2>2, <2>3, <2>4
<1>7. CASE InitFails(t)
    BY <1>7 DEF InitFails
<1>8. CASE Construct(t)
    BY <1>8 DEF Construct, Instances
<1> QED
    BY <1>2, <1>3, <1>4, <1>5, <1>6, <1>7, <1>8 DEF GetRng

(* A step of urandom(): from Acquire to a return or an exception the       *)
(* thread holds the lock of its instance.                                  *)
LEMMA GenerateStep ==
  ASSUME LockInv, NEW t \in Threads, Generate(t)
  PROVE  Attached' /\ LocksBalanced' /\ OneGenerator'
<1>1. /\ pc \in [Threads -> Locations] /\ mine \in [Threads -> Instances \cup {0}]
      /\ lock \in [Instances -> Threads \cup {NoThread}]
      /\ NoThread \notin Threads
    BY RngAssumption DEF LockInv, TypeOK
<1> USE <1>1 DEF LockInv, Goto, Attached, Serving, LocksBalanced, Initializing,
        Generating, OneGenerator, init
<1>2. CASE Acquire(t)
    BY <1>2 DEF Acquire
<1>3. CASE TooMany(t)
    BY <1>3 DEF TooMany
<1>4. CASE AddInput(t)
    BY <1>4 DEF AddInput
<1>5. CASE IntervalOver(t)
    BY <1>5 DEF IntervalOver
<1>6. CASE IntervalLeft(t)
    BY <1>6 DEF IntervalLeft
<1>7. CASE NextV(t)
    BY <1>7 DEF NextV
<1>8. CASE Extend(t)
    BY <1>8 DEF Extend
<1>9. CASE Finish(t)
    BY <1>9 DEF Finish
<1>10. CASE CountRead(t) \/ CountWrite(t)
    BY <1>10 DEF CountRead, CountWrite
<1> QED
    BY <1>2, <1>3, <1>4, <1>5, <1>6, <1>7, <1>8, <1>9, <1>10 DEF Generate

LEMMA LockStep == LockInv /\ [Next]_vars => LockInv'
<1> SUFFICES ASSUME LockInv, [Next]_vars PROVE LockInv'
    OBVIOUS
<1>1. TypeOK'
    BY TypeStep DEF LockInv
<1>2. ASSUME NEW t \in Threads, NEW n \in Requests, Call(t, n)
      PROVE  Attached' /\ LocksBalanced' /\ OneGenerator'
  <2>1. pc \in [Threads -> Locations]
      BY DEF LockInv, TypeOK
  <2> QED
      BY <1>2, <2>1 DEF LockInv, Call, Goto, Attached, Serving, LocksBalanced,
         Initializing, Generating, OneGenerator
<1>3. CASE UNCHANGED vars
  <2>1. Attached' /\ OneGenerator'
      BY <1>3 DEF vars, LockInv, Attached, OneGenerator
  <2>2. LocksBalanced'
      BY <1>3 DEF vars, LockInv, LocksBalanced
  <2> QED
      BY <1>1, <2>1, <2>2 DEF LockInv
<1> QED
    BY <1>1, <1>2, <1>3, GetRngStep, GenerateStep DEF Next, Done, LockInv

(* Whatever the threads do, the state of the module is what _get_rng(),    *)
(* urandom() and random_bytes() keep it in.                                *)
LEMMA LocksHeld == Spec => []LockInv
BY LockInit, LockStep, PTL DEF Spec

(* Type correctness.                                                       *)
THEOREM TypeCorrect == Spec => []TypeOK
BY LocksHeld, PTL DEF LockInv

(* No exception of the self test, of the constructor or of the generator   *)
(* leaves a lock behind, for any number of threads.                        *)
THEOREM LocksAlwaysBalanced == Spec => []LocksBalanced
BY LocksHeld, PTL DEF LockInv

(* However many threads make the first call together, and however often    *)
(* the initialisation fails, _get_rng() makes one generator.               *)
THEOREM OnlyOneGenerator == Spec => []OneGenerator
BY LocksHeld, PTL DEF LockInv

-----------------------------------------------------------------------------
(* What random_bytes() has produced so far.  While a thread is in its loop *)
(* its blocks are the first values of _v under the key of the generator;   *)
(* outside of it, `out` is empty until the loop is reached.                *)
Unstarted == {"check", "init", "recheck", "construct", "acquire", "begin", "interval"}

Segment(t) ==
    /\ pc[t] \in Unstarted => block[t] = <<>>
    /\ pc[t] = "interval" => drbg[mine[t]].v = 0
    /\ pc[t] = "loop" => drbg[mine[t]].v = Len(block[t])
    /\ pc[t] = "extend" => drbg[mine[t]].v = Len(block[t]) + 1
    /\ pc[t] \in {"loop", "extend"} =>
           \A a \in 1 .. Len(block[t]) :
               block[t][a] = <<mine[t], drbg[mine[t]].key, a>>

(* A result is what Segment says of `out`, under a key that the generator  *)
(* has left behind (the _update() after the output) ...                    *)
FromOneKey(r) ==
    \E i \in Instances, k \in Nat :
        /\ k < drbg[i].key
        /\ \A a \in 1 .. Len(r) : r[a] = <<i, k, a>>

Results == \A p \in 1 .. Len(served) : FromOneKey(served[p].blocks)

(* ... and that no other result was made with.                             *)
Disjoint(r, s) ==
    \A a \in 1 .. Len(r), b \in 1 .. Len(s) :
        <<r[a][1], r[a][2]>> # <<s[b][1], s[b][2]>>

KeysApart ==
    \A p, q \in 1 .. Len(served) :
        p # q => Disjoint(served[p].blocks, served[q].blocks)

OutputInv == LockInv /\ (\A t \in Threads : Segment(t)) /\ Results /\ KeysApart

LEMMA OutputInit == Init => OutputInv
<1> SUFFICES ASSUME Init PROVE OutputInv
    OBVIOUS
<1>1. \A t \in Threads : Segment(t)
    BY DEF Init, Segment, Unstarted
<1>2. Results /\ KeysApart
    BY DEF Init, Results, KeysApart
<1> QED
    BY <1>1, <1>2, LockInit DEF OutputInv

(* There is one generator, so one thread at most is inside of it.          *)
LEMMA Alone ==
  ASSUME LockInv, NEW t \in Threads, NEW u \in Threads,
         pc[t] \in Generating, pc[u] \in Generating
  PROVE  t = u /\ mine[t] = rng /\ rng \in Instances
<1>1. mine[t] \in Instances /\ mine[u] \in Instances
    BY DEF LockInv, Attached, Serving, Generating
<1>2. mine[t] = rng /\ mine[u] = rng
    BY <1>1 DEF LockInv, OneGenerator, Instances
<1>3. lock[rng] = t /\ lock[rng] = u
    BY <1>1, <1>2 DEF LockInv, LocksBalanced
<1> QED
    BY <1>1, <1>2, <1>3

(* Steps that leave the output and the generator alone.                    *)
LEMMA QuietStep ==
  ASSUME OutputInv, [Next]_vars, LockInv', UNCHANGED <<drbg, served>>,
         \A t \in Threads : Segment(t)'
  PROVE  OutputInv'
BY DEF OutputInv, Results, KeysApart, FromOneKey, Instances

LEMMA QuietSegment ==
  ASSUME OutputInv, NEW t \in Threads,
         pc' = [pc EXCEPT ![t] = pc'[t]], UNCHANGED <<drbg, block>>,
         \A u \in Threads \ {t} : mine'[u] = mine[u],
         pc'[t] \in {"init", "recheck", "construct", "acquire", "begin"} => pc[t] \in Unstarted,
         pc'[t] \in {"idle", "init", "recheck", "construct", "acquire", "begin", "count", "store"}
  PROVE  \A u \in Threads : Segment(u)'
<1> SUFFICES ASSUME NEW u \in Threads PROVE Segment(u)'
    OBVIOUS
<1>1. Segment(u) /\ pc \in [Threads -> Locations]
    BY DEF OutputInv, LockInv, TypeOK
<1>2. CASE u = t
    BY <1>1, <1>2 DEF Segment, Unstarted
<1>3. CASE u # t
    BY <1>1, <1>3 DEF Segment
<1> QED
    BY <1>2, <1>3

(* A thread inside the generator changes no other thread's segment.        *)
LEMMA OtherSegments ==
  ASSUME OutputInv, NEW t \in Threads, pc[t] \in Generating,
         \A u \in Threads \ {t} : pc'[u] = pc[u] /\ block'[u] = block[u],
         Segment(t)'
  PROVE  \A u \in Threads : Segment(u)'
<1> SUFFICES ASSUME NEW u \in Threads, u # t PROVE Segment(u)'
    OBVIOUS
<1>1. pc[u] \notin Generating
    BY Alone DEF OutputInv
<1>2. Segment(u)
    BY DEF OutputInv
<1> QED
    BY <1>1, <1>2 DEF Segment, Generating

(* Results stay results as long as the keys only grow.                     *)
LEMMA ResultsStay ==
  ASSUME OutputInv, LockInv', UNCHANGED served,
         \A i \in Instances : drbg'[i].key >= drbg[i].key
  PROVE  Results' /\ KeysApart'
<1>1. KeysApart'
    BY DEF OutputInv, KeysApart
<1>2. ASSUME NEW p \in 1 .. Len(served) PROVE FromOneKey(served[p].blocks)'
  <2>1. PICK i \in Instances, k \in Nat :
            /\ k < drbg[i].key
            /\ \A a \in 1 .. Len(served[p].blocks) : served[p].blocks[a] = <<i, k, a>>
      BY DEF OutputInv, Results, FromOneKey
  <2>2. drbg[i].key \in Nat /\ drbg'[i].key \in Nat
      BY DEF OutputInv, LockInv, TypeOK, State
  <2>3. k < drbg'[i].key
      BY <2>1, <2>2
  <2> QED
      BY <2>1, <2>3 DEF FromOneKey, Instances
<1> QED
    BY <1>1, <1>2 DEF Results

(* Finish(): the blocks become a result, and the key is left behind.       *)
LEMMA FinishStep ==
  ASSUME OutputInv, LockInv', NEW t \in Threads, Finish(t)
  PROVE  Results' /\ KeysApart'
<1> DEFINE i == mine[t]  k == drbg[i].key  r == block[t]
           new == [by |-> t, blocks |-> r]
<1>1. /\ i \in Instances /\ pc[t] = "loop"
      /\ \A a \in 1 .. Len(r) : r[a] = <<i, k, a>>
    BY DEF OutputInv, LockInv, Attached, Serving, Finish, Goto, Segment
<1>2. /\ drbg \in [Instances -> State] /\ drbg' \in [Instances -> State]
      /\ served \in Seq(Result) /\ new \in Result /\ r \in Seq(Block)
    BY DEF OutputInv, LockInv, TypeOK, Result
<1>3. /\ drbg'[i].key = k + 1 /\ k \in Nat
      /\ \A j \in Instances \ {i} : drbg'[j] = drbg[j]
    BY <1>1, <1>2 DEF Finish, Updated, State
<1>4. /\ Len(served') = Len(served) + 1
      /\ \A p \in 1 .. Len(served) : served'[p] = served[p]
      /\ served'[Len(served) + 1].blocks = r
    BY <1>2 DEF Finish
<1>5. ASSUME NEW p \in 1 .. Len(served)
      PROVE  FromOneKey(served[p].blocks)' /\ Disjoint(served[p].blocks, r)
                                          /\ Disjoint(r, served[p].blocks)
  <2>1. PICK j \in Instances, l \in Nat :
            /\ l < drbg[j].key
            /\ \A a \in 1 .. Len(served[p].blocks) : served[p].blocks[a] = <<j, l, a>>
      BY DEF OutputInv, Results, FromOneKey
  <2>2. l < drbg'[j].key
    <3>1. drbg[j].key \in Nat
        BY <1>2 DEF State
    <3> QED
        BY <1>3, <2>1, <3>1
  <2>3. \A a \in 1 .. Len(served'[p].blocks) : served'[p].blocks[a] = <<j, l, a>>
      BY <1>4, <2>1
  <2>4. <<j, l>> # <<i, k>>
      BY <2>1, <1>3
  <2>5. Disjoint(served[p].blocks, r) /\ Disjoint(r, served[p].blocks)
    <3>1. \A a \in 1 .. Len(r) : r[a][1] = i /\ r[a][2] = k
        BY <1>1
    <3>2. \A a \in 1 .. Len(served[p].blocks) :
              served[p].blocks[a][1] = j /\ served[p].blocks[a][2] = l
        BY <2>1
    <3> HIDE DEF i, k, r
    <3> QED
        BY <2>4, <3>1, <3>2 DEF Disjoint
  <2> QED
      BY <2>2, <2>3, <2>5 DEF FromOneKey, Instances
<1>6. \E j \in Instances, l \in Nat :
          /\ l < drbg'[j].key
          /\ \A a \in 1 .. Len(r) : r[a] = <<j, l, a>>
  <2>1. k < drbg'[i].key
      BY <1>3
  <2> HIDE DEF i, k, r
  <2> QED
      BY <1>1, <1>3, <2>1
<1>7. ASSUME NEW p \in 1 .. Len(served') PROVE FromOneKey(served[p].blocks)'
  <2>1. CASE p \in 1 .. Len(served)
      BY <1>5, <2>1
  <2>2. CASE p = Len(served) + 1
    <3> HIDE DEF i, k, r
    <3> QED
        BY <1>4, <1>6, <2>2 DEF FromOneKey, Instances
  <2> QED
      BY <1>2, <1>4, <2>1, <2>2
<1>8. ASSUME NEW p \in 1 .. Len(served'), NEW q \in 1 .. Len(served'), p # q
      PROVE  Disjoint(served'[p].blocks, served'[q].blocks)
  <2> HIDE DEF i, k, r
  <2>1. Len(served) \in Nat
      BY <1>2
  <2>2. CASE p \in 1 .. Len(served) /\ q \in 1 .. Len(served)
      BY <1>4, <1>8, <2>2 DEF OutputInv, KeysApart
  <2>3. CASE p = Len(served) + 1 /\ q \in 1 .. Len(served)
      BY <1>4, <1>5, <2>3
  <2>4. CASE p \in 1 .. Len(served) /\ q = Len(served) + 1
      BY <1>4, <1>5, <2>4
  <2> QED
      BY <1>4, <1>8, <2>1, <2>2, <2>3, <2>4
<1>9. KeysApart'
    BY <1>8 DEF KeysApart, Disjoint
<1> QED
    BY <1>7, <1>9 DEF Results

LEMMA OutputStep == OutputInv /\ [Next]_vars => OutputInv'
<1> SUFFICES ASSUME OutputInv, [Next]_vars PROVE OutputInv'
    OBVIOUS
<1>1. LockInv'
    BY LockStep DEF OutputInv
<1>2. /\ pc \in [Threads -> Locations] /\ drbg \in [Instances -> State]
      /\ block \in [Threads -> Seq(Block)] /\ mine \in [Threads -> Instances \cup {0}]
      /\ served \in Seq(Result)
    BY DEF OutputInv, LockInv, TypeOK
<1>3. ASSUME NEW t \in Threads, NEW n \in Requests, Call(t, n) PROVE OutputInv'
  <2>1. \A u \in Threads : Segment(u)'
    <3> SUFFICES ASSUME NEW u \in Threads PROVE Segment(u)'
        OBVIOUS
    <3>1. CASE u = t
        BY <1>2, <1>3, <3>1 DEF Call, Goto, Segment
    <3>2. CASE u # t
        BY <1>2, <1>3, <3>2 DEF Call, Goto, Segment, OutputInv
    <3> QED
        BY <3>1, <3>2
  <2> QED
      BY <1>1, <1>3, <2>1, QuietStep DEF Call
<1>4. ASSUME NEW t \in Threads, GetRng(t) PROVE OutputInv'
  <2>1. /\ pc' = [pc EXCEPT ![t] = pc'[t]] /\ UNCHANGED <<drbg, block, served>>
        /\ \A u \in Threads \ {t} : mine'[u] = mine[u]
        /\ pc[t] \in Unstarted
        /\ pc'[t] \in {"idle", "init", "recheck", "construct", "acquire"}
      BY <1>2, <1>4 DEF GetRng, CheckFound, CheckNone, InitLock, RecheckFound,
         RecheckNone, InitFails, Construct, shared, Goto, Unstarted
  <2> QED
      BY <1>1, <2>1, QuietStep, QuietSegment
<1>5. ASSUME NEW t \in Threads,
             Acquire(t) \/ TooMany(t) \/ IntervalOver(t) \/ CountRead(t) \/ CountWrite(t)
      PROVE  OutputInv'
  <2>1. /\ pc' = [pc EXCEPT ![t] = pc'[t]] /\ UNCHANGED <<drbg, block, served, mine>>
        /\ pc'[t] = "begin" => pc[t] \in Unstarted
        /\ pc'[t] \in {"idle", "begin", "store"}
      BY <1>2, <1>5 DEF Acquire, TooMany, IntervalOver, CountRead, CountWrite,
         init, Goto, Unstarted
  <2> QED
      BY <1>1, <2>1, QuietStep, QuietSegment
<1>6. ASSUME NEW t \in Threads, AddInput(t) \/ IntervalLeft(t) \/ NextV(t) \/ Extend(t)
      PROVE  OutputInv'
  <2>1. /\ pc[t] \in Generating /\ mine[t] \in Instances /\ mine' = mine
        /\ Segment(t)
        /\ \A u \in Threads \ {t} : pc'[u] = pc[u] /\ block'[u] = block[u]
        /\ UNCHANGED served
      BY <1>2, <1>6 DEF AddInput, IntervalLeft, NextV, Extend, init, Goto,
         Generating, OutputInv, LockInv, Attached, Serving
  <2>2. Segment(t)' /\ \A i \in Instances : drbg'[i].key >= drbg[i].key
    <3>1. \A i \in Instances : drbg[i].key \in Nat /\ drbg[i].v \in Nat
        BY <1>2 DEF State
    <3>2. CASE AddInput(t)
        BY <1>2, <2>1, <3>1, <3>2 DEF AddInput, Updated, init, Goto, Segment, Unstarted
    <3>3. CASE IntervalLeft(t)
        BY <1>2, <2>1, <3>1, <3>3 DEF IntervalLeft, init, Goto, Segment, Unstarted
    <3>4. CASE NextV(t)
        BY <1>2, <2>1, <3>1, <3>4 DEF NextV, Hashed, init, Goto, Segment, Unstarted
    <3>5. CASE Extend(t)
        BY <1>2, <2>1, <3>1, <3>5 DEF Extend, init, Goto, Segment, Unstarted
    <3> QED
        BY <1>6, <3>2, <3>3, <3>4, <3>5
  <2> QED
      BY <1>1, <2>1, <2>2, OtherSegments, ResultsStay DEF OutputInv
<1>7. ASSUME NEW t \in Threads, Finish(t) PROVE OutputInv'
  <2>1. /\ pc[t] \in Generating /\ Segment(t)'
        /\ \A u \in Threads \ {t} : pc'[u] = pc[u] /\ block'[u] = block[u]
      BY <1>2, <1>7 DEF Finish, init, Goto, Generating, Segment, Unstarted
  <2> QED
      BY <1>1, <1>7, <2>1, OtherSegments, FinishStep DEF OutputInv
<1>8. CASE UNCHANGED vars
  <2>1. \A u \in Threads : Segment(u)'
      BY <1>8 DEF vars, OutputInv, Segment
  <2> QED
      BY <1>1, <1>8, <2>1, QuietStep DEF vars
<1> QED
    BY <1>3, <1>4, <1>5, <1>6, <1>7, <1>8 DEF Next, Done, Generate

LEMMA OutputKept == Spec => []OutputInv
BY OutputInit, OutputStep, PTL DEF Spec

LEMMA OutputFresh == OutputInv => FreshBlocks
<1> SUFFICES ASSUME OutputInv,
                    NEW p \in 1 .. Len(served), NEW q \in 1 .. Len(served),
                    NEW a \in 1 .. Len(served[p].blocks), NEW b \in 1 .. Len(served[q].blocks),
                    served[p].blocks[a] = served[q].blocks[b]
             PROVE  p = q /\ a = b
    BY DEF FreshBlocks
<1>1. p = q
    BY DEF OutputInv, KeysApart, Disjoint
<1>2. PICK i \in Instances, k \in Nat :
          \A c \in 1 .. Len(served[p].blocks) : served[p].blocks[c] = <<i, k, c>>
    BY DEF OutputInv, Results, FromOneKey
<1> QED
    BY <1>1, <1>2

(* No block of output is handed out twice, however many threads ask, and   *)
(* however often a request is refused between two others.                  *)
THEOREM BlocksAlwaysFresh == Spec => []FreshBlocks
BY OutputKept, OutputFresh, PTL

-----------------------------------------------------------------------------
(* The reseed counter against the results: a request that is inside the    *)
(* loop has been let through, so one more is within the interval.          *)
Counted ==
    /\ \A i \in Instances :
           drbg[i].counter = (IF rng = i THEN Len(served) ELSE 0) + 1
    /\ \A i \in Instances : drbg[i].counter <= Interval + 1
    /\ \A t \in Threads :
           pc[t] \in {"loop", "extend"} => drbg[mine[t]].counter <= Interval
    /\ rng = 0 => Len(served) = 0

CountInv == LockInv /\ Counted

LEMMA CountInit == Init => CountInv
<1> SUFFICES ASSUME Init PROVE Counted
    BY LockInit DEF CountInv
<1> QED
    BY RngAssumption DEF Init, Counted, Instances

LEMMA CountStep == CountInv /\ [Next]_vars => CountInv'
<1> SUFFICES ASSUME CountInv, [Next]_vars PROVE Counted'
    BY LockStep DEF CountInv
<1>1. /\ pc \in [Threads -> Locations] /\ drbg \in [Instances -> State]
      /\ mine \in [Threads -> Instances \cup {0}]
      /\ served \in Seq(Result) /\ Interval \in Nat
    BY RngAssumption DEF CountInv, LockInv, TypeOK
<1>2. ASSUME UNCHANGED <<rng, served, drbg, mine>>,
             \A t \in Threads : pc'[t] \in {"loop", "extend"} => pc[t] \in {"loop", "extend"}
      PROVE  Counted'
    BY <1>2 DEF CountInv, Counted
<1>3. ASSUME NEW t \in Threads, NEW n \in Requests, Call(t, n) PROVE Counted'
    BY <1>1, <1>2, <1>3 DEF Call, Goto
<1>4. ASSUME NEW t \in Threads, GetRng(t) PROVE Counted'
  <2>1. /\ UNCHANGED <<drbg, served>>
        /\ rng' # rng => rng = 0
        /\ \A u \in Threads : pc'[u] \in {"loop", "extend"} =>
               pc[u] \in {"loop", "extend"} /\ mine'[u] = mine[u]
      BY <1>1, <1>4 DEF GetRng, CheckFound, CheckNone, InitLock, RecheckFound,
         RecheckNone, InitFails, Construct, shared, Goto, CountInv, LockInv, Attached
  <2>2. rng' = 0 => rng = 0
      BY <1>4, RngAssumption DEF GetRng, CheckFound, CheckNone, InitLock, RecheckFound,
         RecheckNone, InitFails, Construct, shared, CountInv, LockInv, TypeOK
  <2> QED
      BY <1>1, <2>1, <2>2 DEF CountInv, Counted, Instances
<1>5. ASSUME NEW t \in Threads,
             Acquire(t) \/ TooMany(t) \/ IntervalOver(t) \/ Extend(t)
             \/ CountRead(t) \/ CountWrite(t)
      PROVE  Counted'
    BY <1>1, <1>2, <1>5 DEF Acquire, TooMany, IntervalOver, Extend, CountRead,
       CountWrite, init, Goto
<1>6. ASSUME NEW t \in Threads, AddInput(t) \/ NextV(t) PROVE Counted'
  <2>1. \A i \in Instances : drbg'[i].counter = drbg[i].counter
      BY <1>1, <1>6 DEF AddInput, NextV, Updated, Hashed
  <2>2. /\ UNCHANGED <<rng, served, mine>>
        /\ \A u \in Threads : pc'[u] \in {"loop", "extend"} =>
               pc[u] \in {"loop", "extend"} /\ mine[u] \in Instances
      BY <1>1, <1>6 DEF AddInput, NextV, init, Goto, CountInv, LockInv, Attached, Serving
  <2> QED
      BY <2>1, <2>2 DEF CountInv, Counted
<1>7. ASSUME NEW t \in Threads, IntervalLeft(t) PROVE Counted'
    BY <1>1, <1>7 DEF IntervalLeft, init, Goto, CountInv, Counted
<1>8. ASSUME NEW t \in Threads, Finish(t) PROVE Counted'
  <2>1. pc[t] = "loop" /\ mine[t] = rng /\ rng \in Instances
      BY <1>8, Alone DEF Finish, Goto, Generating, CountInv
  <2>2. /\ drbg'[rng].counter = drbg[rng].counter + 1
        /\ \A i \in Instances \ {rng} : drbg'[i] = drbg[i]
      BY <1>1, <1>8, <2>1 DEF Finish, Updated
  <2>3. Len(served') = Len(served) + 1 /\ UNCHANGED <<rng, mine>>
      BY <1>1, <1>8 DEF Finish, init
  <2>4. \A u \in Threads : pc'[u] \notin {"loop", "extend"}
    <3>1. \A u \in Threads \ {t} : pc[u] \notin Generating
        BY <1>8, Alone DEF Finish, Goto, Generating, CountInv
    <3> QED
        BY <1>1, <1>8, <3>1 DEF Finish, Goto, Generating
  <2>5. drbg[rng].counter <= Interval /\ drbg[rng].counter \in Nat
      BY <1>1, <2>1 DEF CountInv, Counted, State
  <2> QED
      BY <1>1, <2>1, <2>2, <2>3, <2>4, <2>5 DEF CountInv, Counted, Instances
<1>9. CASE UNCHANGED vars
    BY <1>2, <1>9 DEF vars
<1> QED
    BY <1>3, <1>4, <1>5, <1>6, <1>7, <1>8, <1>9 DEF Next, Done, Generate

(* The generator counts every request that it serves and no other, and     *)
(* serves _RESEED_INTERVAL of them at most (random_bytes).                 *)
THEOREM IntervalAlwaysRespected == Spec => []IntervalRespected
<1>1. CountInv => IntervalRespected
  <2>1. CountInv => served \in Seq(Result) /\ Interval \in Nat
      BY RngAssumption DEF CountInv, LockInv, TypeOK
  <2> QED
      BY <2>1 DEF CountInv, Counted, IntervalRespected
<1> QED
    BY <1>1, CountInit, CountStep, PTL DEF Spec

(* A thread that looks at the counter has the one generator for itself.    *)
LEMMA ExactStep ==
  ASSUME CountInv, [Next]_vars, NEW t \in Threads
  PROVE  RefusedAt(t) /\ ServedAt(t)
<1>1. /\ pc \in [Threads -> Locations] /\ drbg \in [Instances -> State]
      /\ served \in Seq(Result) /\ Interval \in Nat
    BY RngAssumption DEF CountInv, LockInv, TypeOK
<1>2. CASE pc[t] = "interval"
  <2>1. mine[t] = rng /\ rng \in Instances
      BY <1>2, Alone DEF Generating, CountInv
  <2>2. drbg[mine[t]].counter = Len(served) + 1 /\ Len(served) + 1 <= Interval + 1
      BY <2>1 DEF CountInv, Counted
  <2>3. Len(served) \in Nat
      BY <1>1
  <2>4. ASSUME NEW u \in Threads, GetRng(u) \/ \E n \in Requests : Call(u, n)
        PROVE  pc'[t] \notin {"idle", "loop"}
      BY <1>1, <1>2, <2>4 DEF Call, GetRng, CheckFound, CheckNone, InitLock, RecheckFound,
         RecheckNone, InitFails, Construct, Goto
  <2>5. ASSUME NEW u \in Threads, Generate(u), u # t
        PROVE  pc'[t] \notin {"idle", "loop"}
      BY <1>1, <1>2, <2>5 DEF Generate, Acquire, TooMany, AddInput, IntervalOver,
         IntervalLeft, NextV, Extend, Finish, CountRead, CountWrite, Goto
  <2>6. CASE Generate(t)
    <3>1. IntervalOver(t) \/ IntervalLeft(t)
        BY <1>2, <2>6 DEF Generate, Acquire, TooMany, AddInput, NextV, Extend, Finish,
           CountRead, CountWrite, Goto
    <3>2. CASE IntervalOver(t)
      <4>1. drbg[mine[t]].counter > Interval /\ pc'[t] = "idle"
          BY <1>1, <3>2 DEF IntervalOver, Goto
      <4> QED
          BY <1>1, <2>2, <2>3, <4>1 DEF RefusedAt, ServedAt
    <3>3. CASE IntervalLeft(t)
      <4>1. drbg[mine[t]].counter <= Interval /\ pc'[t] = "loop"
          BY <1>1, <3>3 DEF IntervalLeft, Goto
      <4> QED
          BY <1>1, <2>2, <2>3, <4>1 DEF RefusedAt, ServedAt
    <3> QED
        BY <3>1, <3>2, <3>3
  <2>7. CASE UNCHANGED vars
      BY <1>2, <2>7 DEF vars, RefusedAt, ServedAt
  <2> QED
      BY <2>4, <2>5, <2>6, <2>7 DEF Next, Done, RefusedAt, ServedAt, vars
<1> QED
    BY <1>2 DEF RefusedAt, ServedAt

(* For any number of threads and any interval, random_bytes() refuses a    *)
(* request for the interval exactly when that many results exist.          *)
THEOREM IntervalAlwaysExact == Spec => IntervalExact
<1>1. CountInv /\ [Next]_vars => [\A t \in Threads : RefusedAt(t) /\ ServedAt(t)]_vars
    BY ExactStep
<1> QED
    BY <1>1, CountInit, CountStep, PTL DEF Spec, IntervalExact

-----------------------------------------------------------------------------
LEMMA SerialInit == Init => Serial!Init
BY DEF Init, Serial!Init

(* What SerialRng sees: the blocks of the results.                         *)
results == [p \in 1 .. Len(served) |-> served[p].blocks]

(* Every step but Finish() leaves the results alone.                       *)
LEMMA OnlyFinish ==
  ASSUME [Next]_vars, \A t \in Threads : ~Finish(t)
  PROVE  UNCHANGED served
<1>1. ASSUME NEW t \in Threads, NEW n \in Requests, Call(t, n) PROVE UNCHANGED served
    BY <1>1 DEF Call
<1>2. ASSUME NEW t \in Threads, GetRng(t) PROVE UNCHANGED served
    BY <1>2 DEF GetRng, CheckFound, CheckNone, InitLock, RecheckFound,
       RecheckNone, InitFails, Construct, shared
<1>3. ASSUME NEW t \in Threads, Generate(t) PROVE UNCHANGED served
    BY <1>3 DEF Generate, Acquire, TooMany, AddInput, IntervalOver, IntervalLeft,
       NextV, Extend, CountRead, CountWrite
<1>4. CASE UNCHANGED vars
    BY <1>4 DEF vars
<1> QED
    BY <1>1, <1>2, <1>3, <1>4 DEF Next, Done

(* The one step that a caller can tell from a stutter is the end of the    *)
(* loop: all of its blocks become one result, under a key of its own.      *)
LEMMA SerialStep ==
  ASSUME OutputInv, OutputInv', [Next]_vars
  PROVE  Serial!Next \/ UNCHANGED results
<1>1. CASE UNCHANGED served
    BY <1>1 DEF results
<1>2. ASSUME NEW t \in Threads, Finish(t) PROVE Serial!Next
  <2> DEFINE n == Len(served) + 1  r == block[t]
  <2>1. /\ served \in Seq(Result) /\ served' \in Seq(Result)
        /\ [by |-> t, blocks |-> r] \in Result
      BY DEF OutputInv, LockInv, TypeOK, Result
  <2>2. /\ n \in Nat /\ Len(served') = n /\ n \in 1 .. Len(served')
        /\ \A p \in 1 .. Len(served) : served'[p] = served[p]
        /\ served'[n].blocks = r
      BY <1>2, <2>1 DEF Finish
  <2>3. Len(results) = Len(served) /\ Len(results') = n /\ results'[n] = r
      BY <2>1, <2>2 DEF results
  <2>4. results' = Append(results, r)
    <3>1. \A p \in 1 .. Len(served) : results'[p] = results[p]
        BY <2>1, <2>2 DEF results
    <3>2. r \in Seq(Block) /\ results \in Seq(Seq(Block)) /\ results' \in Seq(Seq(Block))
      <4>1. /\ r \in Seq(Block)
            /\ \A p \in 1 .. Len(served) : served[p].blocks \in Seq(Block)
            /\ \A p \in 1 .. Len(served') : served'[p].blocks \in Seq(Block)
        <5>1. \A x \in Result : x.blocks \in Seq(Block)
            BY DEF Result
        <5>2. r \in Seq(Block)
            BY DEF OutputInv, LockInv, TypeOK
        <5> QED
            BY <2>1, <5>1, <5>2
      <4>2. Len(served) \in Nat /\ Len(served') \in Nat
          BY <2>1
      <4> QED
          BY <4>1, <4>2 DEF results
    <3> HIDE DEF r, results
    <3> QED
        BY <2>2, <2>3, <3>1, <3>2
  <2>5. PICK i \in Instances, k \in Nat : \A a \in 1 .. Len(r) : r[a] = <<i, k, a>>
    <3>1. \A p \in 1 .. Len(served') : \E i \in Instances, k \in Nat :
              \A a \in 1 .. Len(served'[p].blocks) : served'[p].blocks[a] = <<i, k, a>>
        BY DEF OutputInv, Results, FromOneKey, Instances
    <3> HIDE DEF n, r
    <3> QED
        BY <2>2, <3>1
  <2>6. \A a \in 1 .. Len(r) : Serial!Origin(r[a]) = Serial!Origin(r[1]) /\ r[a][3] = a
      BY <2>5 DEF Serial!Origin
  <2>7. Serial!Fresh(r)
    <3>1. \A p \in 1 .. Len(served) : Disjoint(r, served[p].blocks)
        BY <2>2 DEF OutputInv, KeysApart
    <3> QED
        BY <2>1, <2>3, <3>1 DEF Serial!Fresh, Serial!Origin, Disjoint, results
  <2>8. Serial!Serve(r)
      BY <2>4, <2>6, <2>7 DEF Serial!Serve, results
  <2>9. Len(results') = Len(results) + 1 /\ results'[Len(results')] = r
      BY <2>3
  <2> QED
      BY <2>8, <2>9 DEF Serial!Next, Serial!Serve, results
<1> QED
    BY <1>1, <1>2, OnlyFinish

(* The generator with its locks is one that serves a request at a time.    *)
THEOREM RngIsSerial == Spec => ImplementsSerialRng
<1>1. Init => Serial!Init
    BY SerialInit
<1>2. OutputInv /\ OutputInv' /\ [Next]_vars => [Serial!Next]_results
    BY SerialStep
<1> QED
    BY <1>1, <1>2, OutputKept, PTL DEF Spec, ImplementsSerialRng, Serial!Spec, results
=============================================================================

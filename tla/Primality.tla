------------------------------ MODULE Primality ------------------------------
(***************************************************************************)
(* The Baillie-PSW test of asymmetric/rsa.py, _is_probable_prime(): trial  *)
(* division by the small primes, the Miller-Rabin test to base 2, and the  *)
(* strong Lucas test with Selfridge's choice of D.  Each iteration of a    *)
(* loop is a step, so that what a loop keeps can be stated.                *)
(*                                                                         *)
(* Numbers are small enough for the products to be exact: Python's have no *)
(* width.  The tests for n < 2, n = 2 and even n that the two tests begin  *)
(* with are never met after the trial division.                            *)
(***************************************************************************)
EXTENDS Integers, Sequences

CONSTANTS
    LastSmall,      \* the last of _SMALL_PRIMES (7919)
    NotListed,      \* the primes before it that the list leaves out
    Candidates,     \* the numbers that are tested
    MaxD            \* where the search for D gives up (10000)

ASSUME PrimalityAssumption ==
    /\ LastSmall \in Nat \ {0, 1}
    /\ NotListed \subseteq 3 .. LastSmall
    /\ Candidates \subseteq Nat
    /\ MaxD \in Nat

VARIABLES
    n,              \* the number that is tested
    pc,             \* the stage of the test, or its answer
    x,              \* Miller-Rabin: 2^(d 2^i) mod n
    todo,           \* squarings or doublings that are left
    D,              \* Lucas: the discriminant
    d,              \* Lucas: the exponent
    bits,           \* Lucas: the bits of d that the chain has still to use
    chain,          \* Lucas: U, V and Q^k mod n
    done            \* doublings that are done

vars == <<n, pc, x, todo, D, d, bits, chain, done>>
lucas == <<D, d, bits, chain, done>>

Answers == {"prime", "composite"}

-----------------------------------------------------------------------------
(* _SMALL_PRIMES: what is no product, but for the primes that are missing. *)
SmallPrimes ==
    (2 .. LastSmall)
        \ (UNION {{k * m : m \in k .. (LastSmall \div k)} : k \in 2 .. LastSmall}
           \cup NotListed)

(* pow(a, k, n)                                                            *)
Pow(a, k, m) ==
    LET p[j \in Nat] ==
            IF j = 0 THEN 1 % m
            ELSE LET root   == p[j \div 2]
                     square == (root * root) % m
                 IN  IF j % 2 = 0 THEN square ELSE (square * (a % m)) % m
    IN  p[k]

(* k = odd * 2^twos, for k > 0.                                            *)
Odd[k \in Nat]  == IF k % 2 = 1 THEN k ELSE Odd[k \div 2]
Twos[k \in Nat] == IF k % 2 = 1 THEN 0 ELSE 1 + Twos[k \div 2]

(* bin(k)[2:], for k > 0.                                                  *)
Bits[k \in Nat] == IF k = 0 THEN <<>> ELSE Append(Bits[k \div 2], k % 2)

(* _jacobi(): the symbol (a/m) for odd m, with a already reduced mod m.    *)
Jacobi[a \in Nat, m \in Nat] ==
    IF a = 0 THEN IF m = 1 THEN 1 ELSE 0
    ELSE IF a % 2 = 0
         THEN (IF m % 8 \in {3, 5} THEN -1 ELSE 1) * Jacobi[a \div 2, m]
         ELSE (IF a % 4 = 3 /\ m % 4 = 3 THEN -1 ELSE 1) * Jacobi[m % a, a]

(* Half of a number modulo the odd n.                                      *)
Half(k) == IF k % 2 = 1 THEN (k + n) \div 2 ELSE k \div 2

Q == (1 - D) \div 4

-----------------------------------------------------------------------------
Start == [U |-> 0, V |-> 2, Qk |-> 1]

(* A call: what the functions set before their loops.                      *)
Called ==
    /\ pc = "sieve"
    /\ x = 0 /\ todo = 0
    /\ D = 5 /\ d = 0 /\ bits = <<>> /\ chain = Start /\ done = 0

Init == n \in Candidates /\ Called

(* The list is in ascending order: a number in it has no divisor before    *)
(* itself.                                                                 *)
Sieve ==
    /\ pc = "sieve"
    /\ pc' = IF n < 2 THEN "composite"
             ELSE IF n \in SmallPrimes THEN "prime"
             ELSE IF \E p \in SmallPrimes : n % p = 0 THEN "composite"
             ELSE "miller_rabin"
    /\ UNCHANGED <<n, x, todo, lucas>>

(* Fault: a number that passes is taken for a prime.                       *)
MillerRabin_Enough ==
    /\ pc = "miller_rabin"
    /\ x' = Pow(2, Odd[n - 1], n)
    /\ todo' = Twos[n - 1] - 1
    /\ pc' = IF x' \in {1, n - 1} THEN "prime" ELSE "squarings"
    /\ UNCHANGED <<n, lucas>>

MillerRabin ==
    /\ pc = "miller_rabin"
    /\ x' = Pow(2, Odd[n - 1], n)
    /\ todo' = Twos[n - 1] - 1
    /\ pc' = IF x' \in {1, n - 1} THEN "find_D" ELSE "squarings"
    /\ UNCHANGED <<n, lucas>>

Square ==
    /\ pc = "squarings"
    /\ IF todo = 0
       THEN pc' = "composite" /\ UNCHANGED <<x, todo>>
       ELSE /\ x' = (x * x) % n
            /\ todo' = todo - 1
            /\ pc' = IF x' = n - 1 THEN "find_D" ELSE pc
    /\ UNCHANGED <<n, lucas>>

-----------------------------------------------------------------------------
(* 5, -7, 9, -11, ...                                                      *)
NextD == IF D > 0 THEN -D - 2 ELSE -D + 2

Abs(k) == IF k < 0 THEN -k ELSE k

FindD ==
    /\ pc = "find_D"
    /\ IF Jacobi[D % n, n] = -1
       THEN /\ d' = Odd[n + 1]
            /\ bits' = Bits[d']
            /\ todo' = Twos[n + 1]
            /\ pc' = "chain"
            /\ UNCHANGED D
       ELSE /\ D' = NextD
            /\ pc' = IF Abs(D') > MaxD THEN "composite" ELSE pc
            /\ UNCHANGED <<d, bits, todo>>
    /\ UNCHANGED <<n, x, chain, done>>

(* From k to 2k, and from k to k + 1, as _lucas_chain() does it.           *)
Doubled(c) == [U  |-> (c.U * c.V) % n,
               V  |-> (c.V * c.V - 2 * c.Qk) % n,
               Qk |-> (c.Qk * c.Qk) % n]

(* Fault: V is computed from the U that was just assigned.                 *)
Increased_InPlace(c) ==
    LET u == Half((c.U + c.V) % n)
    IN  [U |-> u, V |-> Half((D * u + c.V) % n), Qk |-> (c.Qk * Q) % n]

Increased(c) == [U  |-> Half((c.U + c.V) % n),
                 V  |-> Half((D * c.U + c.V) % n),
                 Qk |-> (c.Qk * Q) % n]

ChainStep ==
    /\ pc = "chain"
    /\ bits # <<>>
    /\ chain' = IF Head(bits) = 1 THEN Increased(Doubled(chain)) ELSE Doubled(chain)
    /\ bits' = Tail(bits)
    /\ UNCHANGED <<n, pc, x, todo, D, d, done>>

ChainEnd ==
    /\ pc = "chain"
    /\ bits = <<>>
    /\ pc' = IF chain.U = 0 \/ chain.V = 0 THEN "prime" ELSE "doublings"
    /\ UNCHANGED <<n, x, todo, lucas>>

(* Fault: the exponent of Q is doubled once more, in the first turn too.   *)
DoubleV_Early ==
    /\ pc = "doublings"
    /\ IF todo = 0
       THEN pc' = "composite" /\ UNCHANGED <<chain, d, todo, done>>
       ELSE LET v == (chain.V * chain.V - 2 * Pow(Q, d * 2 ^ (done + 1), n)) % n
            IN  /\ chain' = [chain EXCEPT !.V = v]
                /\ todo' = todo - 1
                /\ done' = done + 1
                /\ d' = IF v = 0 THEN d ELSE 2 * d
                /\ pc' = IF v = 0 THEN "prime" ELSE pc
    /\ UNCHANGED <<n, x, D, bits>>

(* The doublings of V after the chain: d is doubled as they go along, and  *)
(* the exponent of Q is multiplied by a power of two as well.              *)
DoubleV ==
    /\ pc = "doublings"
    /\ IF todo = 0
       THEN pc' = "composite" /\ UNCHANGED <<chain, d, todo, done>>
       ELSE LET v == (chain.V * chain.V - 2 * Pow(Q, d * 2 ^ done, n)) % n
            IN  /\ chain' = [chain EXCEPT !.V = v]
                /\ todo' = todo - 1
                /\ done' = done + 1
                /\ d' = IF v = 0 THEN d ELSE 2 * d
                /\ pc' = IF v = 0 THEN "prime" ELSE pc
    /\ UNCHANGED <<n, x, D, bits>>

Next ==
    \/ Sieve
    \/ MillerRabin \/ Square
    \/ FindD \/ ChainStep \/ ChainEnd \/ DoubleV

Spec == Init /\ [][Next]_vars

-----------------------------------------------------------------------------
(* The reference: primality by trial division.                             *)
IsPrime(k) == k > 1 /\ \A p \in 2 .. k - 1 : p * p <= k => k % p # 0

(* The reference for the Lucas sequences of parameters 1 and Q, which owes *)
(* nothing to the doubling formulas: with y^2 = y - Q, the power y^k is    *)
(* a + U_k y, and V_k is its trace 2a + U_k.                               *)
LucasPower(k) ==
    LET Times(s, t) == LET high == s[2] * t[2]
                       IN  <<(s[1] * t[1] - Q * (high % n)) % n,
                             (((s[1] * t[2] + s[2] * t[1]) % n) + high) % n>>
        p[j \in Nat] ==
            IF j = 0 THEN <<1, 0>>
            ELSE LET root   == p[j \div 2]
                     square == Times(root, root)
                 IN  IF j % 2 = 0 THEN square ELSE Times(square, <<0, 1>>)
    IN  p[k]

LucasV(k) == LET y == LucasPower(k) IN (2 * y[1] + y[2]) % n

(* The i-th doubling, from 0 on, needs Q^(k 2^i) for k = Odd[n + 1], to    *)
(* come from V_(k 2^i) to the next; the code takes Q^(k 4^i).  The two     *)
(* exponents differ from the second doubling on.                           *)
RightPower(i) == Pow(Q, Odd[n + 1] * 4 ^ i, n) = Pow(Q, Odd[n + 1] * 2 ^ i, n)

FirstWrong(i) == ~RightPower(i) /\ \A j \in 0 .. i - 1 : RightPower(j)

(* _lucas_chain() keeps U, V and the power of Q at the index given by the  *)
(* bits it has used, through both of its formulas; and the doublings after *)
(* it keep V at its index up to the first of them, the second at the       *)
(* earliest, whose power of Q is wrong (_strong_lucas_test).               *)
ChainIsLucas ==
    /\ pc = "chain" =>
          LET k == d \div 2 ^ Len(bits)
          IN  /\ chain.U % n = LucasPower(k)[2]
              /\ chain.V % n = LucasV(k)
              /\ chain.Qk % n = Pow(Q, k, n)
    /\ pc = "doublings" /\ (\A i \in 1 .. done - 1 : RightPower(i)) =>
          chain.V % n = LucasV(Odd[n + 1] * 2 ^ done)

(* Nothing but a prime is taken for one, the strong pseudoprimes to base 2 *)
(* included: the two tests have different liars.  And a prime is refused   *)
(* only by the doublings of the strong Lucas test, from the first one with *)
(* a wrong power of Q on: a V that is zero there is missed.  The sieve,    *)
(* the Miller-Rabin test, the search for D, the chain and the doublings    *)
(* before let every prime through that is theirs (_is_probable_prime).     *)
AnswersRight ==
    /\ pc = "prime" => IsPrime(n)
    /\ pc = "composite" /\ IsPrime(n) =>
          \E i \in 1 .. done - 1 :
             FirstWrong(i) /\ \E r \in i + 1 .. done : LucasV(Odd[n + 1] * 2 ^ r) = 0
=============================================================================

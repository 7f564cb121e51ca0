----------------------------- MODULE SerialRng -----------------------------
(***************************************************************************)
(* What the shared random number generator promises: requests are served   *)
(* one after the other, as if by one caller.  Each result is made of the   *)
(* consecutive values under a key that no other result uses.               *)
(***************************************************************************)
EXTENDS Naturals, Sequences

VARIABLE results    \* the results so far, each a sequence of blocks

Init == results = <<>>

(* <<generator, key>> of a block.                                          *)
Origin(b) == <<b[1], b[2]>>

Fresh(r) ==
    \A p \in 1 .. Len(results) :
        \A a \in 1 .. Len(r), b \in 1 .. Len(results[p]) :
            Origin(r[a]) # Origin(results[p][b])

Serve(r) ==
    /\ \A a \in 1 .. Len(r) : Origin(r[a]) = Origin(r[1]) /\ r[a][3] = a
    /\ Fresh(r)
    /\ results' = Append(results, r)

Next ==
    /\ Len(results') = Len(results) + 1
    /\ Serve(results'[Len(results')])

Spec == Init /\ [][Next]_results
=============================================================================

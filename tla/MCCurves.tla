------------------------------ MODULE MCCurves ------------------------------
(***************************************************************************)
(* CurveKeys for TLC.  Both curves in Weierstrass's form have 17 points,   *)
(* one more than the field has elements, the other less, so that           *)
(* coordinates wrap round the order.  The Edwards curve and Montgomery's   *)
(* have 56 points, eight times a prime.                                    *)
(***************************************************************************)
EXTENDS CurveKeys, MCBytes

SmallCurves ==
    {[p |-> 11, a |-> 8, b |-> 1, g |-> <<2, 5>>, n |-> 17],
     [p |-> 23, a |-> 20, b |-> 15, g |-> <<1, 6>>, n |-> 17]}

EdBase == <<14, 27>>

(* The base, a point of order 4 and one of order 56.                       *)
SmallThird == {EdBase, <<11, 0>>, <<3, 8>>}
=============================================================================

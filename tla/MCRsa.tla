------------------------------- MODULE MCRsa -------------------------------
(***************************************************************************)
(* RsaKeys for TLC: a modulus of 13 or 14 bits is seven bytes of two bits. *)
(* The primality test runs on the numbers that are drawn, and on numbers   *)
(* of other sizes where composites reach its later parts.                  *)
(***************************************************************************)
EXTENDS RsaKeys, MCBytes

(* Everything up to 900, and the strong pseudoprimes to base 2 after it.   *)
SmallCandidates == (0 .. 900) \cup {2047, 3277, 4033, 4681, 8321, 15841}

SmallModuli   == {10, 14}
SmallInfo     == <<2>>
SmallTexts    == {<<>>, <<0>>, <<1>>, <<0, 1>>, <<1, 0>>, <<0, 2, 1>>, <<1, 0, 0, 2>>}

(* Some function onto the bytes.                                           *)
SmallHash(s) == <<FoldLeft(LAMBDA h, b : (3 * h + b + 1) % 4, 2, s)>>
=============================================================================

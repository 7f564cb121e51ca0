----------------------------- MODULE MCDigests -----------------------------
(***************************************************************************)
(* Derivations for TLC: bytes of four bits, digests of two bytes.          *)
(***************************************************************************)
EXTENDS Derivations, MCBytes

SmallMd == {[block |-> 12, len |-> 3, word |-> 3], [block |-> 18, len |-> 6, word |-> 3]}
SmallSponges == {[rate |-> 6, lane |-> 2, domain |-> 1], [rate |-> 4, lane |-> 2, domain |-> 3]}

Repeated(b, length) == [j \in 1 .. length |-> b]

(* Zeros, marks and others, at every length of two blocks and where the    *)
(* length needs another byte.                                              *)
SmallTexts ==
    {Repeated(b, length) : b \in {0, 8, 5}, length \in (0 .. 38) \cup (62 .. 66)}
      \cup {<<1, 0, 0>>, <<3, 0, 8>>}

SmallKeys == {<<>>, <<3>>} \cup {Repeated(7, length) : length \in {11, 12, 13, 17, 18, 19}}
SmallMessages == {<<>>, <<0>>, Repeated(9, 8), Repeated(9, 13)}

SmallHkdf == [salt : {<<>>, <<4>>}, ikm : {<<5, 6>>}, info : {<<>>, <<1>>},
              length : {0, 1, 2, 5, 30, 31, 32}]
SmallPbkdf2 ==
    [password : {<<2>>, Repeated(7, 13)}, salt : {<<>>, <<1>>},
     iterations : {0, 1, 3}, length : {0, 3, 4}]
      \cup [password : {<<2>>}, salt : {<<1>>}, iterations : {1}, length : {30, 31}]

SmallEntropies == {<<1, 2>>, <<1, 2, 3>>, <<1>>}
SmallPersonalizations == {<<>>, <<3>>}
SmallNonces == {<<9, 9>>}
SmallAdditional == {<<>>, <<3>>}
SmallTag == <<13>>
=============================================================================

------------------------------ MODULE MCSession ------------------------------
(***************************************************************************)
(* MTProtoCalls for TLC: two grains to the second, a window of one second  *)
(* on either side, a cache of two ids; and words of ten values, so that a  *)
(* length is that of two words at most.                                    *)
(***************************************************************************)
EXTENDS MTProtoCalls

S(key, session, body, plain) ==
    [key |-> key, session |-> session, body |-> body, plain |-> plain]

(* One for each gate: another key, another session, a body that is not in  *)
(* words, one longer than its message, too much padding and too little;    *)
(* and a message of another implementation that passes.                    *)
Shapes == {S("other", "this", 0, 48), S("shared", "another", 0, 48),
           S("shared", "this", 2, 48), S("shared", "this", 64, 48),
           S("shared", "this", 0, 1072), S("shared", "this", 8, 48),
           S("shared", "this", 4, 64)}

Steps == {2, -2}

D(words, odd) == [words |-> words, odd |-> odd]

(* Empty, of one word and two, a container, and one not in words.          *)
BodyData == {D(<<>>, 0), D(<<4>>, 0), D(<<0, 9>>, 0), D(<<9>>, 0), D(<<4>>, 2)}

(* None, the id of one of the messages, and one above them all.            *)
Outers == {<<>>, <<14>>, <<25>>}
=============================================================================

---------------------------- MODULE MCCollector ----------------------------
(***************************************************************************)
(* EntropyCollector for TLC: a device gives up to three bytes and the      *)
(* strict mode asks for four, so that neither the TPM nor the hardware     *)
(* generator is enough alone.                                              *)
(***************************************************************************)
EXTENDS EntropyCollector

CONSTANTS w1, w2

TwoWorkers == {w1, w2}

SomeSkips == {{}, {"thread"}, {"linux", "timer"}, Software}
=============================================================================

------------------------------- MODULE MCRng -------------------------------
(***************************************************************************)
(* RngService for TLC: requests of up to two blocks are served, one of     *)
(* three is too long, and the fourth call meets the end of the interval.   *)
(***************************************************************************)
EXTENDS RngService

CONSTANTS t1, t2

TwoThreads == {t1, t2}
=============================================================================

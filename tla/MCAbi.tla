------------------------------- MODULE MCAbi -------------------------------
(***************************************************************************)
(* Small instances of Abi for TLC.                                         *)
(***************************************************************************)
EXTENDS Abi, TLC

CONSTANTS t1, t2, t3

TwoThreads   == {t1, t2}
ThreeThreads == {t1, t2, t3}
=============================================================================

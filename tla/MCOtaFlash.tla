----------------------------- MODULE MCOtaFlash -----------------------------
(***************************************************************************)
(* OtaFlash with double words of two bytes and buffers in which each byte  *)
(* differs from the one before.                                            *)
(***************************************************************************)
EXTENDS OtaFlash

CONSTANTS a, b, Lengths

\* a buffer of n bytes
Buffer(n) == [i \in 1 .. n |-> IF i % 2 = 1 THEN a ELSE b]

MCDatas == {Buffer(n) : n \in Lengths}
=============================================================================

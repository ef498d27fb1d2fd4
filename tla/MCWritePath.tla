----------------------------- MODULE MCWritePath -----------------------------
(* The write path on blocks of one or two one-bit bytes.                    *)
EXTENDS WritePath

XorBit(a, b) == (a + b) % 2
=============================================================================

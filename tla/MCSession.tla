----------------------------- MODULE MCSession -----------------------------
(* Sessions over a sector log of two blocks.                                *)
EXTENDS Session

XorBit(a, b) == (a + b) % 2
=============================================================================

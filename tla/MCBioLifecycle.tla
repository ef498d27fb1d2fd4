--------------------------- MODULE MCBioLifecycle ---------------------------
(* Two writes, of two sectors or of one, and a read.                        *)
EXTENDS BioLifecycle, TLC

CONSTANTS w1, w2, r1, s1, s2

Different == w1 :> s1 @@ w2 :> s2 @@ r1 :> s1
Same == w1 :> s1 @@ w2 :> s1
=============================================================================

----------------------------- MODULE MCBitbang -----------------------------
(* Bitbang with every TMS vector of at most MaxBits bits.                   *)
EXTENDS Bitbang

CONSTANT MaxBits

MCTmsInputs == UNION {[1..n -> Bit] : n \in 0..MaxBits}
=============================================================================

------------------------------- MODULE MCVpi -------------------------------
(* Vpi with TMS sequences to Shift-DR from Test-Logic-Reset and from Exit1. *)
EXTENDS Vpi

MCTmsSeqs == {<<0, 1, 0, 0>>, <<0, 1, 0>>}
=============================================================================

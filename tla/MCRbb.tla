------------------------------- MODULE MCRbb -------------------------------
(* Rbb with clients that scan the data register or the instruction register. *)
EXTENDS Rbb

MCApproaches == { <<0, 1, 0, 0>>, <<0, 1, 1, 0, 0>> }
=============================================================================

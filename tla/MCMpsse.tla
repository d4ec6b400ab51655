------------------------------ MODULE MCMpsse ------------------------------
(* Mpsse with bytes of two bits and a small buffer.                         *)
EXTENDS Mpsse

\* To Test-Logic-Reset, from there or from Run-Test/Idle to Shift-DR, and from
\* Exit1-DR to Run-Test/Idle.
MCTmsSeqs == { <<1, 1, 1, 1, 1>>, <<0, 1, 0, 0>>, <<1, 0>> }

\* The same with one sequence from Exit1-DR straight to the next scan.
MCScanSeqs == MCTmsSeqs \cup { <<1, 0, 1, 0, 0>> }

\* Through Test-Logic-Reset to Run-Test/Idle, from there to Shift-DR and from
\* Exit1-DR back.
MCFaultSeqs == { <<1, 1, 1, 1, 1, 0>>, <<1, 0, 0>> }
=============================================================================

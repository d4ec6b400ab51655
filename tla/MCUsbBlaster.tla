---------------------------- MODULE MCUsbBlaster ----------------------------
(* UsbBlaster with bytes of two bits and packets of two bytes.              *)
EXTENDS UsbBlaster

\* From Test-Logic-Reset to Shift-DR, from Exit1-DR there by the shortest way
\* and by Run-Test/Idle, and the reset.
MCTmsSeqs == { <<0, 1, 0, 0>>, <<0, 1, 0>>, <<1, 0>>, <<1, 1, 1, 1, 1>> }
=============================================================================

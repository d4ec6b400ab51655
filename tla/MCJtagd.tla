------------------------------ MODULE MCJtagd ------------------------------
(* Jtagd with IDCODEs of two bits and probing for at most two devices.      *)
EXTENDS Jtagd

Ask(command, bytes, write, read) ==
  [command |-> command, bytes |-> bytes, write |-> write, read |-> read]

\* A response that waits, one that does not, data of the server, the chain, an
\* access of each kind; writes of three bytes and of twenty bits, for which the
\* client sends three bytes and the server takes two; reads of none, two and
\* 254 bytes.
MCRequests ==
  { Ask("GET_VERSION_INFO", 4, 0, 0), Ask("GET_HARDWARE", 4, 0, 0),
    Ask("READ_CHAIN", 16, 0, 0), Ask("OPEN_DEVICE", 16, 0, 0),
    Ask("LOCK_DEVICE", 8, 0, 0), Ask("ACCESS_IR_2", 20, 0, 0),
    Ask("ACCESS_DR_2", 36, 24, 0), Ask("ACCESS_DR_2", 36, 20, 9),
    Ask("ACCESS_DR_2", 36, 0, 2032), Ask("RUN_TEST_IDLE", 8, 0, 0) }

\* None, two, and one more than are found.
MCChains == { << >>, <<<<0, 1>>, <<1, 1>>>>, <<<<1, 0>>, <<1, 1>>, <<1, 0>>>> }
=============================================================================

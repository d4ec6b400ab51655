------------------------------- MODULE MCXvc -------------------------------
(* Xvc with shift commands of one or two bytes, or too long for the buffer. *)
EXTENDS Xvc

Ask(kind, cells, period, regions) ==
  [kind |-> kind, cells |-> cells, period |-> period, regions |-> regions]

\* The ends of the range, 1000 and 1 MHz, a period between them that the divisor
\* does not meet, 17 MHz, and 2001 ns, which are no frequency.  (Periods from 667
\* ns on are 1 MHz, too.)
MCCommands ==
  { Ask("settck", 2, period, 0) : period \in {1, 60, 2000, 2001} }
    \cup { Ask("getinfo", 1, 0, 0), Ask("shift", 4, 0, 2), Ask("shift", 10, 0, 1) }
=============================================================================

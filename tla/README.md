# jtag-remote-server in TLA+

jtag-remote-server lets a debugger on the network drive a JTAG port. One host
thread runs everything: `main` initialises a USB adapter, opens a TCP port and
calls the tick of one server in a loop. The tick reads what a client sent,
turns it into JTAG operations and writes the answers back. The adapter, an FTDI
chip in MPSSE mode or an Altera USB-Blaster, executes commands on its own while
the host goes on. These modules model how client bits become edges of TCK, what
the target and the host then believe about the TAP, and how samples of TDO find
their way back to the bits that asked for them.

## Inventory

| Component (under `src/src/`) | State | Operations | What is hard |
|---|---|---|---|
| TAP state machine (`common.h`, `common.cpp:9-47`) | `state`, the host's idea of the target's TAP | `next_state` | it is tracked, never read back |
| Bit-vector analysis (`common.cpp:255-296`) | regions, `shift_pos`, predicted state | `analyze_bitbang` | borders of regions |
| JTAG operations (`common.cpp:89-161`, `250-253`) | `state` | `jtag_tms_seq`, `jtag_scan_chain`, `_send`, `_recv`, `jtag_clock_tck`, `jtag_goto_tlr`, `jtag_tms_seq_to` | the state is advanced before the adapter is called, and not taken back |
| MPSSE adapter (`mpsse.cpp`) | chip's TMS level, replies on their way | the `driver` functions | deferred writes, replies in order, partial reads, failures in the middle of a call |
| MPSSE command buffer (`mpsse_buffer.cpp`) | `mpsse_buffer_pos` | ensure_space, append, flush | appends are unchecked; a failed flush drops commands of earlier calls |
| USB-Blaster adapter (`usb_blaster.cpp`) | `recv_buffer`, its length | the `driver` functions | replies are read inside send and fetched by recv |
| USB retries (`common.cpp:481-512`) | none | `ftdi_read_retry`, `ftdi_write_retry` | partial transfers, giving up |
| Remote-bitbang server (`rbb.cpp`) | `client_fd` | tick | chunks of a TCP stream, three assertions, reconnection |
| XVC server (`xvc.cpp`) | socket buffer, deferred shifts | tick | send now and receive later, Run-Test/Idle shortcut, parser |
| jtag_vpi server (`vpi.cpp`) | partial command | tick | framing across disconnects, `adapter_deinit` |
| Intel jtagd server (`jtagd.cpp`) | messages, fifos, devices, send buffer | tick, 14 commands | a command that waits for its fifo, stale fifos, an 8-bit size |
| Chain probing (`common.cpp:330-471`) | none | `jtag_probe_devices`, `jtag_get_tms_seq` | pairs of states without a path, eight devices |
| Socket helpers (`common.cpp:163-248`, `298-328`) | `buffer_begin`, `buffer_end` | `read_socket`, `write_full`, `try_accept` | buffer at its limit |
| Main loop (`main.cpp`) | `stop`, the globals | loop, SIGINT | a flag read between blocking ticks |

Interactions: a server calls the JTAG operations of `common.cpp`, which call the
`driver` function pointers; both sides write the one global `state`
(`jtag_tms_seq` and, for the bit sent along TMS = 1, the drivers). The drivers talk to the chip by
`ftdi_write_data` and `ftdi_read_data`. Client and chip run concurrently with
the host; there are no threads, callbacks or persistent state.

What makes each part correct:

- analysis and execution: the target sees exactly the client's TMS bits, TDI
  data goes along exactly when the target shifts, the predicted state is the
  tracked one;
- adapters: after any legal calls the target is in the tracked state; a read
  returns the samples of its own scan; no reply is left over, no read waits for a
  reply that does not come; the buffer is not overrun; after a failure a reset
  restores the agreement;
- servers: each client gets the bits it asked for in order, whatever chunks the
  stream is cut into and whatever an earlier client left behind; nothing that is
  owed stays behind when the server waits; no assertion fails and no read hangs for a
  client that keeps to the rules; a client that has left is noticed and SIGINT ends
  the program.

## Modules

    Tap              TAP states and next_state
      JtagAdapter    what struct driver promises to the servers
      Regions        struct Region, opening and closing of regions
        Bitbang      analyze_bitbang and the execution of regions (rbb, xvc)
        Rbb          remote-bitbang tick and its client, chunk by chunk
      Mpsse          jtag operations + mpsse.cpp + mpsse_buffer.cpp + chip
      UsbBlaster     jtag operations + usb_blaster.cpp + device
      Probe          jtag_get_tms_seq and jtag_probe_devices
        Jtagd        jtagd tick and its client, message by message
      Vpi            jtag_vpi tick, its client, and the main loop
    Xvc              XVC tick, read_socket, settck, and its client
    TapProofs, BitbangProofs, MpsseProofs, UsbBlasterProofs, RbbProofs,
      XvcProofs, VpiProofs, JtagdProofs                      theorems
    MCBitbang, MCRbb, MCMpsse, MCUsbBlaster, MCJtagd, MCXvc, MCVpi  instances for TLC

Mpsse and UsbBlaster hold an instance of JtagAdapter (`Adapter`) and are shown to
implement it. The servers' modules build on what it says: their adapter answers
scans in order and takes the TAP along.

**Bitbang.** One step per iteration of the analysis loop (`AnalyzeBit`), one per TCK edge of the
execution. A batch is any TMS vector. `state` is the global, `tap` the
target, `pin` the level of TMS: data bits and the clocks of
`jtag_clock_tck` carry no TMS and keep the pin, as with the MPSSE adapter (that of the
USB-Blaster makes no clocks, see below). With
the server "xvc" a region of zeros entered in Run-Test/Idle sends its first bit with
TMS data and clocks the rest (`xvc.cpp:130-142`). The module describes the
adapter that `driver` promises; Mpsse shows what the MPSSE driver makes of it.

**Mpsse.** `pc` says where the host thread is in the call. A call appends MPSSE
commands; their bytes only count in `pos`, what the chip will do with them is
`queue`: TCK edges and SEND_IMMEDIATE commands in order, the first `sent` of
which have reached the chip. `EnsureAndAppend` is `mpsse_buffer_ensure_space`
followed by the appends. The chip executes one edge at a time, between any two
steps of the host; it shifts TDO samples into `reg` from the top, hands a byte to
`fifo` when it is full or the command ends, and to USB (`visible`) on
SEND_IMMEDIATE or when its latency timer expires. A data bit is the set of
samples ORed into it, so that the model sees a sample that is missing, misplaced or
mixed with another. `fate` and `ones` are history: the TAP state that the
commands so far lead to, "unknown" until five TMS = 1 edges in a row and after a
failed transfer. `ftdi_write_retry` gives up after any byte. If that is between two commands,
the chip has a prefix of them and five more TMS = 1 edges make the fate certain
again. If it is inside one (`torn`), the chip takes what comes later for its missing bytes:
`ExecuteTorn` lets it move the TAP anywhere and make replies or none, and no reset is
counted on any more.

**UsbBlaster.** Writes go out at once; a scan that reads waits for the replies
of each packet before it goes on, and `recv_buffer` keeps them for recv. Both
assertions of the driver lead to `pc = "aborted"`. `set_tck_freq` and
`clock_tck` do nothing in the code and are no actions. The bytes with TCK = 0 and TCK = 1
of a clock are one rising edge; the level of TCK is not modelled.

**Rbb.** The client writes "R" and rising-edge characters; the server takes a chunk of
at most `BufferSize` characters, analyses it and executes one region per step. The
three assertions lead to `pc = "aborted"`. Clients leave at any time, with
characters unread, and another one connects and resets the TAP.

**JtagAdapter.** The abstract specification of `struct driver` (`common.h:63-73`).
A call is one step: it advances `state`, and a scan with do_read joins the queue
`pending`, from whose head `ScanRecv` takes the samples that belong to that
scan, each bit its own. A call in which a transfer fails ends the promise about
data (`sound`) and may leave the target behind (`known`) until a reset. The
mapping is the interesting part: in both drivers a call takes many steps, all
but one of which stutter; Mpsse advances `state` in the middle of a send and
receives from the chip what was flushed by a later call; the USB-Blaster has
read the replies before send returns, so that its `pending` includes the scan
being read inside send (`Unanswered`).

**Probe.** `Routes` is the table of `jtag_get_tms_seq`; `HasRoute` is false where
it meets `assert(false)`. The chain is one shift register: `jtag_probe_devices`
shifts bits through it as the code does and looks at what comes back.

**Jtagd.** The client writes messages, alone or joined in one packet, and fifo
packets; the server reads any number of packets, then handles one message per step. A
packet on its way to the client is the number of bytes written, the length that its
header says, and the responses and data in it, with the arithmetic of the code
(8 bits for `send_buffer_size`, 16 for the header). The client hears items until
a packet is not as long as it said. An access names the state in which it
shifted, so that a wrong path through `Routes` is a wrong answer. `Abort` stands for
`assert(false)` and for `devices[0]` of no devices. `careful` describes the
client that the code works for: it scans the chain first and goes back to
Run-Test/Idle between accesses.

**Xvc.** A command is a keyword cell, a field cell and the cells of its vectors, in an
array with `buffer_begin` and `buffer_end`. `ReadSocket` does what the code does:
it moves what is left of a full buffer, resets an empty one, and writes at
`buffer_begin`. Parsing, answering at once and deferring are steps; `owed` are
the scans whose replies are in the adapter. `WriteFull` may fail once the client has
left, and the assertion around it then ends the program; so does the division by a
frequency of 0, and with the USB-Blaster a second data region sent before the answers
(`usb_blaster.cpp:123`).

**Vpi.** Commands have one size; the server gathers a command's cells across
reads. If the cells are not of one command, it executes whatever they say. A
disconnect keeps the cells and takes an MPSSE chip out of its mode: from then on a
scan hangs (`hung`). `LoopTest` is `while (!stop)` of `main.cpp` after each tick,
`Interrupt` the signal handler, and `listening` the ignored result of the
server's init.

## Runs

| Run | Question | Bounds | Distinct states |
|---|---|---|---|
| `bitbang` | Do the regions clock the client's bits, for either server? | all vectors of up to 6 bits from every state that vectors reach | 53 280 |
| `mpsse` | Do buffering, partial reads and deferred reads keep state and data right, and implement JtagAdapter? | bytes of 2 bits, buffer 9, transfers of 8, two pending scans | 2.7 million |
| `mpsse_faults` | What survives a failed transfer? | one failure, between commands or inside one; buffer 8, transfers of 7; a scan of 20 bits that does not fit the buffer | 6.3 million |
| `mpsse_live` | Does every read return? | no failure | 0.5 million |
| `mpsse_assert` | Is the state advanced as the servers assert? | one failure | violated |
| `blaster` | The same questions for the USB-Blaster | bytes of 2 bits, packets of 2 bytes, two failures | 268 000 |
| `blaster_assert` | Does the driver's assertion hold with XVC? | two scans, no failure | violated |
| `rbb` | Does a client get its answers? | 18 bits per session, chunks of up to 9 characters, two sessions | 417 000 |
| `rbb_split` | May a chunk end anywhere? | one session of 12 bits | violated |
| `jtagd` | Is every message answered in its turn, in packets with borders? | four of ten messages, one fifo packet, two sessions, chains of 0, 2 and 3 devices | 4.7 million |
| `xvc` | Who gets which answer, what ends the server, what does it miss? | buffer of 8 cells, three of seven commands, four periods, two sessions, both adapters | 3.0 million |
| `vpi` | Are clients answered across disconnects, and does SIGINT end the loop? | commands of 3 cells, four per session, two sessions, both adapters | 433 000 |

The passing runs show that the listed properties hold in these instances. Some
say exactly how far the code's promise goes, where it ends early:

- `jtagd`, `FramingKept`: only a READ_CHAIN that finds nothing and a read of 254
  bytes or more cost the client the border between packets;
- `jtagd`, `CarefulClientServed`: only a client that is not careful meets an assertion,
  wherever an earlier one left the TAP;
- `jtagd`, `CaughtUp`: but for an ACCESS_DR_2 whose data did not come, or of which
  the fifo took too few elements (`scarce`, `jtagd.cpp:184`), all is answered;
- `xvc`, `AnswersMatch` and `CaughtUp`: true up to a read that finds the part of
  a command in the buffer (`torn`, `common.cpp:313`), and in order within a class
  of commands: getinfo and settck overtake shift;
- `mpsse_faults`, `TargetFollowsState`: a reset restores the agreement after a failed
  transfer that ended between two commands, and after no other;
- `xvc`, `AbortsOnlyUnanswered`: a client that leaves before its answers may end the
  server, one that leaves after them does not; with the USB-Blaster, which takes one
  scan at a time, so may a client that is owed two regions of data at once, and no
  other;
- `xvc`, `LeavingNoticed`: unless a part of a command fills the buffer;
- `vpi`, `AnswersInOrder`: as long as no client leaves within a command (`ragged`);
- `vpi`, `FirstClientServed`: a read that hangs belongs to a later client, and to
  the MPSSE adapter.

The three violated ones are disagreements between an assertion and the code around
it:

- `mpsse_assert`: `mpsse_jtag_scan_chain_send` fails before it has advanced the
  state, `rbb.cpp:103` and `xvc.cpp:155` ignore that, and
  `assert(cur_state == state)` stops the server;
- `blaster_assert`: XVC sends all scans of a batch before it receives the first,
  the driver asserts `recv_buffer_len == 0` on every send;
- `rbb_split`: a chunk that ends between "R" and its bit makes
  `assert(read_bits == actual_read_bits)` fail.

Why the bounds are enough. A path from Test-Logic-Reset to a shift state takes at
most five bits, and batches follow one another from wherever the last one ended, so six
bits open, close and leave open regions of both kinds in one vector. In
Mpsse what matters of a scan is which of its three parts (whole bytes, rest,
last bit) are empty and where the buffer's limit falls; with bytes of two bits and
transfers of eight every command can be the one that flushes. A scan of
four bits has, with and without `flip_tms`, whole bytes only or all three parts (`RecvBits` proves the
other lengths). In `mpsse_faults`, `ScanLens = {1, 20}` has the
scan whose only bit is flipped and the one that is refused; the two TMS sequences are the
reset, which makes the fate certain, and a way into a shift state, so that failures come before, between
and after them, inside a command or not. Two pending scans are
enough for replies to be mistaken for another's: a third one adds only
distance. `MaxLag` keeps the chip from lagging arbitrarily far behind when a
call begins; inside a call it lags as far as the call has sent. In
Rbb a chunk holds the nine bits of a reset and the way into Shift-DR, or four bits
of a scan with their Rs, or the end of one scan and the way to the next, and may
end after each of them.

In Jtagd four messages hold a chain scan, an access, whatever the code does not
expect after it, and one more that must still be answered; `MaxTaps = 3` finds two
devices and takes three for none, as 8 does with eight. `MaxAhead` limits the
responses that gather in the send buffer to far fewer than the fourteen that
overflow it (`FramingKept` says so). In Xvc the buffer of eight cells holds two
shift commands or one and parts of another, and none of ten cells; three commands
are a deferred answer, an immediate one that overtakes it, and the part of a third. TCK starts
at 10 MHz (`InitFreq`) and is set to what comes of 1, 60 and 2000 ns: the fastest that the
chip can make, one between two divisors (17 MHz, made 15), and the slowest; 2001 ns come to none. In Vpi a
command has a first, an inner and a last cell; four commands reset, go to a shift
state, scan and scan again.

Deadlock is checked in `bitbang`, `mpsse` and `mpsse_live`. It is off
where the system may stop: after a failed transfer a read may wait for
ever (`mpsse_faults`, `mpsse_assert`), an assertion may end the program
(`blaster`, `blaster_assert`, `rbb_split`), or the bounded client has nothing left to say
(`rbb`, `jtagd`, `xvc`, `vpi`).

**Fairness.** Weak fairness of `Step` (the host thread runs: a call in progress
goes on whenever it can), of the chip's or device's execution (it executes what
it has received) and of the latency timer, which `mpsse_init` sets and which
hands over replies that wait. Nothing makes a server call the adapter, so calls
have no fairness. In Xvc and Vpi the main
loop's tick is weakly fair (`Tick`, `Loop`): the loop calls it again and again,
and a step that the tick can take stays possible until the host takes it.
Clients, signals and the network have none: a client may be silent for ever, and `StopEnds`
allows for the read that waits for it.

**Assumptions of the models**

- A failed write may end inside a command in Mpsse. While the chip is torn it adds replies
  only up to a bound; nothing is claimed of it then. In UsbBlaster a failed write ends between
  two commands; no property relies on it, since after one (`lost`) none says
  anything of the target or the data. A failed read delivers nothing more to that call.
- Scans begin in a shift state and `jtag_clock_tck` in Run-Test/Idle: that is
  what Bitbang's `DataExactlyWhenShifting` and `ClockOnly` show of rbb and xvc.
- Buffers given to recv are zeroed, as all callers but the probe do.
- The USB-Blaster is given non-empty TMS sequences (with none,
  `usb_blaster.cpp:95-104` uses `bit` uninitialised) and its init succeeded.
- The chip keeps TMS where the last TMS command left it; TDO carries data only
  in a shift state; a byte-shift packet of the USB-Blaster works from TCK high or
  low.
- Reads of the remote-bitbang client are all or none of a scan, as OpenOCD's driver
  does and `rbb.cpp:98` assumes.
- Servers (Rbb, Jtagd, Xvc, Vpi) have an adapter that does not fail; what a failure
  does to the answers is the subject of Mpsse and UsbBlaster. After
  `mpsse_deinit` it does not reply.
- Jtagd: `read` returns whole packets (Xvc shows `read_socket` with parts of
  commands), messages are well formed, and the devices' instruction registers
  have at most `MAX_IR` bits.
- Xvc: the bytes of a keyword, and those of a field, arrive together. A command
  torn by `read_socket` may be any of those that clients send, not any bytes.
- Vpi: so may one that is put together from two clients' cells; `nb_bits` stays in range.
- One client at a time waits in the backlog.

## Proofs

All theorems hold for every value of the constants that satisfies the module's
assumptions; `SizesAssumption` of Mpsse (a command of three bytes fits a
transfer, a transfer fits the buffer) is `mpsse_buffer.cpp:6-7` at its weakest.

*TapProofs*: `next_state` stays among the sixteen states; a shift state is left by
TMS = 1 only and Run-Test/Idle kept by 0; `Dist`, the number of TMS = 1 edges to Test-Logic-Reset, is at
most five and decreases (`DistDecreases`), so that `FiveReset`: a sequence that
ends in five of them resets any TAP. The module also holds the lemmas that the
proofs about servers and adapters share: division with remainder, sequences cut
and joined (`From`, `Joins`), and induction. The library's induction theorems take
an operator as parameter and cannot be used here; `LeastNatural` and `SetInduction` say the
same of a *set* of naturals, which is enough for `StateAfter`, the recursive
function by which JtagAdapter and Vpi walk along a TMS sequence.

*BitbangProofs*: `Spec => []P` for `TypeOK`, `RegionsPartition`,
`WireFollowsClient`, `DataExactlyWhenShifting` and `FinalStateAgrees`, for
vectors of every length. None of them is inductive. The invariant `IInv` adds
`PathInv` (`visited` is the path of `next_state` along the analysed bits),
`ClosedInv` (each closed region is bordered by changes of shift state and the
path inside it is all shifting or all not), `OpenInv` (the same of the open
region, from `shift_pos` to the loop index) and `ExecInv` (state, target and
wire are where `visited` and `tms` are at the number of bits clocked, and TMS
has the level that a region without TMS data needs). The wire is right because a
data region's inner bits are zeros: otherwise the path would have left the shift
state inside the region.

*MpsseProofs*: `Spec => []P` for `TypeOK`, `BufferBound` and
`TargetFollowsState`, with any number of failed transfers, each at any byte. `IInv` is the
conjunction of `BufInv` (position, prefix sent, and the *chain*: each item of
the queue carries the fate that follows from its predecessor's, the last one the host's `fate`), `ChipInv` (the target is where `tapfate`
says, or on its way to Test-Logic-Reset by `tapones` edges, measured by `Dist`) and
`HostInv` (in each place of each call, what `state` is to `fate`, and that the pin
will be low where a data command counts on it). `TargetFollowsState` follows when the
queue is empty, since then the fate of the last edge executed is the host's.
The chain is needed because a flush, a failed flush and the chip cut the
queue at different places. `TornInv` says that once the chip is torn the host's fate is
"unknown" and no TMS = 1 edge counts; it is inductive since no step ends `torn`. What
is proved of resets is therefore the case of failures between two commands.

*MpsseProofs* on replies: `RecvBits`, that recv returns each bit of its own scan in its
place; `NoStale`, that no reply byte is left when all is read; and `Implements`, the
refinement of JtagAdapter, failures included. A reply byte that is due is
described by its *group*: the scan, its first bit, how many bits it carries. The
invariant `RInv` says that the bytes in the chip, the one it is filling and those
that the edges in the queue will complete are, one after the other, the groups
of the call that reads and of the scans in `pending` (and, during a send, those that it has
appended already). Without it nothing connects the byte read with the scan whose bits it is
taken for: in between the commands were buffered, flushed with those of other
calls, executed one edge at a time, and the replies fetched in parts.
`Partial` describes `recv_buffer` while the bits of the byte that is not full are still at its
top. All of it holds until a transfer fails. The theorems assume `Fits`, that the longest scan's
command fits the buffer: the servers scan at most `BUFFER_SIZE` = 4096 bytes
(`common.h:122`), the buffer has 8192. Without it `mpsse_buffer_ensure_space` refuses the
bulk part of the scan (`mpsse_buffer.cpp:36-40`) before anything of it is queued, and send
returns before it has advanced the state; `mpsse_faults` has such a scan.

*UsbBlasterProofs*: `TypeCorrect`, `TapCorrect`, `RecvBits`, `RepliesFetched` and the refinement
`Implements`, for every packet size and any number of failed transfers. The
invariant has two halves. `TapInv`: there is a path of TAP states and TMS levels along the
commands in the queue that ends in the tracked state, unless a write has
failed; it speaks of TMS at the rising edges of TCK, not of the level of TCK. `DataInv`: the replies of the scan in progress are, in order, in
`recv_buffer`, in the device and still to be made by the last commands of the
queue, and none is anywhere else. `RepliesFetched` assumes
`MaxPending <= 1`, that a scan is received before the next is sent: rbb, jtagd and
jtag_vpi do so, XVC does not (`blaster_assert`).

*XvcProofs*: `TypeCorrect`, the type invariant for every buffer size and every set
of commands: what `read_socket` moves, resets and appends, and what each command
takes off, keeps `0 <= begin <= end <= BufferSize`, also when a torn command is
parsed. It needs that every command has two cells or more but getinfo, and that
the divisor fits eight bits, for which `DivisorSound` bounds the two nested
quotients, for the command line's frequency too. `ClockNotFaster` is the action property `TckNotFaster` from the same lemma.
`AnswersRight`, `NothingLeft` and `AbortsExplained` rest on the invariant `SInv`: there is a
sequence of commands not parsed yet whose cells, one after the other, are those in the buffer, those in the
stream, and those lost with a client that left (`Follows`); the client waits for
the shift commands that were sent and then for these (`Awaits`); the scans owed are
those of the shift commands that were sent, in their order (`SentInv`). The
sequence is not in the state, and it is what makes the statement inductive: a read
moves its border between stream and buffer, parsing takes its head, a client's write
appends to it, and a client that leaves turns its end into `gone`. With the USB-Blaster,
`TwoScansSent` turns two scans owed into regions of commands that were sent, and `Awaits` these
into regions that the client waits for.

*VpiProofs*: `FirstClient`, by an invariant that counts: the adapter is out of
its mode only when a client has left, so that whoever is connected then is the
second. `AnswersOrdered`, that nobody gets another's answer unless somebody left
within a command. The invariant (`Framed`, `DueInv`) says that the cells
received and those still on their way, put together, are those of the commands
after the first `done` ones, each at its place, and that the scans due are those among them,
in order. `Cut` shows that receiving only moves the border between buffer and
stream, `OneMore` what a client's write adds, `OneDone` that the first `CmdCells`
cells are one whole command and, if a scan, the one that is due first. `TypeCorrect` and `NothingLeft`
add `StateInv`: the commands heard and not executed lead from the tracked state
to the one the client counts on (`Led`), for which `StateAfter` of a joined
sequence is that of its parts, one after the other.

*RbbProofs*: `AnswersRight`, `NothingLeft` and `NoAssertFails`, for every buffer
size, any number of bits and connections and every way TCP cuts the stream between
bits. They assume `SplitBits = FALSE`, that an `R` and the character of its bit arrive
together, which the loop of `rbb.cpp:47-51` takes for granted and `rbb_split` shows to be
needed. The invariant `AheadInv` speaks of the bits that the client has written and the
server has not executed (`rest`, the `path` of states they lead through, and how many
of the first k of them are read). The first m are those in the chunk, whose regions cover
them and tell data from TMS as `path` does (`ChunkInv`); the others are spelled by the
stream (`Spelled`). `Scans` says that a client reads all bits of a scan or none, which is
why a region that begins and ends anywhere in a scan, as a chunk may, is read as a whole or
not at all (`Uniform`). `Cut` shows that receiving moves m, `Analysis` that the regions
found fit, `ExecuteAhead` that executing a region takes off as many answers as are
wanted first. A new client relies on `FiveReset`. `ApproachAssumption` says of the
clients modelled that an approach ends with the edge that enters the shift state.

*JtagdProofs*: all five invariants of Jtagd, for every set of requests and chains and any
number of messages, fifo packets and sessions. `ProbeFinds` comes first: shifting ones, zeros and
ones through a chain finds all its devices with their IDCODEs, in their order, if there
are fewer than `MAX_TAPS`. `HandlerSteps` then reduces the fourteen commands to
three kinds of steps: a response that waits, one that is sent with what
has gathered, an assertion that fails. The invariants speak of `pend`, the messages that are not handled yet,
whether received or on their way:

- `AnswersRight` by `OrderInv`: what the client awaits is the responses in the send
  buffer and then the answers to `pend`, one after the other. A read moves its
  border only, a handler takes its head, and a client that leaves drops
  stream and queue but not the fifo or the devices.
- `NothingLeft` adds `StuckInv`, that the server waits with a message in the queue for its fifo
  only, and `FifoInv`: what the fifo has and what the client has written to it
  (`Coming`) is enough for all that `pend` takes from it (`Wanted`) and what the
  client has sent beyond its requests (`credit`), unless the insertion took too few
  (`scarce`).
- `CarefulServed` by `CareInv`: the commands of a careful client form a path of TAP states,
  each leaving the state in which the next finds a route (`Standing`, `Leaves`), and a scan of
  the chain comes before what reads `devices[0]`. It has no hypothesis, nor has
  `TypeCorrect`.
- `FramingRight` by `SizeInv`, that the size counts the responses that have gathered, fewer
  than the client may be ahead, and `LargeInv`, that a packet with a wrong header
  answers a request whose data do not make a packet (`Oversize`).

Their hypotheses are bounds that the code relies on and does not state. `MaxAhead <= 14`:
the responses to commands that do not send gather, with at most 18 bytes each, in a buffer whose size has
eight bits (`jtagd.cpp:22`). A client that writes fifteen such messages ahead can wrap it: then a
header is wrong although nobody asked for much, or a size of two makes the end of the tick take a full
buffer for an empty one (`jtagd.cpp:478-480`). `MaxTaps <= 10`: READ_CHAIN sends 28 bytes for each device, and nine of
them are the most that fit; the code has `MAX_TAPS` = 8. `Identified`: all devices have an
IDCODE, since step 9 of the probing (`common.cpp:382-394`) reads 32 bits of each, and a device with a
bypass register shifts those of its successors by one. The chains that TLC checks satisfy it.

Only model-checked are:

- the liveness properties and whatever needs ENABLED (`RecvReturns`, `SendEnds`,
  `LeavingNoticed`, `StopEnds`), out of this prover's reach;
- what a torn bit does to rbb, and a part of a command to which a read adds to Xvc: there
  the properties do not hold, as the runs show.

## Not modelled

Command-line parsing, debug output, `state_to_string`, the speed meter and the
opening and configuring of FTDI devices keep no state that a property could
relate to anything. libftdi, the chip, the target and the clients are modelled only as
far as the code relies on them. The data of jtagd's fifo is not followed: what
`jtagd.cpp:184` inserts does not depend on it. Messages that lie about their own
length and fields out of range are left out: what the code does with them is
undefined. `sread` and `swrite` of `xvc.cpp` are never called. The number of
clocks in Run-Test/Idle cannot be told from inside the program:
`usb_blaster_jtag_clock_tck`, which makes none, satisfies JtagAdapter.

## Order of work

Tap, Regions and Bitbang came first (the heart of two servers), then Mpsse (the
default adapter), UsbBlaster, Rbb and the proofs of Bitbang and Mpsse; then Probe and
Jtagd, Xvc with the socket buffer and the divisor, Vpi with the main loop,
JtagAdapter and its two refinements; then the proofs of UsbBlaster, of Mpsse's replies,
of Xvc, Vpi, Rbb and Jtagd. What is left to do: jtagd's `read_socket` with
parts of packets.

# Formal models of the UDP pattern-matching design

This directory holds TLA+ models of the FPGA design in this repository: a 100 GbE
UDP stack on an Alveo card with a user kernel that searches packets for rule
patterns, the kernels and registers that measure it, and the host code that
drives it. Each module names the code it is a translation of; `PROJECT.json`
holds the mapping definition by definition, the hazards at their lines, the runs
and the theorems.

## 1. The system

### Parts, state, operations

| part | code | state it keeps | operations | what makes it correct |
|---|---|---|---|---|
| pattern scanner | `Project_kernels_HLS/src/scanner.cpp`, tables in `patterns.h` | one shift register per byte value and rule group (`history`, static) | `dcam_step_multi` | a position is reported exactly when a pattern of this packet ends there, with the right rule |
| pattern kernel | `Project_kernels_HLS/src/krnl_proj.cpp` | position in the packet (producer), output registers and `count` (collector), two FIFOs | read a beat, write matches and markers; drain, emit, flush, close | every match leaves once, in order, before the closing beat of its packet; the two processes never stall each other |
| data movers | `Basic_kernels/src/krnl_mm2s.cpp`, `krnl_s2mm.cpp` | loop counters | split a buffer into packets of 1408 bytes; store packets | the three kernels and the host count the same packets, and all return |
| packet counters | `Basic_kernels/src/krnl_counters.cpp` | packets, bytes, beats, edge detector | count a beat, reset | the stream is untouched, the counters are exact since the last reset performed |
| traffic generator | `Benchmark_kernel/src/segment_generator.v`, `traffic_generator.v`, `switch_wrapper.v` | main and summary FSM, counters | produce, consume, latency, loopback | all packets once, in order, loaded with their gaps; every packet summarised and one closing summary; every run ends |
| its register file | `Benchmark_kernel/src/axi4lite.v` | control and configuration registers, AXI4-Lite handshakes | read, write, `ap_start`/`ap_done` | the status the host reads is that of the run |
| latency collector | `Benchmark_kernel/src/collector.cpp` | row being filled, row memory | read a summary, move rows | global memory holds each packet's time once, in order |
| network statistics | `NetLayers/src/bandwidth_reg.v`, `performance_debug_reg.v` | byte, packet and cycle counters of a stream | count, latch, reset | what is read belongs together and to the time since the reset |
| network control registers | `NetLayers/src/interface_settings.v` | addresses, AXI4-Lite handshakes | read, write | every write is performed once, on the bytes it names, and reads are atomic |
| CMAC bring-up | `Ethernet/src/rx_sync.v`, `cmac_sync.v`, `cmac_0_axi4_lite_user_if.v` | alignment FSM, register FSM, bus master | enable the receiver, send remote fault, enable the transmitter | the link is up only when both halves are enabled, and comes up |
| frame padding | `Ethernet/src/frame_padding.v` | whether a frame starts | pad short frames | 60 bytes at least, zeros behind the frame's own bytes and nothing else |
| throughput kernel | `Stream_throughput_kernel/rtl`, `frontend.cpp` | four counters, the sample on offer, the samples of a call | configure, count, pack a sample, copy samples | a sample is one stretch of cycles; what a call leaves for the next is what it did not ask for; every call returns |
| RTL example kernel | `Project_kernels_RTL/src` | two register stages | pass a beat | beats leave once, in order, with the bytes TKEEP names |
| host, Python | `Notebooks/vnx_utils.py`, notebooks | shadow of the socket table | configure tables, start kernels, read statistics, decode reports | the numbers agree with the kernels' |
| host, C++ | `xrt_host_api/src`, `include` | the list of sockets | configure, write and read back the socket table; read the ARP table; set addresses | the hardware never sees half an entry; what is read belongs together |
| host examples | `xrt_host_api/examples` | position in the list of interfaces, child processes | poll the link, set the address, ping from a child | they end; no two interfaces get one address |
| rule tables | `Project_kernels_HLS/src/patterns.h` | none | look a rule up | every rule fits the scanner's registers and has one identifier |
| test bench | `Project_kernels_HLS/tb/tb_proj.cpp` | data, streams, parsed events, verdict | send, receive, parse, judge | its verdict says what the data and the scanner say |
| rule-table generators | `scripts/*.py` | none | rule file to C tables | tables the scanner can hold |
| network stack core | a git submodule, not in the tree | - | ARP, ICMP, UDP | - |

### How they interact

The host writes registers over AXI4-Lite and starts kernels; kernels talk to the
network stack and to each other over AXI4-Stream (64-byte beats, `TLAST` at the
end of a packet). In the project configuration `krnl_mm2s` reads a buffer and
sends packets, `krnl_proj` scans them and sends report beats, `krnl_s2mm` stores
these until it has seen the number of packets the host asked for. In the
benchmark configurations the traffic generator sends or echoes packets and hands
one summary per packet to the collector. Probes watch the streams between
network stack and kernels; the host resets them through a register and reads
them at any time.

### What is hard here

Two HLS processes that block on each other's FIFOs; a scanner whose state outlives
a packet and must not; counts that three kernels and the host compute separately
and must agree on; FSMs that hand over with one-cycle pulses; AXI4-Stream
handshakes under back-pressure; a lock signal that arrives cycles late at the
state machine that writes registers; register reads that clear what they read;
statistics reset while they count. The list with lines is under `hazards` in
`PROJECT.json`. Nothing is persisted, so there is no crash recovery in this
system; a kernel that is given up is reset.

## 2. The modules

In the order of the plan; the pattern search, which is what the design is for, comes
first.

| module | models | abstracts |
|---|---|---|
| `Scanner` | `dcam_step_multi` called by `process_and_stream`: one call per step | byte values, rule tables (`Rules`), two bytes per call |
| `RuleTables` | the generated tables of `patterns.h`, with their real contents | which bytes a pattern is made of: a row is identifier, length, highest byte index |
| `RuleLookup` | `find_pattern` and `get_pattern_len`, one group per step, over `RuleTables` | - |
| `PacketReport` | abstract: a report is a set of matches and closed packets | - |
| `PatternKernel` | both processes of the DATAFLOW region, lane FIFOs, output stream; a step is one blocking operation of one process | the scanner's result is any choice of identifiers |
| `ProjectPipeline` | `krnl_mm2s`, `krnl_proj`, `krnl_s2mm` and the host's arithmetic, at the grain of beats | what is in a beat |
| `TestBench` | `run_test` and `main` of the co-simulation: the data of each test; a step sends a beat, scans two bytes (by `Scanner`), reads a match into a register, ends a beat, receives a report beat, parses a slot, or judges | printing, the seeds of the random data, the bytes of an event |
| `CmacBringUp` | alignment, register FSM, bus master, one step per clock edge; the CMAC's register interface is external | reads (never requested), unread LEDs |
| `AxiLite` | the AXI4-Lite slave that three Verilog files share line by line, and any master that keeps to AXI | which registers there are |
| `RegisterMemory` | abstract: a register file with atomic reads and writes | - |
| `InterfaceSettings` | `AxiLite` with the plain registers | number and width of registers |
| `BandwidthProbe` | one probe, one step per clock edge | the population count of TKEEP is a number |
| `NetworkStatistics` | extends `BandwidthProbe` with the reset register and its ten-cycle count: `rst_n` is its `user_rst_n` | a write is its performing edge (the bus is `AxiLite`) |
| `PacketCounters` | `krnl_counters` and the driver's 0, 1, 0 pulse, between a sender and a receiver | - |
| `FrameStages` | the register stages of the RTL kernel with the lanes they keep, and the padding in front of the Ethernet core | TDEST; the network layer between them, which adds headers, passes beats on |
| `StreamThroughput` | the sampler, one step per clock edge, and the front end with the register slice at its input | payload |
| `TrafficGenerator` | both state machines, the stream switch, the registers of `axi4lite.v` with `ap_start`, `ap_done`, `reset_fsm`; host, network and collector external | payload, timestamps, TDEST; the timeout's length |
| `LatencyCollector` | the whole call of `collector` | number of lanes and rows |
| `SocketTable` | `configure_socket` and both `populate_socket_table`: the host's list, and the registers, written one at a time | address strings |
| `ArpTable` | `read_arp_table`, one register per step, while the hardware learns and forgets | a MAC address is its two words |
| `PingFpga` | `ping_fpga` and `test_link`: the loop over the interfaces, its polls, and the child processes as a stack | command line, printing |
| `HostPrograms` | the three above and `RuleLookup` for TLC, each by itself, and `ExamplesReturn` | - |
| `MCProject`, `MCBenchmark`, `MCStreamStages` | what TLC needs beside the modules: those of one configuration in one run, each by itself, chosen in the initial state | - |
| `MCTestBench` | the rules and buffers of the test bench | - |
| `Totals` | the running sums two of the modules count against | - |
| `*Proofs` | the theorems of the module of that name. `ScannerProofs`: of `Scanner` and `TestBench`. `RegisterProofs`: of `InterfaceSettings`, `BandwidthProbe`, `NetworkStatistics`. `HostProofs`: of `SocketTable`, `ArpTable`, `PingFpga`, `RuleLookup`. `StreamProofs`: of `StreamThroughput`, `PacketCounters`, `FrameStages`. `BenchmarkProofs`: of `TrafficGenerator`, `LatencyCollector` | - |

State and actions carry the names of the source: a register `axi_awaddr` is the
variable `axi_awaddr`, the state `PRODUCE_PAYLOAD_HEADER` is that string. In the
Verilog and VHDL modules one action stands for an edge of the clock: every register
takes its next value from the present ones, and the `always` blocks are the operators
conjoined in it. In the HLS modules an action is the code from one blocking stream
operation to the next; in the host modules it is one register access or system call.
Variables commented "for the properties" are not in the code; no action looks at them
to decide anything but a bound.

A definition whose comment starts with "Mutant" is a plausible mistake at the
place of the definition that follows it. It is used by no specification; putting
it in that place makes the run find the property broken that it is listed with.

Composition: `ProjectPipeline` composes three kernels, with `krnl_proj` at the
grain of what `PatternKernel` shows of it (beats of matches and a closing beat
per packet); `PatternKernel` takes from `Scanner` only that a byte position gives
at most one identifier. `TestBench` runs the real `Scanner` under the sequential
schedule of C simulation, with collector, report and parser behind it: the only run
in which rules, packets, slots and parsed events meet. Its steps are steps of `Scanner`
or leave it alone (`ScannerIsPart`), so what is proved of the scanner is used, not
repeated. `RuleLookup` looks at the
tables the scanner is really compiled with and discharges, rule by rule, what
`ScannerAssumption` asks of them (registers long enough at both alignments).
`NetworkStatistics` composes a probe with its reset; `StreamThroughput` the sampler
with its front end; `TrafficGenerator` joins two state machines and the status
registers. The collector's input assumption (summaries, then one closing summary, last) is
what `ClosedOnce` shows of the generator, whatever the collector's `TREADY` does;
how the summaries relate to the packets is `SummaryPerPacket`.
`SocketTable` and `ArpTable` write and read registers one at a time because
`InterfaceSettings` implements a register file that is atomic by the register.

## 3. The runs

Eight pass. The other four are expected to be violated: each checks what a comment or
document of the repository says and the code does not do (section 5). A run with an
`MC` module holds several modules of one configuration that TLC checks each by itself.

| run | question | bounds, and why they are enough |
|---|---|---|
| `testbench` | is the scanner exact and prioritised, and does the test bench say so? | all buffers of 1 to 7 bytes over 3 values and of 8 to 10 over 2, every rule at every place of a buffer of 16, packets of 8, beats of 4, 2 slots: two packets, short last beats, partial and full report beats, registers that hold nothing, garbage that is no rule's or garbage that is an event of a real rule, every reading of the closing beat's TKEEP; 7 overlapping rules in 2 groups, one as long as the registers hold, one that ends in the filling zero, one with the dropped identifier |
| `kernel` | do producer and collector work together? | 2 packets of up to 2 beats of 2 byte pairs, lanes of depth 2 = the byte pairs of a beat (the least the code may have), output beats of 3 slots: full, partial, empty beats and residues over packets all occur |
| `project` | do all kernels agree on the packets and return? is the slave of the network registers a register file? | sizes of 0 to 7 beats, packets of 3 beats, streams of 2 beats, a report buffer that may overflow; one register of two bytes, an unmapped address, bits for values: both proved for all |
| `cmac` | does the link come up, and only when configured? | exact registers and state machines; alignment, reset, delays and refusals free in every cycle |
| `statistics` | do the counters that the probe shows belong together, and does the reset work? | counters modulo 2, beats of 0 or 1 bytes, a reset of 3 cycles (longer than the probe's two stages); proved for all widths and lengths |
| `stages` | do the stages a stream passes keep it? is a throughput sample what it says, and does every call return? | counters: 4 beats, counters modulo 4, contiguous and holed masks, resets at any time. Frames: 3 beats of up to 3 bytes, least frame 2, all contents: a short frame behind a longer one, which leaves bytes in the lanes, occurs in every register. Throughput: counters modulo 4, up to 3 calls that ask for 0, for 1 and for more samples than `MAX_SAMPLES` (2), rates 0 and 2, a slice of one sample, up to 3 cycles from one sample to the next: a sample left over, one that blocks the sampler and one that is repacked all occur |
| `benchmark` | does a run do what the mode promises, and end? is every time stored once, in order? | generator: two runs of 2 packets of 1 or 2 beats, gaps 0 and 2, one run given up, a packet lost, 2 beats under way, a timeout of 4 silent cycles: shorter than a run whose packets wait, longer than one that is answered; every mode follows every mode. Collector: 9 packets through 2 rows of 2 lanes: less than a row, full rows, a full memory twice, a rest |
| `host` | do the host's programs agree with hardware that moves under them? do the real tables fit the scanner? | tables of 2 and 4 entries, lists shorter, equal and longer; 4 calls; 3 changes of ARP entries during the read; 2 interfaces, 5 changes of links, every failure of fork, execve and ping. Rule tables: none, all 22 groups and 2676 rules, every identifier and two that do not exist |
| `pipeline_wrap` | is TLAST at the multiples of 1408 bytes? (no) | packets of 3 beats, products modulo 256, sizes below and above the wrap |
| `reset_edge` | does a rising edge reset the counters? (no) | 3 beats |
| `summary_twice` | is there one summary for a packet? (no) | one latency run of 2 packets of one beat |
| `planted` | is a pattern reported wherever in the packet it was planted? (no) | the rules of `testbench` |

Scaled constants: 32 byte pairs per beat, 1024 FIFO entries, 4 slots, 1408 bytes,
2^32 and 2^64, 16 x 64 memory, `LastCount` 9, 256 ARP entries, 60 of 64 bytes. The
arithmetic is written over the constants as in the code, so the boundaries lie where
the scaled constants put them. Bounds that end a behaviour (`MaxPackets`, `MaxStarts`,
`MaxResets`, `MaxLost`, `MaxBeats`, `MaxSent`, `MaxCalls`, `MaxCycles`, `MaxLearned`,
`MaxFlips`) only limit what the surroundings do. Deadlock is checked in every passing
run but two: in `host`, where programs end, and in `stages`, where front end and sampler
wait for each other for ever after more calls for 0 samples than the slice has room for
(section 5). Elsewhere, where the system may stop, a stuttering step says so.

Every safety and action property in the passing runs is also a theorem (section 4), but
for `RowFits`.

The properties by themselves:

* `DetectsExactlyVisible`, `ReportsPriorityRule`: a position is reported iff an
  occurrence ends there that starts at or after the third byte (the first two bytes
  of a packet are never shifted in by the code: what the model calls *visible*); the
  identifier is that of the last matching rule of the first matching group.
* `EventsParsed`, `FlagsHonest`, `VerdictHonest`: the events that are parsed are the
  matches in their order, what unassigned registers hold adding garbage and hiding none;
  a match is called a false positive only if it is one; a test passes if its rule was
  placed where it can be found (`Deserved`), and if it passes without that, garbage was
  taken for an event of the expected rule (`Misled`). Each is stated with the cases in
  which the test bench really is right; section 5 says what the others are.
* `LookupAgreesWithScanner`, `RowFits`: `find_pattern` finds the scanner's rules and
  no identifier occurs twice; the row found fits registers, tables and event, and the
  filling of the test data is in no rule.
* `NoStall`, `OneBeatAtATime`, `ReportSpec`, `ReportedInOrder`, `Completes`: see the
  comments in `PatternKernel`. `ReportSpec` is the refinement of `PacketReport`.
* `StoredIsPrefix`, `PacketsAgree`, `AllDone`: `krnl_s2mm` stores a prefix of the
  report and drains the rest; at every moment the packets that `krnl_mm2s` has ended are
  those `krnl_proj` has closed and those on their way, and what `krnl_proj` has closed is
  what `krnl_s2mm` has counted and what is on its way; with the last beat they are as
  many as the host computed, for sizes in whole beats whose bits fit `unsigned int`; then
  all kernels return.
* `UpMeansEnabled`, `ComesUp`, `FailureStops`: in `TEST_WAIT` both halves of the
  core are enabled whatever was interrupted; lasting alignment leads there; a
  refused write is the last one until the lock is lost.
* `MemorySpec`, `WritesPerformed`: the refinement of `RegisterMemory`; no write is
  dropped.
* `Snapshot`, `KeptTenCycles`, `ResetEnds`: `debug_slot` is the triple of two
  edges ago (what the host then reads in six words is not latched, section 5); a reset
  lasts its time; the probe comes out of it again.
* `PassesOn`, `CountersExact`, `FramesPadded`: the stream is unchanged; counters equal
  those of the beats since the last reset that was performed, and a reset request that
  meets a beat performs none; frames leave once, in order and
  padded with zeros, never with bytes that a register kept of an earlier frame.
* `ProducedInOrder`, `StatusHonest`: of the traffic generator, see section 1. `GapKept`:
  the beats of two packets are loaded into the output register with their gap; on the
  wire, behind back pressure, they may come closer. `SummaryPerPacket`: no packet that
  was taken is without a summary unless the run has timed out, in the order of the
  packets, and none has more than two, for every behaviour of the collector's `TREADY`.
  `ClosedOnce`: a run that is done has given one closing summary, last. `Completes`:
  every run ends, packets lost or not, but for the run whose end is missed because it
  came while it was sending (`EndMissed`). `AllCollected`: of the collector.
* `NoTornSocket`: an entry that was not valid becomes valid only as a whole.
  `StableRowsExact`: ARP entries that keep still during a read are read exactly, and
  no entry gives two rows. `AddressesDistinct`, `ExamplesReturn`: also when a child
  goes on with its parent's loop.
* `SampleExact`, `LeftOverExact`, `Returns`: of the throughput kernel; a sample is
  exact however often it was packed again while it waited; what is left when a call has
  returned is one sample for each call so far that asked for none, and nothing else; every call
  returns unless these samples no longer fit the slice.

### Fairness

* HLS processes and clocked circuits run whenever they can: weak fairness of each
  process (`Producer`, `Collector`, the kernels of the pipeline) or of the clock.
* `TakeBeat` (the receiver of a stream) is weakly fair: the stream ends in
  `krnl_s2mm`, which drains even when its buffer is full.
* The CMAC takes every request and performs every write in the end: it is a slave
  on a point-to-point bus, and the code has no timeout for it.
* `TrafficGenerator!FairSpec`: network and collector are ready again and again, and the
  network delivers or loses what is under way. The timeout needs no fairness: it is the
  counter of the code, which counts in every cycle of `WAIT_PACKET` without a summary,
  whatever the main state machine does.
* `StreamThroughput!FairSpec`: the traffic that is measured does not stop for ever
  (`Flow`); without it a call waits for its samples for ever, as the code does. The
  front end is a process like the others.
* `MCProject`, `MCBenchmark`, `MCStreamStages`: the fairness of the module that runs, or
  less; `MCProject` asks only that some kernel goes on while one can.
* `HostPrograms!FairSpec`: the example programs are scheduled, and a ping that was
  asked for a number of packets ends (the options the program passes).
* The master of `InterfaceSettings` need not take a response; `WritesPerformed` has
  as its hypothesis that it does so again and again.

## 4. What is proved

All proofs are checked by TLAPS with nothing assumed but the named `ASSUME`s, which
give the constants their kind (naturals, positive where the code divides or
indexes, `None` different from all values) and are evaluated by TLC in the runs, and
the hypotheses that some theorems state, listed below.

* **Scanner** (`HistoryCorrect`, `DetectionExact`, `PriorityExact`): for every
  alphabet, register width, rule set and packet. Inductive invariant `ScanInv`:
  types, packets that hold at least the first pair, and the registers as a function
  of the packet, which is inductive because a call shifts two bytes in and the
  registers forget at the same rate; `OutputOK` ties the output to the registers. The
  priority follows from two lemmas on the loops, one that overwrites (last rule wins)
  and one that does not (first group wins). Detection needs a register that holds
  every pattern at both alignments, which is part of `ScannerAssumption`; the run
  `host` checks it of the generated tables (`RowFits`).
* **TestBench** (`ScannerIsPart`, `EventsParsedAlways`, `FlagsHonestAlways`,
  `VerdictHonestAlways`): for every size of beats, packets, report beats and buffers,
  every rule set without two rules of one identifier and without the background byte,
  every data and whatever the registers nobody assigned hold, real rules' events
  included. `BenchInv` has four parts. `DataInv`: the beats under way carry, one
  behind the other, the bytes of the data and zeros past its end, a packet ends where
  it is full or the data do, and the scanner's packet is the part of the data from the
  start of the packet up to the present call. `MatchInv` turns what the scanner sees of
  its packet into what is in the data (`SeenAt`): every match names the first rule that
  ends there (`SoundInv`), and no place that is scanned and at which one ends is without
  a match (`CompleteInv`). `FlowInv` follows the matches: those in the stream are in
  the order in which they leave (`StreamOK`), every one that waits comes behind all that
  stands in the registers or was reported (`Waits`), a register that is counted holds
  the next to leave (`Holds`), and what was reported is in its turn: only earlier
  matches or garbage stand before it (`InReports`). A flush repeats registers above
  `count`, which are old, so that nothing comes early by it. `CountInv`: the packets
  that ended on the sending side and not yet on the receiving side are in one of the
  streams, a stream that is not empty ends with the end of a packet, and so the loop that
  waits for as many packets as were sent reads the streams to their end. For the
  verdict: a placed pattern occurs at its place only, because the background is in no
  pattern and whole beats leave no filling, and two rules neither of which outranks the
  other are one.
* **RuleLookup** (`LookupCorrect`): for every identifier a caller may ask for, over tables with
  `TablesAgree`: `group_info` counts the rows, and no two rows have one identifier. The
  proof opens nothing else of the tables. While the search goes on no
  group it has left has a row of the identifier; so the row it ends on is the scanner's
  only one, and it ends on none only if the scanner has none. TLC evaluates
  `TablesAgree` of the generated tables (`TablesAssumption`).
* **PatternKernel** (`TypeCorrect`, `StallFree`, `BeatsNotMixed`, `LeaveInOrder`,
  `ImplementsReport`): for every number of packets, beats, slots, identifiers and every
  input stream. `TypeOK` is not inductive by itself: `ControlOK` relates
  the program counters to `count`, `lane` and the packets left. `StallFree` needs
  `LanesOK`, which says of each lane that its elements are in the order of beats,
  between the first beat the collector has not finished there and the one the
  producer is writing, that every beat in between has its marker in the lane, and
  that the present beat has no more elements than byte pairs passed on. Were
  both processes waiting, the lane the collector looks at would be empty, hence
  without a marker, and collector and producer at the same beat of it; the full lane
  would then hold elements of that beat only, fewer than `BeatPairs`, which
  `Depth >= BeatPairs` (1024 >= 32 in the code, the assumption of the theorem)
  excludes. `BeatsNotMixed` adds `BatchOK`: the registers counted hold the current beat.
  `LeaveInOrder` and the refinement of `PacketReport` rest on four more invariants. `InputInv`:
  no packet of the input is longer than `MaxBeats`, read in part or not. `FoundInv`: what
  was found is in a lane, in a counted register or reported, and lies behind the byte
  the producer is at, so that the next match is a new one. `OrderInv`: within a beat a
  lane is in the order of bytes, what the collector has read comes before what it has
  not, and what is reported before what it holds. `PacketInv`: there is a map from beats
  to packets, monotone, that the matches and markers in the lanes and the program counters
  of both processes agree with; the two markers of a beat therefore agree on whether
  the packet ends, and at the closing beat every match still in a lane is of a later
  packet. The map is extended with every beat the producer reads.
* **ProjectPipeline** (`TypeCorrect`, `StoredPrefix`, `PacketsAlwaysAgree`): for every
  size, payload, capacity and depth. `StoredPrefix`: inductive once it says that no
  more is stored than arrived (`PrefixInv`): a beat is stored at the place of its
  number of arrival, and once one did not fit none behind it does. `PacketsAlwaysAgree`:
  the two equations of packets under way are inductive, a beat that is put on or taken
  off a stream changing the number of its packet ends by one at most. For the host's
  count, the beats that end a packet are the multiples below the last beat and the last
  beat itself, because a product of at most `size * 8` bits does not wrap, and a map
  onto an interval counts them.
* **InterfaceSettings** (`SettingsTypeCorrect`, `HandshakeCorrect`,
  `ImplementsMemory`): for any registers, bytes and values. With `aw_en` an accepted
  write is the one whose address was latched, from which each edge maps to one atomic
  read, one write, both, or a stutter of `RegisterMemory`.
* **BandwidthProbe** and **NetworkStatistics** (`SnapshotCorrect`,
  `SnapshotUnderReset`, `StatsTypeCorrect`, `ResetKept`): `PipelineInv` says that the
  registers hold the report of one edge ago, the delayed beat the difference to the
  present one and the probe's clock runs one cycle behind. The composition implements
  the probe, so its theorems carry over. `ResetInv` says that within a reset the count
  is behind the edges since its start. `ResetKept` is stated for a host that never
  writes 0 to the register, as the host library never does.
* **CmacBringUp** (`TypeCorrect`, `EnabledWhenUp`, `NothingAfterFailure`): whether or not
  the core may refuse a write and the receiver may be reset again. `UpMeansEnabled` alone
  says nothing of the states before `TEST_WAIT`; `IInv` adds which of the two sequences
  of writes runs (`SequenceInv`), what the writes acknowledged so far have left in the
  core (`ProgressInv`), that every register on the way to the core holds the write the
  state machine waits for or nothing (`WriteInv`), that outside `AXI_RD_WR` nothing is
  taken by the core (`QuietInv`), and the bus master's handshake (`BusInv`).
* **TrafficGenerator** (`SentInOrder`, `GapIsKept`, `SummaryForEachPacket`,
  `ClosedExactlyOnce`, `StatusIsHonest`): for every number of packets and beats, every
  gap, loss and order of runs. `IInv` says which states of the two machines, modes and
  status registers go together (`StartInv`, `HandOver`, `PlaceInv`), which is enough for
  `StatusHonest`. On it rest `ProducedInv`: what has been loaded is an initial part of
  what is expected, and what is missing is what the counters still have to send;
  `GapInv`: cycles waited and cycles left of a gap make up the gap; and `LatencyInv`:
  between a start and its falling edge nothing is under way, nothing follows the last
  packet on its way, the summaries follow the packets
  without passing one over (`about` says which), the packet that waits is at most the one
  summarised last, and the closing summary is behind them once the run is decided.
  Nothing is assumed of the collector's `TREADY`.
* **LatencyCollector** (`TimesCollected`): for every number of rows, lanes and packets
  and every rate of the two loops. `CollectorInv`: the vectors in global memory, those in
  the local memory and the one being filled follow one another in the stream without
  a gap or an overlap; the time stored for a summary is right although the subtraction
  is of 32 bits and the time stamps are of 40, because 2^32 divides 2^40
  (`SizeAssumption`).
* **SocketTable** (`SocketsNotTorn`): for every size of the table, every set of
  sockets and any calls. Inductive is that the fields already written of the entry a
  call is at are those of the list it writes, that the other entries are as asked, and
  that `valid` is the last field.
* **ArpTable** (`ArpRowsExact`): for every size and any changes by the hardware.
  `ReadPlace` says where in the table the registers read so far belong; `ReadExact`,
  that they are those of the entry if it has not changed since.
* **PingFpga** (`AddressesApart`, `ProgramsAreParts`): for at most two interfaces, as the
  boards have, and two different addresses. A child whose `execve` fails goes on with its
  parent's loop. `PingInv`: the index of every process agrees with its interface or is
  one behind (`Placed`), and when the second interface has the first address or is about
  to be given it (`Borrowed`), the first has none and no process is still at it. With
  three interfaces the property is false: a child and its parent may then give the third
  and the second the same address. `ProgramsAreParts`: the specification TLC runs implies
  those of the three programs, so the theorems hold of it too.
* **StreamThroughput** (`WhatIsLeft`, `SamplesExact`): for every counter width, rate,
  depth of the slice, traffic and front end, and every number of samples asked for.
  `ThroughputInv` counts: what the sampler has still to give and what the slice holds is
  what the front end still waits for and one for each call that asked for none.
  `SampleInv`: the counters are the tally of the cycles since the sample began, and the
  sample on offer that of all of them but the last.
* **PacketCounters** (`BeatsPassOn`, `keep2lenExact`, `CountsExact`): for every width,
  mask and stream. `keep2len` is exact for contiguous masks; the counters are those
  of the beats since the last reset performed, modulo their width (`CountersInv`).
* **FrameStages** (`FramesArePadded`): for every frame, least length and interleaving.
  `FrameInv`: the frames that entered are those that left and one for each full
  register; a register holds its beat in the lanes that are kept; what left is padded as
  wanted; and `new_frame` is set exactly when the last beat that left ended a frame.
  Nothing is said of the other lanes, which keep bytes of earlier frames.

Sums over a stream are recursive functions; that such a function exists is proved where
it is used (a least counterexample, in `StreamProofs`) before it is unfolded.

The hypotheses of theorems, together: at most two interfaces with two different
addresses; the host does not write 0 to the reset register; `Depth >= BeatPairs`. In the
properties themselves: sizes in whole beats whose bits fit `unsigned int`
(`PacketsAgree`, its last line), reports that can be told apart (`Legible`), data of one
packet (`FlagsHonest`). And one assumption on generated data, `TablesAgree`, which TLC
evaluates on all of it.

Only model-checked: all liveness (`Completes`, `AllDone`, `ComesUp`,
`WritesPerformed`, `ResetEnds`, `ExamplesReturn`, `Returns`), which is out of the
prover's reach; what is stated of the contents of the tables (`RowFits`, `TablesAgree`), where TLC looks at
every row there is.

## 5. Met while modelling

Where the code does something its documents or a reader would not expect. The model has
it as the code does. Four of these contradict a sentence of the repository; each is a
finding with a run that shows it (named in brackets).

The search:

* `scanner.cpp:73`: the call that carries the reset clears the registers and does not
  shift its own two bytes in, so a pattern that starts in the first two bytes of a
  packet is not found (`VisibleAt`), while the notebook plants patterns from offset 0 on and
  expects all of them, `vnx-basic.ipynb:391`, `:491` (run `planted`).
* 85 of the 2676 rules are never reported: a rule of higher priority is a suffix of
  them (`scanner.cpp:39`, last rule of the first group).
* `krnl_proj` looks at all 64 bytes of a beat whatever TKEEP says, so the filling of
  a short last beat is scanned; `end_pkt.keep` of the closing beat is never assigned
  (line 142): how many of its bytes a receiver stores is open, and one that stores a
  part of an event shifts all that follow (`Legible` in `EventsParsed` and
  `VerdictHonest`: no such closing beat, or only one packet).
* `krnl_proj.cpp:132` flushes all four registers; the slots above `count` are stale or
  never assigned (line 71) and may read as an event of any rule, so that a test can pass
  on one (`Misled`), while `vnx-basic.ipynb:450` takes every non-zero slot for a match.
* `krnl_mm2s.cpp:78`: `(i + 1) * DWIDTH` is a 32-bit product; from beat 2^23 (512 MiB)
  on `TLAST` falls at other offsets than the comment in line 76 says and the host
  counts (run `pipeline_wrap`).
* `vnx-basic.ipynb:300` sizes the report buffer with two report beats per input beat, and
  `vnx-benchmark-project.ipynb:145` takes 8 MiB whatever the input; the kernel may write
  sixteen per input beat, and `krnl_s2mm` drops the rest, the closing beat included.
  `size_out` follows the first; `StoredIsPrefix` is the same for any size.
* `tb_proj.cpp`: `verify_pattern_in_data` takes `byte_index` for an offset in the data
  while it counts within a packet, so matches of later packets are called false
  positives (the hypothesis of `FlagsHonest`); `parse_events` drops identifier 238
  (0xEE), which is a rule's; an expected event found at a wrong position only prints a
  warning and the test passes (line 419), so `VerdictHonest` speaks of verdict and
  position separately.

Measuring:

* `krnl_counters.cpp:86`: a rising edge of `reset` in a call that finds a beat resets
  nothing, and is used up, against line 38 and `vnx_utils.py:902` (run `reset_edge`).
* `segment_generator.v:339` and `:116`: a header is summarised when the summary
  register is free but taken from the network only when the collector is ready; one that
  meets a free register and a collector that is not (its FIFO is full, or it has not been
  started) gets a summary twice, against `Benchmark_kernel/README.md:79` (run
  `summary_twice`). Never more than twice: the register is then full.
* `segment_generator.v:336`, `:352`: the timeout counts while the main state machine is still
  sending. If it then ends the summary machine, the one-cycle `summary_done` is missed and
  the run does not end (`EndMissed` in `Completes`).
* `axi4lite.v:478`: a read of the status in the cycle of `ap_done` clears the held
  copy as it is set, so a polling host misses the end.
* `segment_generator.v:107`: TDEST is not latched with the rest of the configuration;
  `:173`: a loopback run that starts while a beat waits switches the stream under it.
* `axi4lite.v:253`: `reset_fsm` is not cleared by itself, against the README of the
  kernel.
* `performance_debug_reg.v:328`: a written 0 cancels a reset and leaves its count
  (with `"zero"` in `HostWrites` TLC finds `KeptTenCycles` violated); `:406`: a 64-bit
  counter is read in two halves while it counts.
* `interface_settings.v:379`: `axi_arready` does not look at `axi_rvalid`, so a second
  read that is accepted before the first is answered would take its place; an AXI
  master of the design does not do that.
* `stream_throughput.sv:92`: asked for 0 samples, the sampler still gives one, and the
  next call finds it (`LeftOverExact`); `frontend.cpp:23` passes 0 on. With more such
  calls than the slice has room for, front end and sampler wait for each other. Two
  cycles fall between consecutive samples: the one in which a sample is packed and
  the one in which it is taken.

The host:

* `networklayer.cpp:188`: `populate_socket_table` indexes its list with every entry of
  the hardware, also past the end of a shorter list; `:107`: `read_arp_table(255)`
  leaves entry 255 out; the valid bits of four entries are read once and used for up to
  nine further reads.
* `vnx_utils.py:537`: `invalidate_arp_table` clears 64 of the 256 entries.
* `cmac.cpp:87`: `packets_bad_fcs` reads the register of `bad_fcs` (line 86).
* `ping_fpga.cpp:225`: a child whose `execve` fails goes on with its parent's loop; a
  ping that is killed counts as success; an interface without a link shifts the
  addresses of those behind it.

## 6. What is not modelled, and why

* The network stack core: not in the tree. The stream switch: generated by a vendor
  tool. `networklayer.v`, `axi4stream_constant.v`, `axi4stream_sinker.v`,
  `stream_throughput_top.v`: wiring.
* `number_packets = 0` and `num_beats = 0`: the counters never match; the host is
  assumed not to ask for them (`ConfigAssumption`).
* Buffer sizes that are no multiple of 64 bytes: the notebooks pass none.
* Reset inputs of the AXI slaves and stream stages: they are asserted before `Init`
  only.
* Second reads and 64-bit reads of the register banks (see section 5): the master of
  `AxiLite` has one read under way.
* The Python library, as far as it does what the C++ library does with the same
  registers; reads of counters and link status, which keep no state; the address
  arithmetic of `mac.cpp`; notebooks' plotting; the generators of the rule tables,
  whose output is checked instead (`RuleTables`).
* The bits of a rule's mask: `RuleTables` keeps what the tables must agree on, and the
  matching itself is proved in `Scanner` for all rules.

## 7. What could follow

1. `TrafficGenerator` with `LatencyCollector` and the stream between them as one
   system, with the summaries of a packet summarised twice in the stored times.
2. The status registers as the polling host sees them over the bus (`AxiLite` in front of
   `TrafficGenerator`), once there is a promise about a poll in the cycle of `ap_done`.

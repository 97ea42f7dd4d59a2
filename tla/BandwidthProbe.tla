-------------------------- MODULE BandwidthProbe --------------------------
(***************************************************************************)
(* bandwidth_reg.v: a probe on an AXI4-Stream that counts bytes, packets   *)
(* and the cycles from the first to the last beat, behind one stage of     *)
(* registers and with the result, debug_slot, one cycle later still.  A    *)
(* step is a clock edge; the stream and user_rst_n are inputs, free in     *)
(* every cycle here; NetworkStatistics adds where user_rst_n comes from.   *)
(***************************************************************************)
EXTENDS Integers

CONSTANTS
  Counts,   \* 2^64: the number of values of a counter
  Keep      \* the numbers of bytes a beat may have (64 at most)

ASSUME CountsAssumption == Counts \in Nat \ {0}
ASSUME KeepAssumption == Keep \subseteq Nat

VARIABLES
  \* inputs
  tvalid, tready, tlast, ones, rst_n,
  \* registers
  tvalid_1d, tready_1d, tlast_1d, number_of_ones_1d,
  time_counter, active_counter, byte_counter, pkt_counter,
  latched_time,    \* {time_counter_msb, time_counter_lsb}
  debug_slot,
  \* for the properties
  seen             \* what the probe should report, now and one and two edges ago

inputs    == <<tvalid, tready, tlast, ones, rst_n>>
registers == <<tvalid_1d, tready_1d, tlast_1d, number_of_ones_1d, time_counter,
               active_counter, byte_counter, pkt_counter, latched_time, debug_slot>>
vars == <<inputs, registers, seen>>

Counter == 0 .. Counts - 1

\* Mutant: the counters are a value too wide.
PlusTooWide(a, b) == (a + b) % (Counts + 1)

Plus(a, b) == (a + b) % Counts

Nothing == [time |-> 0, bytes |-> 0, packets |-> 0]

AnyInput ==
  /\ tvalid' \in BOOLEAN /\ tready' \in BOOLEAN /\ tlast' \in BOOLEAN
  /\ ones' \in Keep /\ rst_n' \in BOOLEAN

Init ==
  /\ tvalid = FALSE /\ tready = FALSE /\ tlast = FALSE /\ ones \in Keep /\ rst_n = TRUE
  /\ tvalid_1d = FALSE /\ tready_1d = FALSE /\ tlast_1d = FALSE
  /\ number_of_ones_1d = 0
  /\ time_counter = 0 /\ active_counter = FALSE
  /\ byte_counter = 0 /\ pkt_counter = 0 /\ latched_time = 0
  /\ debug_slot = Nothing
  /\ seen = [active |-> FALSE, clock |-> 0,
             report |-> [d \in 0 .. 2 |-> Nothing]]

----------------------------------------------------------------------------
Transfer == tvalid /\ tready
Transfer_1d == tvalid_1d /\ tready_1d

Cleared ==
  /\ byte_counter' = 0 /\ time_counter' = 0 /\ active_counter' = FALSE
  /\ pkt_counter' = 0
  /\ tvalid_1d' = FALSE /\ tready_1d' = FALSE /\ tlast_1d' = FALSE
  /\ number_of_ones_1d' = 0 /\ latched_time' = 0

\* Mutant: the time runs from the reset on, not from the first beat.
CountTimeAlways == time_counter' = Plus(time_counter, 1)

CountTime ==
  time_counter' = IF active_counter THEN Plus(time_counter, 1) ELSE time_counter

\* Mutant: the bytes are those of the beat on the bus, not of the delayed one.
CountBeatEarly ==
  /\ byte_counter' = IF Transfer_1d THEN Plus(byte_counter, ones) ELSE byte_counter
  /\ latched_time' = IF Transfer_1d THEN Plus(time_counter, 1) ELSE latched_time
  /\ pkt_counter' = IF Transfer_1d /\ tlast_1d THEN Plus(pkt_counter, 1)
                    ELSE pkt_counter

CountBeat ==
  /\ byte_counter' = IF Transfer_1d THEN Plus(byte_counter, number_of_ones_1d)
                     ELSE byte_counter
  /\ latched_time' = IF Transfer_1d THEN Plus(time_counter, 1) ELSE latched_time
  /\ pkt_counter' = IF Transfer_1d /\ tlast_1d THEN Plus(pkt_counter, 1)
                    ELSE pkt_counter

Count ==
  /\ CountTime /\ CountBeat
  /\ active_counter' = (active_counter \/ Transfer)
  /\ tvalid_1d' = tvalid /\ tready_1d' = tready /\ tlast_1d' = tlast
  /\ number_of_ones_1d' = ones

Latch ==
  debug_slot' = [time |-> latched_time, bytes |-> byte_counter,
                 packets |-> pkt_counter]

----------------------------------------------------------------------------
(***************************************************************************)
(* What should be reported: every beat transferred since the reset, with   *)
(* the cycles counted from the first of them on, itself included.          *)
(***************************************************************************)
See ==
  LET now == seen.report[0]
      clock == IF seen.active \/ Transfer THEN Plus(seen.clock, 1) ELSE seen.clock
      next == IF ~rst_n THEN Nothing
              ELSE IF Transfer
              THEN [time |-> clock, bytes |-> Plus(now.bytes, ones),
                    packets |-> IF tlast THEN Plus(now.packets, 1) ELSE now.packets]
              ELSE now
  IN  seen' = [active |-> rst_n /\ (seen.active \/ Transfer),
               clock  |-> IF rst_n THEN clock ELSE 0,
               report |-> [d \in 0 .. 2 |->
                             IF d = 0 THEN next
                             ELSE IF d = 1 /\ ~rst_n THEN Nothing
                             ELSE seen.report[d - 1]]]

Clock ==
  /\ AnyInput
  /\ IF rst_n THEN Count ELSE Cleared
  /\ Latch
  /\ See

Next == Clock

Spec == Init /\ [][Next]_vars

----------------------------------------------------------------------------
\* The counters keep to their range and the flags are Booleans.
TypeOK ==
  /\ {tvalid, tready, tlast, rst_n, tvalid_1d, tready_1d, tlast_1d,
      active_counter} \subseteq BOOLEAN
  /\ ones \in Keep /\ number_of_ones_1d \in Keep \cup {0}
  /\ {time_counter, byte_counter, pkt_counter, latched_time} \subseteq Counter
  /\ debug_slot \in [time : Counter, bytes : Counter, packets : Counter]

\* Why it is: the registers hold what should have been reported an edge ago, the
\* delayed beat is the difference to what should be reported now, and the clock
\* of the probe runs one cycle behind.
PipelineInv ==
  /\ seen.active = active_counter
  /\ active_counter => seen.clock = Plus(time_counter, 1)
  /\ ~active_counter => seen.clock = 0 /\ time_counter = 0
  /\ Transfer_1d => active_counter
  /\ seen.report[1] = [time |-> latched_time, bytes |-> byte_counter,
                       packets |-> pkt_counter]
  /\ seen.report[0] =
       [time    |-> IF Transfer_1d THEN seen.clock ELSE latched_time,
        bytes   |-> IF Transfer_1d THEN Plus(byte_counter, number_of_ones_1d)
                                   ELSE byte_counter,
        packets |-> IF Transfer_1d /\ tlast_1d THEN Plus(pkt_counter, 1)
                                               ELSE pkt_counter]

\* debug_slot is a consistent snapshot: bytes, packets and cycles all are those
\* of the beats transferred up to two edges ago, since the last reset, and
\* nothing of a beat from before the reset.
Snapshot == debug_slot = seen.report[2]
=============================================================================

------------------------- MODULE NetworkStatistics -------------------------
(***************************************************************************)
(* A probe and the register that resets it.  performance_debug_reg.v: the  *)
(* host writes 1 to the register at 0x1F0, which holds the probes in reset *)
(* for ten cycles, and reads what they have counted.  The write channel is *)
(* that of AxiLite; only the cycle in which a write is performed           *)
(* (slv_reg_wren) matters here, and two are never adjacent, since          *)
(* axi_awready falls in between.  user_rst_n is the rst_n of the probe.    *)
(* A step is a clock edge of both.                                         *)
(***************************************************************************)
EXTENDS BandwidthProbe

CONSTANTS
  LastCount,    \* 9 in the code: the count at which a reset ends
  HostWrites    \* what the host may write, see Writes

Writes == {"one", "zero",   \* to the reset register, its bit 0
           "other"}         \* to any other address, or without a strobe

ASSUME LastCountAssumption == LastCount \in Nat
ASSUME HostWritesAssumption == HostWrites \subseteq Writes

VARIABLES
  write,            \* the write performed at this edge, or "none"
  slv_reg_reset,    \* slv_reg_reset[0]
  rst_counter,
  slv_reg_reset_1d,
  held              \* for the properties: edges since slv_reg_reset was set

resetVars == <<write, slv_reg_reset, rst_counter, slv_reg_reset_1d>>
statsVars == <<vars, resetVars, held>>

\* slv_reg_wren of performance_debug_reg.v.
reset_wren == write # "none"

StatsInit ==
  /\ Init
  /\ write = "none" /\ slv_reg_reset = FALSE /\ rst_counter = 0
  /\ slv_reg_reset_1d = TRUE
  /\ held = 0

----------------------------------------------------------------------------
Host == write' \in IF reset_wren THEN {"none"} ELSE HostWrites \cup {"none"}

\* Mutant: every write restarts the count.
CountOnWriteRestart == rst_counter' = 0

CountOnWrite == UNCHANGED rst_counter

CountOver == rst_counter = LastCount

\* Mutant: the count is not cleared when it ends.
NextCountKept == IF CountOver THEN rst_counter ELSE rst_counter + 1

NextCount == IF CountOver THEN 0 ELSE rst_counter + 1

ResetRegister ==
  IF reset_wren
  THEN /\ slv_reg_reset' = IF write = "other" THEN slv_reg_reset ELSE write = "one"
       /\ CountOnWrite
  ELSE /\ rst_counter' = IF slv_reg_reset THEN NextCount ELSE rst_counter
       /\ slv_reg_reset' = (slv_reg_reset /\ ~CountOver)

ResetPipeline ==
  /\ slv_reg_reset_1d' = ~slv_reg_reset
  /\ rst_n' = slv_reg_reset_1d

Held ==
  held' = IF ~slv_reg_reset' THEN 0
          ELSE IF held <= LastCount THEN held + 1 ELSE held

Edge ==
  /\ Host /\ ResetRegister /\ ResetPipeline /\ Held
  /\ Clock

StatsNext == Edge

StatsSpec == StatsInit /\ [][StatsNext]_statsVars

\* The clock runs.
StatsFairSpec == StatsSpec /\ WF_statsVars(Edge)

----------------------------------------------------------------------------
\* The probe's registers and those of the reset keep their ranges.
StatsTypeOK ==
  /\ TypeOK
  /\ write \in HostWrites \cup {"none"}
  /\ slv_reg_reset \in BOOLEAN /\ slv_reg_reset_1d \in BOOLEAN
  /\ rst_counter \in 0 .. LastCount
  /\ held \in 0 .. LastCount + 1

\* A reset that ends by itself has been kept for LastCount + 1 cycles, whatever
\* was written in between.
KeptTenCycles ==
  [][slv_reg_reset /\ ~slv_reg_reset' /\ ~reset_wren => held = LastCount + 1]_statsVars

\* The probe always comes out of reset again, however often the host asks for it.
ResetEnds == []<>rst_n
=============================================================================

---------------------------- MODULE CmacBringUp ----------------------------
(***************************************************************************)
(* Bringing up the 100G Ethernet core.  Two state machines in one clock    *)
(* domain: rx_sync follows the alignment of the receiver and raises        *)
(* rx_gt_locked_led, which reaches cmac_0_axi4_lite_user_if through a chain*)
(* of registers as gt_locked_sync; the latter enables the receiver, sends  *)
(* "remote fault", waits for alignment and enables the transmitter, through*)
(* the bus master cmac_0_axi4_lite_rd_wr_if.                               *)
(*                                                                         *)
(* A step of the specification is a clock edge: every register takes its   *)
(* next value from the present ones.  The core's register interface is     *)
(* external: it takes an address and a datum, in any order and after any   *)
(* delay, performs the write and answers.                                  *)
(* Left out: the read half (axi_rd_req is never set), LEDs nobody reads.   *)
(***************************************************************************)
EXTENDS Integers

CONSTANTS
  None,        \* a channel without a valid request
  MayFail,     \* whether the core may answer a write with an error
  MayReset     \* whether usr_rx_reset may come again

ASSUME NoneAssumption ==
  None \notin {"RX_REG1", "TX_REG1", "ctl_rx_enable", "ctl_tx_send_rfi",
               "ctl_tx_enable", "reset"}

VARIABLES
  \* inputs, after their synchronisers
  aligned,       \* cmac_aligned_sync
  usr_rx_reset,  \* usr_rx_reset_synq
  \* rx_sync
  reset_done, stat_rx_aligned_1d, rx_prestate,
  gt_lock_led,   \* gt_lock_led and its delays _1d, _2d, _3d
  rx_gt_locked_led,
  \* cmac_0_axi4_lite_user_if
  axi_user_prestate, rd_wr_cntr,
  axi_wr_req,
  axi_wr_addr,   \* the address, or None when axi_wr_addr_valid is low
  axi_wr_data,   \* the datum, or None when axi_wr_data_valid is low
  init_rx_aligned, init_data_sanity,
  \* cmac_0_axi4_lite_rd_wr_if
  pstate,
  axi_awaddr,    \* axi_awaddr_r, or None when axi_awvalid_r is low
  axi_wdata,     \* axi_wdata_r, or None when axi_wvalid_r is low
  axi_bready, usr_wrack, usr_wrerr,
  \* the core
  core           \* its side of the bus and its two registers

rxVars   == <<reset_done, stat_rx_aligned_1d, rx_prestate, gt_lock_led,
              rx_gt_locked_led>>
userVars == <<axi_user_prestate, rd_wr_cntr, axi_wr_req, axi_wr_addr,
              axi_wr_data, init_rx_aligned, init_data_sanity>>
busVars  == <<pstate, axi_awaddr, axi_wdata, axi_bready, usr_wrack, usr_wrerr>>
vars == <<aligned, usr_rx_reset, rxVars, userVars, busVars, core>>

gt_locked_sync == rx_gt_locked_led

----------------------------------------------------------------------------
\* After sys_reset, with the receiver in reset.
Init ==
  /\ aligned = FALSE /\ usr_rx_reset = TRUE
  /\ reset_done = FALSE /\ stat_rx_aligned_1d = FALSE
  /\ rx_prestate = "RX_IDLE"
  /\ gt_lock_led = [d \in 0 .. 3 |-> FALSE] /\ rx_gt_locked_led = FALSE
  /\ axi_user_prestate = "AXI_IDLE" /\ rd_wr_cntr = 0 /\ axi_wr_req = FALSE
  /\ axi_wr_addr = None /\ axi_wr_data = None
  /\ init_rx_aligned = FALSE /\ init_data_sanity = FALSE
  /\ pstate = "IDLE" /\ axi_awaddr = None /\ axi_wdata = None
  /\ axi_bready = FALSE /\ usr_wrack = FALSE /\ usr_wrerr = FALSE
  /\ core = [awready |-> FALSE, wready |-> FALSE, addr |-> None, data |-> None,
             bvalid |-> FALSE, bresp |-> "okay",
             reg |-> [a \in {"RX_REG1", "TX_REG1"} |-> "reset"]]

----------------------------------------------------------------------------
(***************************************************************************)
(* rx_sync                                                                 *)
(***************************************************************************)
RxNextState ==
  CASE rx_prestate = "RX_IDLE" ->
         IF reset_done THEN "GT_LOCKED" ELSE "RX_IDLE"
    [] rx_prestate = "GT_LOCKED" -> "WAIT_RX_ALIGNED"
    [] rx_prestate = "WAIT_RX_ALIGNED" ->
         IF stat_rx_aligned_1d THEN "PKT_TRANSFER_INIT" ELSE "WAIT_RX_ALIGNED"
    [] rx_prestate \in {"PKT_TRANSFER_INIT", "LBUS_RX_ENABLE"} ->
         IF stat_rx_aligned_1d THEN "LBUS_RX_ENABLE" ELSE "RX_IDLE"

GtLed ==
  CASE rx_prestate = "RX_IDLE"   -> FALSE
    [] rx_prestate = "GT_LOCKED" -> TRUE
    [] OTHER                     -> gt_lock_led[0]

RxSync ==
  /\ reset_done' = ~usr_rx_reset
  /\ stat_rx_aligned_1d' = (aligned /\ ~usr_rx_reset)
  /\ rx_prestate' = IF usr_rx_reset THEN "RX_IDLE" ELSE RxNextState
  /\ gt_lock_led' = [d \in 0 .. 3 |->
                       /\ ~usr_rx_reset
                       /\ IF d = 0 THEN GtLed ELSE gt_lock_led[d - 1]]
  /\ rx_gt_locked_led' = gt_lock_led[3]

----------------------------------------------------------------------------
(***************************************************************************)
(* cmac_0_axi4_lite_user_if                                                *)
(***************************************************************************)
NoRequest ==
  axi_wr_req' = FALSE /\ axi_wr_addr' = None /\ axi_wr_data' = None

Request(addr, data) ==
  axi_wr_req' = TRUE /\ axi_wr_addr' = addr /\ axi_wr_data' = data

GoTo(s) == axi_user_prestate' = s

Restarted == rd_wr_cntr' = 0 /\ init_rx_aligned' = FALSE /\ init_data_sanity' = FALSE

UserIdle ==
  /\ axi_user_prestate = "AXI_IDLE"
  /\ NoRequest /\ Restarted
  /\ GoTo(IF gt_locked_sync THEN "GT_LOCKED" ELSE "AXI_IDLE")

UserLocked ==
  /\ axi_user_prestate = "GT_LOCKED"
  /\ NoRequest /\ Restarted
  /\ GoTo(IF gt_locked_sync THEN "INIT_RX_ALIGNED" ELSE "AXI_IDLE")

\* Two writes, one per visit: enable the receiver, send remote fault.
UserInitRx ==
  /\ axi_user_prestate = "INIT_RX_ALIGNED"
  /\ init_rx_aligned' = TRUE
  /\ CASE rd_wr_cntr = 0 -> Request("RX_REG1", "ctl_rx_enable")
       [] rd_wr_cntr = 1 -> Request("TX_REG1", "ctl_tx_send_rfi")
       [] OTHER          -> NoRequest
  /\ GoTo(IF ~gt_locked_sync THEN "AXI_IDLE"
          ELSE IF rd_wr_cntr = 2 THEN "WAIT_RX_ALIGNED" ELSE "AXI_RD_WR")
  /\ UNCHANGED <<rd_wr_cntr, init_data_sanity>>

\* Mutant: the answer of the bus is not waited for.
UserReadWriteNoAck ==
  /\ axi_user_prestate = "AXI_RD_WR"
  /\ IF core.awready THEN axi_wr_addr' = None /\ axi_wr_req' = FALSE
                     ELSE UNCHANGED <<axi_wr_addr, axi_wr_req>>
  /\ axi_wr_data' = IF core.wready THEN None ELSE axi_wr_data
  /\ rd_wr_cntr' = rd_wr_cntr + 1
  /\ GoTo(IF init_rx_aligned THEN "INIT_RX_ALIGNED" ELSE "INIT_PKT_TRANSFER")
  /\ UNCHANGED <<init_rx_aligned, init_data_sanity>>

\* Withdraw what the core has taken, wait for the answer.
UserReadWrite ==
  /\ axi_user_prestate = "AXI_RD_WR"
  /\ IF core.awready THEN axi_wr_addr' = None /\ axi_wr_req' = FALSE
                     ELSE UNCHANGED <<axi_wr_addr, axi_wr_req>>
  /\ axi_wr_data' = IF core.wready THEN None ELSE axi_wr_data
  /\ rd_wr_cntr' = IF usr_wrack /\ ~usr_wrerr THEN rd_wr_cntr + 1 ELSE rd_wr_cntr
  /\ GoTo(IF ~usr_wrack       THEN "AXI_RD_WR"
     ELSE IF usr_wrerr        THEN "INVALID_AXI_RD_WR"
     ELSE IF init_rx_aligned  THEN "INIT_RX_ALIGNED"
     ELSE IF init_data_sanity THEN "INIT_PKT_TRANSFER" ELSE "AXI_RD_WR")
  /\ UNCHANGED <<init_rx_aligned, init_data_sanity>>

\* Mutant: the flag that tells the two sequences of writes apart stays set.
UserWaitRxKeepFlag ==
  /\ axi_user_prestate = "WAIT_RX_ALIGNED"
  /\ NoRequest
  /\ rd_wr_cntr' = 0 /\ UNCHANGED <<init_rx_aligned, init_data_sanity>>
  /\ GoTo(IF ~gt_locked_sync THEN "AXI_IDLE"
          ELSE IF aligned THEN "INIT_PKT_TRANSFER" ELSE "WAIT_RX_ALIGNED")

UserWaitRx ==
  /\ axi_user_prestate = "WAIT_RX_ALIGNED"
  /\ NoRequest /\ Restarted
  /\ GoTo(IF ~gt_locked_sync THEN "AXI_IDLE"
          ELSE IF aligned THEN "INIT_PKT_TRANSFER" ELSE "WAIT_RX_ALIGNED")

\* One write: enable the transmitter, no remote fault.
UserInitTransfer ==
  /\ axi_user_prestate = "INIT_PKT_TRANSFER"
  /\ init_data_sanity' = TRUE
  /\ IF rd_wr_cntr = 0 THEN Request("TX_REG1", "ctl_tx_enable") ELSE NoRequest
  /\ GoTo(IF ~gt_locked_sync \/ ~aligned THEN "AXI_IDLE"
          ELSE IF rd_wr_cntr = 1 THEN "TEST_WAIT" ELSE "AXI_RD_WR")
  /\ UNCHANGED <<rd_wr_cntr, init_rx_aligned>>

UserTestWait ==
  /\ axi_user_prestate = "TEST_WAIT"
  /\ NoRequest /\ Restarted
  /\ GoTo(IF gt_locked_sync /\ aligned THEN "TEST_WAIT" ELSE "AXI_IDLE")

UserInvalid ==
  /\ axi_user_prestate = "INVALID_AXI_RD_WR"
  /\ NoRequest /\ Restarted
  /\ GoTo(IF gt_locked_sync THEN "INVALID_AXI_RD_WR" ELSE "AXI_IDLE")

UserIf ==
  \/ UserIdle \/ UserLocked \/ UserInitRx \/ UserReadWrite \/ UserWaitRx
  \/ UserInitTransfer \/ UserTestWait \/ UserInvalid

----------------------------------------------------------------------------
(***************************************************************************)
(* cmac_0_axi4_lite_rd_wr_if                                               *)
(***************************************************************************)
BusReady == axi_bready' = (~axi_bready /\ core.bvalid)

\* The channels follow the request registers.
Follow == axi_awaddr' = axi_wr_addr /\ axi_wdata' = axi_wr_data

BusIdle ==
  /\ pstate = "IDLE"
  /\ IF axi_wr_req
     THEN pstate' = "WRITE" /\ Follow /\ UNCHANGED <<usr_wrack, usr_wrerr>>
     ELSE /\ pstate' = "IDLE" /\ axi_awaddr' = None /\ axi_wdata' = None
          /\ usr_wrack' = FALSE /\ usr_wrerr' = FALSE

\* Mutant: the answer is taken from the data channel.
BusWriteEarlyAck ==
  /\ pstate = "WRITE"
  /\ IF core.wready
     THEN /\ pstate' = "ACK" /\ usr_wrack' = TRUE
          /\ usr_wrerr' = (core.bresp = "slverr")
          /\ UNCHANGED <<axi_awaddr, axi_wdata>>
     ELSE pstate' = "WRITE" /\ Follow /\ UNCHANGED <<usr_wrack, usr_wrerr>>

BusWrite ==
  /\ pstate = "WRITE"
  /\ IF core.bvalid /\ axi_bready
     THEN /\ pstate' = "ACK" /\ usr_wrack' = TRUE
          /\ usr_wrerr' = (core.bresp = "slverr")
          /\ UNCHANGED <<axi_awaddr, axi_wdata>>
     ELSE pstate' = "WRITE" /\ Follow /\ UNCHANGED <<usr_wrack, usr_wrerr>>

BusAck ==
  /\ pstate = "ACK"
  /\ pstate' = "IDLE" /\ usr_wrack' = FALSE /\ usr_wrerr' = FALSE
  /\ UNCHANGED <<axi_awaddr, axi_wdata>>

RdWrIf == BusReady /\ (BusIdle \/ BusWrite \/ BusAck)

----------------------------------------------------------------------------
(***************************************************************************)
(* The core's register interface: each ready is a pulse that answers a     *)
(* valid; the write is performed when address and datum have been taken.   *)
(***************************************************************************)
TakesAddr == core.awready /\ axi_awaddr # None
TakesData == core.wready /\ axi_wdata # None

MayTakeAddr ==
  axi_awaddr # None /\ ~core.awready /\ core.addr = None
MayTakeData ==
  axi_wdata # None /\ ~core.wready /\ core.data = None

Performs(resp) ==
  /\ core.addr # None /\ core.data # None /\ ~core.bvalid
  /\ core' = [core EXCEPT !.bvalid = TRUE, !.bresp = resp,
                          !.awready = FALSE, !.wready = FALSE,
                          !.reg[core.addr] = IF resp = "okay" THEN core.data ELSE @]

Answered ==
  /\ core.bvalid /\ axi_bready
  /\ core' = [core EXCEPT !.bvalid = FALSE, !.addr = None, !.data = None,
                          !.awready = FALSE, !.wready = FALSE]

Handshake ==
  /\ ~(core.bvalid /\ axi_bready)
  /\ \E ar \in IF MayTakeAddr THEN BOOLEAN ELSE {FALSE},
        wr \in IF MayTakeData THEN BOOLEAN ELSE {FALSE} :
       core' = [core EXCEPT !.awready = ar, !.wready = wr,
                            !.addr = IF TakesAddr THEN axi_awaddr ELSE @,
                            !.data = IF TakesData THEN axi_wdata ELSE @]

Core ==
  \/ Performs("okay")
  \/ MayFail /\ Performs("slverr")
  \/ Answered
  \/ Handshake

----------------------------------------------------------------------------
Inputs ==
  /\ aligned' \in BOOLEAN
  /\ usr_rx_reset' \in IF MayReset \/ usr_rx_reset THEN BOOLEAN ELSE {FALSE}

Clock == Inputs /\ RxSync /\ UserIf /\ RdWrIf /\ Core

Next == Clock

Spec == Init /\ [][Next]_vars

\* The clock runs, and the core takes every request and performs every write in
\* the end.
FairSpec ==
  /\ Spec
  /\ WF_vars(Clock)
  /\ WF_vars(Clock /\ core'.awready)
  /\ WF_vars(Clock /\ core'.wready)
  /\ WF_vars(Clock /\ core'.bvalid /\ ~core.bvalid)

----------------------------------------------------------------------------
Addr == {"RX_REG1", "TX_REG1"}
Data == {"ctl_rx_enable", "ctl_tx_send_rfi", "ctl_tx_enable"}

\* Once the link is declared up both halves of the core are enabled, whatever
\* restarts, glitches of the lock signal and stale answers came before.
UpMeansEnabled ==
  axi_user_prestate = "TEST_WAIT" =>
    core.reg["RX_REG1"] = "ctl_rx_enable" /\ core.reg["TX_REG1"] = "ctl_tx_enable"

\* With the receiver aligned for good, and no refusal left to recover from, the
\* link comes up and stays up.
ComesUp ==
  <>[](aligned /\ ~usr_rx_reset /\ axi_user_prestate # "INVALID_AXI_RD_WR") =>
    <>[](axi_user_prestate = "TEST_WAIT")

\* When a write has been refused nothing more is written until the lock is lost:
\* no request is left on its way when the state machine gives up.
FailureStops ==
  [][axi_user_prestate = "INVALID_AXI_RD_WR" => core'.reg = core.reg]_vars
=============================================================================

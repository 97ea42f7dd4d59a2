-------------------------- MODULE CmacBringUpProofs --------------------------
(***************************************************************************)
(* The link is declared up only with both halves of the core enabled, and  *)
(* nothing is written after the state machine has given up, whether or not *)
(* the core may refuse a write and the receiver be reset again.            *)
(***************************************************************************)
EXTENDS CmacBringUp, TLAPS

\* The write the state machine waits for in AXI_RD_WR.
TargetAddr == IF init_rx_aligned /\ rd_wr_cntr = 0 THEN "RX_REG1" ELSE "TX_REG1"
TargetData == IF ~init_rx_aligned  THEN "ctl_tx_enable"
              ELSE IF rd_wr_cntr = 0 THEN "ctl_rx_enable" ELSE "ctl_tx_send_rfi"

Written == core.reg[TargetAddr] = TargetData

Starting == {"INIT_RX_ALIGNED", "INIT_PKT_TRANSFER"}
Waiting  == {"GT_LOCKED", "WAIT_RX_ALIGNED", "TEST_WAIT", "INVALID_AXI_RD_WR"}

TypeOK ==
  /\ axi_user_prestate \in {"AXI_IDLE", "AXI_RD_WR"} \cup Starting \cup Waiting
  /\ pstate \in {"IDLE", "WRITE", "ACK"}
  /\ rd_wr_cntr \in 0 .. 2
  /\ init_rx_aligned \in BOOLEAN /\ init_data_sanity \in BOOLEAN
  /\ axi_wr_req \in BOOLEAN /\ axi_bready \in BOOLEAN
  /\ usr_wrack \in BOOLEAN /\ usr_wrerr \in BOOLEAN
  /\ axi_wr_addr \in Addr \cup {None} /\ axi_awaddr \in Addr \cup {None}
  /\ axi_wr_data \in Data \cup {None} /\ axi_wdata \in Data \cup {None}
  /\ core \in [awready : BOOLEAN, wready : BOOLEAN, addr : Addr \cup {None},
               data : Data \cup {None}, bvalid : BOOLEAN, bresp : {"okay", "slverr"},
               reg : [Addr -> Data \cup {"reset"}]]

\* Which of the two sequences of writes runs, and how far it has come.
SequenceInv ==
  /\ axi_user_prestate = "GT_LOCKED" => ~init_rx_aligned /\ ~init_data_sanity /\ rd_wr_cntr = 0
  /\ axi_user_prestate = "INIT_RX_ALIGNED" => ~init_data_sanity
  /\ axi_user_prestate = "INIT_PKT_TRANSFER" => ~init_rx_aligned /\ rd_wr_cntr < 2
  /\ axi_user_prestate = "AXI_RD_WR" =>
       IF init_rx_aligned THEN ~init_data_sanity /\ rd_wr_cntr < 2
                          ELSE init_data_sanity /\ rd_wr_cntr = 0

\* What the writes acknowledged so far have left in the core.
ProgressInv ==
  /\ \/ axi_user_prestate \in {"WAIT_RX_ALIGNED", "INIT_PKT_TRANSFER", "TEST_WAIT"}
     \/ axi_user_prestate = "INIT_RX_ALIGNED" /\ rd_wr_cntr > 0
     \/ axi_user_prestate = "AXI_RD_WR" /\ (rd_wr_cntr > 0 \/ ~init_rx_aligned)
     => core.reg["RX_REG1"] = "ctl_rx_enable"
  /\ \/ axi_user_prestate = "TEST_WAIT"
     \/ axi_user_prestate = "INIT_PKT_TRANSFER" /\ rd_wr_cntr > 0
     => core.reg["TX_REG1"] = "ctl_tx_enable"

\* A write in progress: every register on the way to the core holds the target or
\* nothing, what the core has taken is withdrawn, and an answer is about the target.
WriteInv ==
  axi_user_prestate = "AXI_RD_WR" =>
    /\ axi_wr_addr \in {None, TargetAddr} /\ axi_awaddr \in {None, TargetAddr}
    /\ axi_wr_data \in {None, TargetData} /\ axi_wdata \in {None, TargetData}
    /\ core.addr \in {None, TargetAddr} /\ core.data \in {None, TargetData}
    /\ core.addr # None => axi_wr_addr = None /\ ~axi_wr_req
    /\ core.data # None => axi_wr_data = None
    /\ core.bvalid =>
         /\ core.addr # None /\ core.data # None
         /\ axi_awaddr = None /\ axi_wdata = None /\ ~core.awready /\ ~core.wready
         /\ core.bresp = "okay" => Written
    /\ usr_wrack =>
         /\ axi_wr_addr = None /\ ~axi_wr_req /\ axi_wr_data = None
         /\ axi_awaddr = None /\ axi_wdata = None
         /\ core.addr = None /\ core.data = None /\ ~core.awready /\ ~core.wready
         /\ ~core.bvalid
         /\ ~usr_wrerr => Written

\* No write in progress: the core has taken nothing.  A request given up in the
\* cycle that raised it is still on its way, but is gone when the core's ready comes.
QuietInv ==
  axi_user_prestate # "AXI_RD_WR" =>
    /\ core.addr = None /\ core.data = None /\ ~core.bvalid /\ ~usr_wrack
    /\ axi_awaddr # None => axi_wr_addr = None
    /\ axi_wdata # None => axi_wr_data = None
    /\ core.awready => axi_awaddr = None
    /\ core.wready => axi_wdata = None
    /\ axi_user_prestate \in Starting \cup Waiting =>
         axi_wr_addr = None /\ axi_wr_data = None /\ ~axi_wr_req
    /\ axi_user_prestate \in Starting => axi_awaddr = None /\ axi_wdata = None

BusInv ==
  /\ usr_wrack <=> pstate = "ACK"
  /\ axi_bready => core.bvalid

IInv == TypeOK /\ SequenceInv /\ ProgressInv /\ WriteInv /\ QuietInv /\ BusInv

----------------------------------------------------------------------------
LEMMA InitIInv == Init => IInv
<1> USE NoneAssumption DEF Init
<1>1. Init => TypeOK
  <2> SUFFICES ASSUME Init PROVE TypeOK
    OBVIOUS
  <2>1. core \in [awready : BOOLEAN, wready : BOOLEAN, addr : Addr \cup {None},
                  data : Data \cup {None}, bvalid : BOOLEAN, bresp : {"okay", "slverr"},
                  reg : [Addr -> Data \cup {"reset"}]]
    BY DEF Addr
  <2>2. /\ init_rx_aligned \in BOOLEAN /\ init_data_sanity \in BOOLEAN
        /\ axi_wr_req \in BOOLEAN /\ axi_bready \in BOOLEAN
        /\ usr_wrack \in BOOLEAN /\ usr_wrerr \in BOOLEAN
    OBVIOUS
  <2>3. /\ axi_user_prestate = "AXI_IDLE" /\ pstate = "IDLE" /\ rd_wr_cntr = 0
        /\ axi_wr_addr = None /\ axi_awaddr = None
        /\ axi_wr_data = None /\ axi_wdata = None
    OBVIOUS
  <2> HIDE DEF Init
  <2> QED
    BY <2>1, <2>2, <2>3 DEF TypeOK
<1>2. Init => SequenceInv /\ ProgressInv /\ WriteInv /\ QuietInv /\ BusInv
  BY DEF SequenceInv, ProgressInv, WriteInv, QuietInv, BusInv, Starting, Waiting
<1> QED
  BY <1>1, <1>2 DEF IInv

----------------------------------------------------------------------------
\* Whatever the core and the bus master do, their registers keep their ranges.
LEMMA CoreTyped ==
  ASSUME TypeOK, Core
  PROVE  core' \in [awready : BOOLEAN, wready : BOOLEAN, addr : Addr \cup {None},
                    data : Data \cup {None}, bvalid : BOOLEAN, bresp : {"okay", "slverr"},
                    reg : [Addr -> Data \cup {"reset"}]]
<1> USE DEF TypeOK
<1>1. ASSUME NEW resp \in {"okay", "slverr"}, Performs(resp)
      PROVE  /\ core' \in [awready : BOOLEAN, wready : BOOLEAN, addr : Addr \cup {None},
                    data : Data \cup {None}, bvalid : BOOLEAN, bresp : {"okay", "slverr"},
                    reg : [Addr -> Data \cup {"reset"}]]
  <2>1. core.addr \in Addr /\ core.data \in Data
    BY <1>1 DEF Performs
  <2> QED
    BY <1>1, <2>1 DEF Performs
<1>2. CASE Answered
  BY <1>2 DEF Answered
<1>3. CASE Handshake
  BY <1>3 DEF Handshake, TakesAddr, TakesData
<1> QED
  BY <1>1, <1>2, <1>3 DEF Core

LEMMA BusTyped ==
  ASSUME TypeOK, BusInv, Core, RdWrIf
  PROVE  /\ pstate' \in {"IDLE", "WRITE", "ACK"}
         /\ axi_awaddr' \in Addr \cup {None} /\ axi_wdata' \in Data \cup {None}
         /\ axi_bready' \in BOOLEAN /\ usr_wrack' \in BOOLEAN /\ usr_wrerr' \in BOOLEAN
         /\ usr_wrack' <=> pstate' = "ACK"
         /\ axi_bready' => core'.bvalid
<1> USE DEF TypeOK
<1>1. /\ axi_awaddr' \in Addr \cup {None} /\ axi_wdata' \in Data \cup {None}
      /\ pstate' \in {"IDLE", "WRITE", "ACK"}
  BY DEF RdWrIf, BusIdle, BusWrite, BusAck, Follow
<1>2. axi_bready' \in BOOLEAN
  BY DEF RdWrIf, BusReady
<1>3. usr_wrack' \in BOOLEAN /\ usr_wrerr' \in BOOLEAN /\ (usr_wrack' <=> pstate' = "ACK")
  <2>1. CASE BusIdle
    BY <2>1 DEF BusIdle, BusInv
  <2>2. CASE BusWrite
    BY <2>2 DEF BusWrite, BusInv
  <2>3. CASE BusAck
    BY <2>3 DEF BusAck
  <2> QED
    BY <2>1, <2>2, <2>3 DEF RdWrIf
<1>4. axi_bready' => core'.bvalid
  <2> SUFFICES ASSUME ~axi_bready, core.bvalid PROVE core'.bvalid
    BY DEF RdWrIf, BusReady
  <2> QED
    BY DEF Core, Performs, Answered, Handshake
<1> QED
  BY <1>1, <1>2, <1>3, <1>4

\* With no write in progress nothing is taken, performed or answered, and the bus
\* shows at most what the request registers hold.
LEMMA NothingTaken ==
  ASSUME IInv, Core, RdWrIf, axi_user_prestate # "AXI_RD_WR"
  PROVE  /\ core'.addr = None /\ core'.data = None /\ ~core'.bvalid
         /\ core'.reg = core.reg
         /\ core'.awready => axi_awaddr # None
         /\ core'.wready => axi_wdata # None
         /\ axi_awaddr' \in {None, axi_wr_addr} /\ axi_wdata' \in {None, axi_wr_data}
         /\ ~usr_wrack'
<1>1. /\ core.addr = None /\ core.data = None /\ ~core.bvalid /\ ~usr_wrack
      /\ core.awready => axi_awaddr = None
      /\ core.wready => axi_wdata = None
      /\ pstate # "ACK"
  BY DEF IInv, QuietInv, BusInv
<1>2. Handshake
  BY <1>1 DEF Core, Performs, Answered
<1>3. PICK ar \in IF MayTakeAddr THEN BOOLEAN ELSE {FALSE},
           wr \in IF MayTakeData THEN BOOLEAN ELSE {FALSE} :
        core' = [core EXCEPT !.awready = ar, !.wready = wr,
                             !.addr = IF TakesAddr THEN axi_awaddr ELSE @,
                             !.data = IF TakesData THEN axi_wdata ELSE @]
  BY <1>2 DEF Handshake
<1>4. ~TakesAddr /\ ~TakesData
  BY <1>1 DEF TakesAddr, TakesData
<1>5. /\ core'.addr = core.addr /\ core'.data = core.data /\ core'.bvalid = core.bvalid
      /\ core'.reg = core.reg /\ core'.awready = ar /\ core'.wready = wr
  BY <1>3, <1>4 DEF IInv, TypeOK
<1>6. (ar => axi_awaddr # None) /\ (wr => axi_wdata # None)
  BY DEF MayTakeAddr, MayTakeData
<1>7. /\ axi_awaddr' \in {None, axi_wr_addr} /\ axi_wdata' \in {None, axi_wr_data}
      /\ ~usr_wrack'
  BY <1>1 DEF RdWrIf, BusIdle, BusWrite, BusAck, Follow, IInv, TypeOK
<1> QED
  BY <1>1, <1>5, <1>6, <1>7

\* The steps of the state machine outside AXI_RD_WR.
LEMMA QuietStep ==
  ASSUME IInv, Core, RdWrIf,
         UserIdle \/ UserLocked \/ UserInitRx \/ UserWaitRx \/ UserInitTransfer
           \/ UserTestWait \/ UserInvalid
  PROVE  IInv'
<1> USE NoneAssumption
<1> DEFINE Step == \/ UserIdle \/ UserLocked \/ UserInitRx \/ UserWaitRx
                   \/ UserInitTransfer \/ UserTestWait \/ UserInvalid
<1>1. axi_user_prestate # "AXI_RD_WR"
  BY DEF UserIdle, UserLocked, UserInitRx, UserWaitRx, UserInitTransfer, UserTestWait,
         UserInvalid
<1>2. /\ core'.addr = None /\ core'.data = None /\ ~core'.bvalid
      /\ core'.reg = core.reg
      /\ core'.awready => axi_awaddr # None
      /\ core'.wready => axi_wdata # None
      /\ axi_awaddr' \in {None, axi_wr_addr} /\ axi_wdata' \in {None, axi_wr_data}
      /\ ~usr_wrack'
  BY <1>1, NothingTaken
<1>3. BusInv'
  BY BusTyped DEF IInv, BusInv
<1>4. TypeOK'
  <2>1. /\ axi_user_prestate' \in {"AXI_IDLE", "AXI_RD_WR"} \cup Starting \cup Waiting
        /\ rd_wr_cntr' \in 0 .. 2
        /\ axi_wr_addr' \in Addr \cup {None} /\ axi_wr_data' \in Data \cup {None}
    BY DEF UserIdle, UserLocked, UserInitRx, UserWaitRx, UserInitTransfer, UserTestWait,
           UserInvalid, NoRequest, Request, Restarted, GoTo, IInv, TypeOK, Starting,
           Waiting, Addr, Data
  <2>2. axi_wr_req' \in BOOLEAN
    BY DEF UserIdle, UserLocked, UserInitRx, UserWaitRx, UserInitTransfer, UserTestWait,
           UserInvalid, NoRequest, Request
  <2>3. init_rx_aligned' \in BOOLEAN /\ init_data_sanity' \in BOOLEAN
    BY DEF UserIdle, UserLocked, UserInitRx, UserWaitRx, UserInitTransfer, UserTestWait,
           UserInvalid, Restarted, IInv, TypeOK
  <2> QED
    BY <2>1, <2>2, <2>3, CoreTyped, BusTyped DEF IInv, TypeOK
<1>5. SequenceInv'
  BY DEF UserIdle, UserLocked, UserInitRx, UserWaitRx, UserInitTransfer, UserTestWait,
         UserInvalid, Restarted, GoTo, IInv, TypeOK, SequenceInv
<1>6. ProgressInv'
  BY <1>2 DEF UserIdle, UserLocked, UserInitRx, UserWaitRx, UserInitTransfer, UserTestWait,
         UserInvalid, Restarted, GoTo, IInv, TypeOK, SequenceInv, ProgressInv
<1>7. WriteInv'
  <2> SUFFICES ASSUME axi_user_prestate' = "AXI_RD_WR" PROVE WriteInv'
    BY DEF WriteInv
  <2>1. UserInitRx \/ UserInitTransfer
    BY DEF UserIdle, UserLocked, UserWaitRx, UserTestWait, UserInvalid, GoTo
  <2>2. /\ axi_awaddr' = None /\ axi_wdata' = None
    BY <1>2, <2>1 DEF UserInitRx, UserInitTransfer, IInv, QuietInv, Starting, Waiting
  <2>3. axi_wr_addr' = TargetAddr' /\ axi_wr_data' = TargetData'
    <3>1. CASE UserInitRx
      BY <3>1 DEF UserInitRx, Request, GoTo, TargetAddr, TargetData, IInv, TypeOK
    <3>2. CASE UserInitTransfer
      BY <3>2 DEF UserInitTransfer, Request, GoTo, TargetAddr, TargetData, IInv, TypeOK, SequenceInv
    <3> QED
      BY <2>1, <3>1, <3>2
  <2> QED
    BY <1>2, <2>2, <2>3 DEF WriteInv
<1>8. QuietInv'
  <2> SUFFICES ASSUME axi_user_prestate' # "AXI_RD_WR" PROVE QuietInv'
    BY DEF QuietInv
  <2>1. /\ axi_awaddr' # None => axi_wr_addr' = None
        /\ axi_wdata' # None => axi_wr_data' = None
    <3>1. CASE UserInitRx \/ UserInitTransfer
      BY <1>2, <3>1 DEF UserInitRx, UserInitTransfer, IInv, QuietInv, Starting, Waiting
    <3>2. CASE UserIdle \/ UserLocked \/ UserWaitRx \/ UserTestWait \/ UserInvalid
      BY <3>2 DEF UserIdle, UserLocked, UserWaitRx, UserTestWait, UserInvalid, NoRequest
    <3> QED
      BY <3>1, <3>2
  <2>2. /\ core'.awready => axi_awaddr' = None
        /\ core'.wready => axi_wdata' = None
    BY <1>1, <1>2 DEF IInv, QuietInv
  <2>3. axi_user_prestate' \in Starting \cup Waiting =>
          axi_wr_addr' = None /\ axi_wr_data' = None /\ ~axi_wr_req'
    <3>1. CASE UserInitRx
      BY <3>1 DEF UserInitRx, Request, NoRequest, GoTo, IInv, TypeOK, Starting, Waiting
    <3>2. CASE UserInitTransfer
      BY <3>2 DEF UserInitTransfer, Request, NoRequest, GoTo, IInv, TypeOK, Starting, Waiting,
           SequenceInv
    <3>3. CASE UserIdle \/ UserLocked \/ UserWaitRx \/ UserTestWait \/ UserInvalid
      BY <3>3 DEF UserIdle, UserLocked, UserWaitRx, UserTestWait, UserInvalid, NoRequest
    <3> QED
      BY <3>1, <3>2, <3>3
  <2>4. axi_user_prestate' \in Starting => axi_awaddr' = None /\ axi_wdata' = None
    <3> SUFFICES ASSUME axi_user_prestate' \in Starting
                 PROVE  axi_awaddr' = None /\ axi_wdata' = None
      OBVIOUS
    <3>1. axi_user_prestate \in Waiting
      BY DEF UserIdle, UserLocked, UserInitRx, UserWaitRx, UserInitTransfer, UserTestWait,
             UserInvalid, GoTo, Starting, Waiting
    <3>2. axi_wr_addr = None /\ axi_wr_data = None
      BY <1>1, <3>1 DEF IInv, QuietInv
    <3> QED
      BY <1>2, <3>2
  <2> QED
    BY <1>2, <2>1, <2>2, <2>3, <2>4 DEF QuietInv
<1> QED
  BY <1>3, <1>4, <1>5, <1>6, <1>7, <1>8 DEF IInv

\* In AXI_RD_WR before the answer: the write moves on towards the core.
LEMMA WriteGoesOn ==
  ASSUME IInv, Core, RdWrIf, UserReadWrite, ~usr_wrack
  PROVE  IInv'
<1> USE NoneAssumption
<1> DEFINE T == TargetAddr
           D == TargetData
<1>1. /\ axi_user_prestate = "AXI_RD_WR" /\ axi_user_prestate' = "AXI_RD_WR"
      /\ UNCHANGED <<rd_wr_cntr, init_rx_aligned, init_data_sanity>>
  BY DEF UserReadWrite, GoTo
<1>2. TargetAddr' = T /\ TargetData' = D /\ T \in Addr /\ D \in Data
  BY <1>1 DEF TargetAddr, TargetData, Addr, Data
<1>3. None \notin Addr /\ None \notin Data
  BY DEF Addr, Data
<1>4. /\ axi_wr_addr \in {None, T} /\ axi_awaddr \in {None, T}
      /\ axi_wr_data \in {None, D} /\ axi_wdata \in {None, D}
      /\ core.addr \in {None, T} /\ core.data \in {None, D}
      /\ core.addr # None => axi_wr_addr = None /\ ~axi_wr_req
      /\ core.data # None => axi_wr_data = None
      /\ core.bvalid =>
           /\ core.addr # None /\ core.data # None
           /\ axi_awaddr = None /\ axi_wdata = None /\ ~core.awready /\ ~core.wready
           /\ core.bresp = "okay" => core.reg[T] = D
  BY <1>1 DEF IInv, WriteInv, Written
<1>5. /\ IF core.awready THEN axi_wr_addr' = None /\ axi_wr_req' = FALSE
                          ELSE axi_wr_addr' = axi_wr_addr /\ axi_wr_req' = axi_wr_req
      /\ axi_wr_data' = IF core.wready THEN None ELSE axi_wr_data
  BY DEF UserReadWrite
<1>6. TypeOK'
  <2>1. /\ axi_wr_addr' \in Addr \cup {None} /\ axi_wr_data' \in Data \cup {None}
    BY <1>5 DEF IInv, TypeOK
  <2>2. axi_wr_req' \in BOOLEAN
    BY <1>5 DEF IInv, TypeOK
  <2> QED
    BY <1>1, <2>1, <2>2, CoreTyped, BusTyped DEF IInv, TypeOK
<1>7. SequenceInv' /\ QuietInv'
  BY <1>1 DEF IInv, SequenceInv, QuietInv, Starting
<1>8. BusInv'
  BY BusTyped DEF IInv, BusInv
<1>9. /\ pstate # "ACK"
      /\ axi_awaddr' \in {axi_wr_addr, None} \cup (IF core.bvalid THEN {axi_awaddr} ELSE {})
      /\ axi_wdata' \in {axi_wr_data, None} \cup (IF core.bvalid THEN {axi_wdata} ELSE {})
      /\ usr_wrack' => /\ core.bvalid /\ axi_bready
                       /\ usr_wrerr' <=> core.bresp = "slverr"
  <2>1. pstate # "ACK"
    BY DEF IInv, BusInv
  <2>2. CASE BusIdle
    BY <2>2 DEF BusIdle, Follow
  <2>3. CASE BusWrite
    <3>1. CASE core.bvalid /\ axi_bready
      BY <2>3, <3>1 DEF BusWrite
    <3>2. CASE ~(core.bvalid /\ axi_bready)
      BY <2>3, <3>2 DEF BusWrite, Follow
    <3> QED
      BY <3>1, <3>2
  <2> QED
    BY <2>1, <2>2, <2>3 DEF RdWrIf, BusAck
<1> DEFINE Moves ==
      /\ core'.addr \in {None, T} /\ core'.data \in {None, D}
      /\ core'.addr # None => axi_wr_addr' = None /\ ~axi_wr_req'
      /\ core'.data # None => axi_wr_data' = None
      /\ core'.bvalid =>
           /\ core'.addr # None /\ core'.data # None
           /\ axi_awaddr' = None /\ axi_wdata' = None /\ ~core'.awready /\ ~core'.wready
           /\ core'.bresp = "okay" => core'.reg[T] = D
      /\ usr_wrack' =>
           /\ axi_wr_addr' = None /\ ~axi_wr_req' /\ axi_wr_data' = None
           /\ axi_awaddr' = None /\ axi_wdata' = None
           /\ core'.addr = None /\ core'.data = None
           /\ ~core'.awready /\ ~core'.wready /\ ~core'.bvalid
           /\ ~usr_wrerr' => core'.reg[T] = D
      /\ T # "RX_REG1" => core'.reg["RX_REG1"] = core.reg["RX_REG1"]
<1> HIDE DEF T, D, Moves
<1>10. core.bresp \in {"okay", "slverr"} /\ core.reg \in [Addr -> Data \cup {"reset"}]
  BY DEF IInv, TypeOK
<1>11. ASSUME NEW resp \in {"okay", "slverr"}, Performs(resp)
       PROVE  Moves
  <2>1. core.addr = T /\ core.data = D /\ ~core.bvalid
    BY <1>4, <1>11 DEF Performs
  <2>2. /\ core'.addr = core.addr /\ core'.data = core.data
        /\ core'.bresp = resp /\ ~core'.awready /\ ~core'.wready
        /\ core'.reg = [core.reg EXCEPT ![T] = IF resp = "okay" THEN D ELSE @]
    BY <1>11, <2>1 DEF Performs, IInv, TypeOK
  <2>3. axi_awaddr' = None /\ axi_wdata' = None
    BY <1>2, <1>3, <1>4, <1>9, <2>1
  <2>4. axi_wr_addr' = None /\ ~axi_wr_req' /\ axi_wr_data' = None
    BY <1>2, <1>3, <1>4, <1>5, <2>1
  <2>5. resp = "okay" => core'.reg[T] = D
    BY <1>2, <1>10, <2>2
  <2>6. T # "RX_REG1" => core'.reg["RX_REG1"] = core.reg["RX_REG1"]
    BY <1>10, <2>2
  <2> QED
    BY <1>2, <1>3, <1>9, <2>1, <2>2, <2>3, <2>4, <2>5, <2>6 DEF Moves
<1>12. ASSUME Answered PROVE Moves
  <2>1. core.bvalid /\ axi_bready
    BY <1>12 DEF Answered
  <2>2. /\ core'.addr = None /\ core'.data = None /\ ~core'.bvalid
        /\ ~core'.awready /\ ~core'.wready /\ core'.reg = core.reg
    BY <1>12 DEF Answered, IInv, TypeOK
  <2>3. core.addr # None /\ core.data # None /\ axi_awaddr = None /\ axi_wdata = None
        /\ ~core.awready /\ ~core.wready /\ (core.bresp = "okay" => core.reg[T] = D)
    BY <1>4, <2>1
  <2>4. axi_wr_addr' = None /\ ~axi_wr_req' /\ axi_wr_data' = None
    BY <1>4, <1>5, <2>3
  <2>5. axi_awaddr' = None /\ axi_wdata' = None
    BY <1>4, <1>9, <2>3
  <2>6. usr_wrack' /\ ~usr_wrerr' => core'.reg[T] = D
    BY <1>9, <1>10, <2>2, <2>3
  <2> QED
    BY <2>2, <2>4, <2>5, <2>6 DEF Moves
<1>13. ASSUME Handshake PROVE Moves
  <2>1. PICK ar \in IF MayTakeAddr THEN BOOLEAN ELSE {FALSE},
             wr \in IF MayTakeData THEN BOOLEAN ELSE {FALSE} :
          core' = [core EXCEPT !.awready = ar, !.wready = wr,
                               !.addr = IF TakesAddr THEN axi_awaddr ELSE @,
                               !.data = IF TakesData THEN axi_wdata ELSE @]
    BY <1>13 DEF Handshake
  <2>2. /\ core'.addr = (IF TakesAddr THEN axi_awaddr ELSE core.addr)
        /\ core'.data = (IF TakesData THEN axi_wdata ELSE core.data)
        /\ core'.bvalid = core.bvalid /\ core'.bresp = core.bresp
        /\ core'.reg = core.reg /\ core'.awready = ar /\ core'.wready = wr
    BY <2>1 DEF IInv, TypeOK
  <2>3. ~usr_wrack'
    BY <1>9, <1>13 DEF Handshake
  <2>4. /\ core'.addr \in {None, T} /\ core'.data \in {None, D}
        /\ core'.addr # None => axi_wr_addr' = None /\ ~axi_wr_req'
        /\ core'.data # None => axi_wr_data' = None
    BY <1>4, <1>5, <2>2 DEF TakesAddr, TakesData
  <2>5. core'.bvalid =>
          /\ core'.addr # None /\ core'.data # None
          /\ axi_awaddr' = None /\ axi_wdata' = None /\ ~core'.awready /\ ~core'.wready
    <3> SUFFICES ASSUME core.bvalid
                 PROVE  /\ core'.addr # None /\ core'.data # None
                        /\ axi_awaddr' = None /\ axi_wdata' = None
                        /\ ~core'.awready /\ ~core'.wready
      BY <2>2
    <3>1. ~ar /\ ~wr
      BY <1>4, <2>1 DEF MayTakeAddr, MayTakeData
    <3>2. axi_awaddr' = None /\ axi_wdata' = None
      BY <1>4, <1>9
    <3> QED
      BY <1>4, <2>2, <3>1, <3>2 DEF TakesAddr, TakesData
  <2>6. core'.bvalid /\ core'.bresp = "okay" => core'.reg[T] = D
    BY <1>4, <2>2
  <2> QED
    BY <2>2, <2>3, <2>4, <2>5, <2>6 DEF Moves
<1>14. Moves
  BY <1>11, <1>12, <1>13 DEF Core
<1>15. WriteInv'
  <2>1. /\ axi_wr_addr' \in {None, T} /\ axi_awaddr' \in {None, T}
        /\ axi_wr_data' \in {None, D} /\ axi_wdata' \in {None, D}
    BY <1>4, <1>5, <1>9
  <2>2. Written' <=> core'.reg[T] = D
    BY <1>2 DEF Written
  <2> QED
    BY <1>2, <1>14, <2>1, <2>2 DEF WriteInv, Moves
<1>16. ProgressInv'
  <2> SUFFICES ASSUME rd_wr_cntr > 0 \/ ~init_rx_aligned
               PROVE  core'.reg["RX_REG1"] = "ctl_rx_enable"
    BY <1>1 DEF ProgressInv
  <2>1. T # "RX_REG1"
    BY DEF T, TargetAddr
  <2> QED
    BY <1>1, <1>14, <2>1 DEF IInv, ProgressInv, Moves
<1> QED
  BY <1>6, <1>7, <1>8, <1>15, <1>16 DEF IInv

\* In AXI_RD_WR at the answer: nothing of the write is left on its way.
LEMMA WriteEnds ==
  ASSUME IInv, Core, RdWrIf, UserReadWrite, usr_wrack
  PROVE  IInv'
<1> USE NoneAssumption
<1>1. axi_user_prestate = "AXI_RD_WR"
  BY DEF UserReadWrite
<1>2. /\ axi_wr_addr = None /\ ~axi_wr_req /\ axi_wr_data = None
      /\ axi_awaddr = None /\ axi_wdata = None
      /\ core.addr = None /\ core.data = None /\ ~core.awready /\ ~core.wready
      /\ ~core.bvalid
      /\ ~usr_wrerr => Written
  BY <1>1 DEF IInv, WriteInv
<1>3. /\ axi_wr_addr' = None /\ axi_wr_req' = axi_wr_req /\ axi_wr_data' = None
      /\ UNCHANGED <<init_rx_aligned, init_data_sanity>>
      /\ rd_wr_cntr' = IF usr_wrerr THEN rd_wr_cntr ELSE rd_wr_cntr + 1
  BY <1>2 DEF UserReadWrite
<1>4. axi_awaddr' = None /\ axi_wdata' = None /\ ~usr_wrack'
  BY <1>2 DEF RdWrIf, BusIdle, BusWrite, BusAck, IInv, BusInv
<1>5. Handshake
  BY <1>2 DEF Core, Performs, Answered
<1>6. /\ core'.addr = None /\ core'.data = None /\ ~core'.bvalid
      /\ ~core'.awready /\ ~core'.wready /\ core'.reg = core.reg
  BY <1>2, <1>5 DEF Handshake, TakesAddr, TakesData, MayTakeAddr, MayTakeData, IInv, TypeOK
<1>7. CASE usr_wrerr
  <2>1. axi_user_prestate' = "INVALID_AXI_RD_WR" /\ rd_wr_cntr' = rd_wr_cntr
    BY <1>3, <1>7 DEF UserReadWrite, GoTo
  <2>2. TypeOK'
    BY <1>3, <2>1, CoreTyped, BusTyped DEF IInv, TypeOK, Waiting
  <2>3. SequenceInv' /\ ProgressInv' /\ WriteInv'
    BY <2>1 DEF SequenceInv, ProgressInv, WriteInv
  <2>4. QuietInv'
    BY <1>2, <1>3, <1>4, <1>6, <2>1 DEF QuietInv
  <2> QED
    BY <2>2, <2>3, <2>4, BusTyped DEF IInv, BusInv
<1>8. CASE ~usr_wrerr /\ init_rx_aligned
  <2>1. axi_user_prestate' = "INIT_RX_ALIGNED" /\ rd_wr_cntr' = rd_wr_cntr + 1
    BY <1>2, <1>3, <1>8 DEF UserReadWrite, GoTo
  <2>2. rd_wr_cntr < 2 /\ ~init_data_sanity
    BY <1>1, <1>8 DEF IInv, SequenceInv
  <2>3. TypeOK'
    BY <1>3, <2>1, <2>2, CoreTyped, BusTyped DEF IInv, TypeOK, Starting
  <2>4. core'.reg["RX_REG1"] = "ctl_rx_enable"
    <3>1. CASE rd_wr_cntr = 0
      BY <1>2, <1>6, <1>8, <3>1 DEF Written, TargetAddr, TargetData
    <3>2. CASE rd_wr_cntr > 0
      BY <1>1, <1>6, <3>2 DEF IInv, ProgressInv
    <3> QED
      BY <3>1, <3>2 DEF IInv, TypeOK
  <2>5. SequenceInv' /\ ProgressInv' /\ WriteInv'
    BY <1>3, <2>1, <2>2, <2>4 DEF SequenceInv, ProgressInv, WriteInv
  <2>6. QuietInv'
    BY <1>2, <1>3, <1>4, <1>6, <2>1 DEF QuietInv
  <2> QED
    BY <2>3, <2>5, <2>6, BusTyped DEF IInv, BusInv
<1>9. CASE ~usr_wrerr /\ ~init_rx_aligned
  <2>1. init_data_sanity /\ rd_wr_cntr = 0
    BY <1>1, <1>9 DEF IInv, SequenceInv
  <2>2. axi_user_prestate' = "INIT_PKT_TRANSFER" /\ rd_wr_cntr' = 1
    BY <1>2, <1>3, <1>9, <2>1 DEF UserReadWrite, GoTo
  <2>3. TypeOK'
    BY <1>3, <2>2, CoreTyped, BusTyped DEF IInv, TypeOK, Starting
  <2>4. core'.reg["RX_REG1"] = "ctl_rx_enable" /\ core'.reg["TX_REG1"] = "ctl_tx_enable"
    BY <1>1, <1>2, <1>6, <1>9 DEF Written, TargetAddr, TargetData, IInv, ProgressInv
  <2>5. SequenceInv' /\ ProgressInv' /\ WriteInv'
    BY <1>3, <1>9, <2>2, <2>4 DEF SequenceInv, ProgressInv, WriteInv
  <2>6. QuietInv'
    BY <1>2, <1>3, <1>4, <1>6, <2>2 DEF QuietInv
  <2> QED
    BY <2>3, <2>5, <2>6, BusTyped DEF IInv, BusInv
<1> QED
  BY <1>7, <1>8, <1>9

LEMMA Invariance == Spec => []IInv
<1>1. IInv /\ [Next]_vars => IInv'
  <2> SUFFICES ASSUME IInv, [Next]_vars PROVE IInv'
    OBVIOUS
  <2>1. CASE Clock
    BY <2>1, QuietStep, WriteGoesOn, WriteEnds DEF Clock, UserIf
  <2>2. CASE UNCHANGED vars
    BY <2>2 DEF vars, userVars, busVars, IInv, TypeOK, SequenceInv, ProgressInv, WriteInv,
                Written, TargetAddr, TargetData, QuietInv, BusInv
  <2> QED
    BY <2>1, <2>2 DEF Next
<1> QED
  BY InitIInv, <1>1, PTL DEF Spec

\* The link is declared up only with receiver and transmitter enabled, whatever
\* restarts, glitches of the lock signal, refusals and stale answers came before
\* (cmac_sync.v: the TEST_WAIT state).
THEOREM EnabledWhenUp == Spec => []UpMeansEnabled
<1>1. IInv => UpMeansEnabled
  BY DEF IInv, ProgressInv, UpMeansEnabled
<1> QED
  BY <1>1, Invariance, PTL

\* After a refused write nothing is left on its way to the core: its registers keep
\* their values until the state machine starts again (INVALID_AXI_RD_WR).
THEOREM NothingAfterFailure == Spec => FailureStops
<1>1. IInv /\ [Next]_vars =>
        [axi_user_prestate = "INVALID_AXI_RD_WR" => core'.reg = core.reg]_vars
  <2> SUFFICES ASSUME IInv, Clock, axi_user_prestate = "INVALID_AXI_RD_WR"
               PROVE  core'.reg = core.reg
    BY DEF Next
  <2> QED
    BY NothingTaken DEF Clock
<1> QED
  BY <1>1, Invariance, PTL DEF Spec, FailureStops

\* Every state register of the bring-up logic stays within its encoding, the request
\* counter within the two writes of a sequence.
THEOREM TypeCorrect == Spec => []TypeOK
<1>1. IInv => TypeOK
  BY DEF IInv
<1> QED
  BY <1>1, Invariance, PTL
=============================================================================

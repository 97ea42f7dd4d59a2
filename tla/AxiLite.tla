------------------------------ MODULE AxiLite ------------------------------
(***************************************************************************)
(* The AXI4-Lite slave that interface_settings.v, axi4lite.v and           *)
(* performance_debug_reg.v share line by line, around the registers that   *)
(* the modules extending this one add, and the master that drives it.      *)
(*                                                                         *)
(* A step is a clock edge.  axi_wready always equals axi_awready (their    *)
(* processes differ in the name only) and is not kept; the response is     *)
(* always OKAY.  The datum of a write is a partial function on the bytes,  *)
(* defined where its strobe is set.                                        *)
(***************************************************************************)
EXTENDS Integers

CONSTANTS
  Reg,      \* the registers that can be written and read back
  Byte,     \* the bytes of a register
  Val,      \* the values of a byte
  Unmapped, \* an address where there is no register
  None,     \* a channel without a valid request
  AwEn      \* whether the slave has aw_en; performance_debug_reg.v has not

ASSUME AddressAssumption == Unmapped \notin Reg
ASSUME AwEnAssumption == AwEn \in BOOLEAN

VARIABLES
  \* driven by the master
  aw,           \* AWADDR, or None while AWVALID is low
  w,            \* WDATA under WSTRB, or None while WVALID is low
  bready,
  ar,           \* ARADDR, or None while ARVALID is low
  rready,
  \* the slave
  axi_awready, aw_en, axi_awaddr, axi_bvalid,
  axi_arready, axi_araddr, axi_rvalid, axi_rdata

masterVars == <<aw, w, bready, ar, rready>>
slaveVars  == <<axi_awready, aw_en, axi_awaddr, axi_bvalid,
                axi_arready, axi_araddr, axi_rvalid, axi_rdata>>
axiVars == <<masterVars, slaveVars>>

Addr  == Reg \cup {Unmapped}
Word  == [Byte -> Val]
Write == UNION {[S -> Val] : S \in SUBSET Byte}

ASSUME NoneAssumption == None \notin Addr \cup Write \cup (Addr \X Write)

\* A register after a write: only the bytes with a strobe change.
Written(word, data) ==
  [b \in Byte |-> IF b \in DOMAIN data THEN data[b] ELSE word[b]]

----------------------------------------------------------------------------
AxiInit(anyWord) ==
  /\ aw = None /\ w = None /\ bready = FALSE /\ ar = None /\ rready = FALSE
  /\ axi_awready = FALSE /\ aw_en = TRUE /\ axi_awaddr = Unmapped
  /\ axi_bvalid = FALSE
  /\ axi_arready = FALSE /\ axi_araddr = Unmapped /\ axi_rvalid = FALSE
  /\ axi_rdata = anyWord

----------------------------------------------------------------------------
(***************************************************************************)
(* The slave.                                                              *)
(***************************************************************************)
AcceptsWrite == ~axi_awready /\ aw # None /\ w # None /\ (AwEn => aw_en)

\* Mutant: the response to a write does not enable the next one.
WriteReadyOnce ==
  /\ axi_awready' = AcceptsWrite
  /\ aw_en' = (aw_en /\ ~AcceptsWrite)
  /\ axi_awaddr' = IF AcceptsWrite THEN aw ELSE axi_awaddr

WriteReady ==
  /\ axi_awready' = AcceptsWrite
  /\ aw_en' = IF AcceptsWrite THEN FALSE
              ELSE IF bready /\ axi_bvalid THEN TRUE ELSE aw_en
  /\ axi_awaddr' = IF AcceptsWrite THEN aw ELSE axi_awaddr

slv_reg_wren == axi_awready /\ aw # None /\ w # None

WriteResponse ==
  axi_bvalid' = IF slv_reg_wren /\ ~axi_bvalid THEN TRUE
                ELSE axi_bvalid /\ ~bready

AcceptsRead == ~axi_arready /\ ar # None

ReadReady ==
  /\ axi_arready' = AcceptsRead
  /\ axi_araddr' = IF AcceptsRead THEN ar ELSE axi_araddr

slv_reg_rden == axi_arready /\ ar # None /\ ~axi_rvalid

ReadResponse(reg_data_out) ==
  /\ axi_rvalid' = IF slv_reg_rden THEN TRUE ELSE axi_rvalid /\ ~rready
  /\ axi_rdata'  = IF slv_reg_rden THEN reg_data_out ELSE axi_rdata

Slave(reg_data_out) ==
  WriteReady /\ WriteResponse /\ ReadReady /\ ReadResponse(reg_data_out)

----------------------------------------------------------------------------
(***************************************************************************)
(* The master, external: it keeps to AXI, that is it holds a request until *)
(* it is taken, brings address and datum in any order and answers when it  *)
(* likes.  It may have a write waiting while the response to the one before*)
(* is on its way, but reads one register at a time.                        *)
(***************************************************************************)
MasterWrites ==
  /\ aw' \in IF aw # None /\ ~axi_awready THEN {aw} ELSE Addr \cup {None}
  /\ w'  \in IF w # None /\ ~axi_awready THEN {w} ELSE Write \cup {None}
  /\ bready' \in BOOLEAN

MasterReads ==
  /\ ar' \in CASE ar # None /\ ~axi_arready      -> {ar}
               [] ar # None /\ axi_arready       -> {None}
               [] ar = None /\ axi_rvalid /\ ~rready -> {None}
               [] OTHER                          -> Addr \cup {None}
  /\ rready' \in BOOLEAN

Master == MasterWrites /\ MasterReads

----------------------------------------------------------------------------
\* The channels and registers of the handshakes have their types.
AxiTypeOK ==
  /\ aw \in Addr \cup {None} /\ ar \in Addr \cup {None}
  /\ w \in Write \cup {None}
  /\ {bready, rready, axi_awready, aw_en, axi_bvalid, axi_arready, axi_rvalid}
       \subseteq BOOLEAN
  /\ axi_awaddr \in Addr /\ axi_araddr \in Addr
  /\ axi_rdata \in Word
=============================================================================

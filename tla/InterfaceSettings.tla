------------------------- MODULE InterfaceSettings -------------------------
(***************************************************************************)
(* interface_settings.v: the registers with the addresses of this end of   *)
(* the link (MAC, IP, gateway, mask), behind the AXI4-Lite slave of        *)
(* AxiLite.                                                                *)
(***************************************************************************)
EXTENDS AxiLite

VARIABLE reg  \* mac_address_lsb, mac_address_msb, ip_address, gateway, ip_mask

settingsVars == <<axiVars, reg>>

ASSUME ValAssumption == 0 \in Val

Zero == [b \in Byte |-> 0]

\* The defaults are parameters of the module.
SettingsInit == AxiInit(Zero) /\ reg \in [Reg -> Word]

\* Mutant: the strobes are ignored, bytes without one become zero.
WriteRegistersNoStrobe ==
  reg' = [r \in Reg |->
            IF slv_reg_wren /\ axi_awaddr = r THEN Written(Zero, w) ELSE reg[r]]

WriteRegisters ==
  reg' = [r \in Reg |->
            IF slv_reg_wren /\ axi_awaddr = r THEN Written(reg[r], w) ELSE reg[r]]

reg_data_out == IF axi_araddr \in Reg THEN reg[axi_araddr] ELSE Zero

SettingsClock == Master /\ Slave(reg_data_out) /\ WriteRegisters

SettingsNext == SettingsClock

SettingsSpec == SettingsInit /\ [][SettingsNext]_settingsVars

\* The clock runs.
SettingsFairSpec == SettingsSpec /\ WF_settingsVars(SettingsClock)

----------------------------------------------------------------------------
\* The handshakes and the registers keep their types.
SettingsTypeOK == AxiTypeOK /\ reg \in [Reg -> Word]

\* What the handshakes rely on: a write that is being accepted is still the one
\* whose address was latched, and aw_en is low exactly from the acceptance of a
\* write to the end of its response, so that responses never pile up.
HandshakeInv ==
  /\ axi_awready => aw = axi_awaddr /\ w # None /\ ~axi_bvalid
  /\ AwEn => (aw_en <=> ~axi_awready /\ ~axi_bvalid)
  /\ axi_arready => ar = axi_araddr
  /\ ar # None => ~axi_rvalid

Memory == INSTANCE RegisterMemory WITH
  mem     <- reg,
  request <- IF aw # None /\ w # None THEN <<aw, w>> ELSE None,
  done    <- axi_bvalid,
  query   <- ar,
  answer  <- IF axi_rvalid THEN axi_rdata ELSE None

\* The slave is a register file whose registers are read and written one at a
\* time, every write exactly once.
MemorySpec == Memory!Spec

\* As long as the master takes responses, every write that is asked for is
\* performed.
WritesPerformed ==
  ([]<>bready) => (aw # None /\ w # None ~> slv_reg_wren)
=============================================================================

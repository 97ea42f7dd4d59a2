--------------------------- MODULE RegisterProofs ---------------------------
(***************************************************************************)
(* The register banks of the network layer.  InterfaceSettings: the        *)
(* handshake invariant of the registers behind the AXI4-Lite slave, and    *)
(* that they implement RegisterMemory, for every set of registers, bytes   *)
(* and values, with aw_en.  NetworkStatistics: the probe reports a         *)
(* consistent snapshot, for counters of any width and beats of any size;   *)
(* what is proved of the probe holds of the probe with its reset register, *)
(* and every reset is kept for its full time.                              *)
(***************************************************************************)
EXTENDS InterfaceSettings, NetworkStatistics, TLAPS

LEMMA WrittenIsWord ==
  ASSUME NEW word \in Word, NEW data \in Write
  PROVE  Written(word, data) \in Word
<1>1. PICK S \in SUBSET Byte : data \in [S -> Val]
  BY DEF Write
<1>2. ASSUME NEW b \in Byte
      PROVE  (IF b \in DOMAIN data THEN data[b] ELSE word[b]) \in Val
  BY <1>1 DEF Word
<1> QED
  BY <1>2 DEF Written, Word

LEMMA ZeroIsWord == Zero \in Word
  BY ValAssumption DEF Zero, Word

LEMMA NoneIsNoAddress == None \notin Addr
  BY NoneAssumption

LEMMA NoneIsNoWrite == None \notin Write
  BY NoneAssumption

LEMMA NoneIsNoWord == None \notin Word
  BY NoneAssumption DEF Word, Write

\* Every register of the slave and every channel keeps its type.
THEOREM SettingsTypeCorrect == SettingsSpec => []SettingsTypeOK
<1>1. SettingsInit => SettingsTypeOK
  BY ZeroIsWord DEF SettingsInit, AxiInit, SettingsTypeOK, AxiTypeOK, Addr
<1>2. SettingsTypeOK /\ [SettingsNext]_settingsVars => SettingsTypeOK'
  <2> SUFFICES ASSUME SettingsTypeOK, [SettingsNext]_settingsVars PROVE SettingsTypeOK'
    OBVIOUS
  <2>1. CASE SettingsClock
    <3>1. aw' \in Addr \cup {None} /\ w' \in Write \cup {None} /\ bready' \in BOOLEAN
      BY <2>1 DEF SettingsClock, Master, MasterWrites, SettingsTypeOK, AxiTypeOK
    <3>2. ar' \in Addr \cup {None} /\ rready' \in BOOLEAN
      BY <2>1 DEF SettingsClock, Master, MasterReads, SettingsTypeOK, AxiTypeOK
    <3>3. axi_awready' \in BOOLEAN /\ aw_en' \in BOOLEAN
      BY <2>1 DEF SettingsClock, Slave, WriteReady, AcceptsWrite, SettingsTypeOK, AxiTypeOK
    <3>4. axi_awaddr' \in Addr
      BY <2>1 DEF SettingsClock, Slave, WriteReady, AcceptsWrite, SettingsTypeOK, AxiTypeOK
    <3>5. axi_bvalid' \in BOOLEAN
      BY <2>1 DEF SettingsClock, Slave, WriteResponse, SettingsTypeOK, AxiTypeOK
    <3>6. axi_arready' \in BOOLEAN /\ axi_araddr' \in Addr
      BY <2>1 DEF SettingsClock, Slave, ReadReady, AcceptsRead, SettingsTypeOK, AxiTypeOK
    <3>7. reg_data_out \in Word
      BY ZeroIsWord DEF reg_data_out, SettingsTypeOK
    <3>8. axi_rvalid' \in BOOLEAN /\ axi_rdata' \in Word
      BY <2>1, <3>7 DEF SettingsClock, Slave, ReadResponse, SettingsTypeOK, AxiTypeOK
    <3>9. reg' \in [Reg -> Word]
      <4> SUFFICES ASSUME NEW r \in Reg
                   PROVE  (IF slv_reg_wren /\ axi_awaddr = r
                           THEN Written(reg[r], w) ELSE reg[r]) \in Word
        BY <2>1 DEF SettingsClock, WriteRegisters
      <4>1. reg[r] \in Word
        BY DEF SettingsTypeOK
      <4>2. slv_reg_wren => w \in Write
        BY DEF slv_reg_wren, SettingsTypeOK, AxiTypeOK
      <4> QED
        BY <4>1, <4>2, WrittenIsWord
    <3> QED
      BY <3>1, <3>2, <3>3, <3>4, <3>5, <3>6, <3>8, <3>9 DEF SettingsTypeOK, AxiTypeOK
  <2>2. CASE UNCHANGED settingsVars
    BY <2>2 DEF settingsVars, axiVars, masterVars, slaveVars, SettingsTypeOK, AxiTypeOK
  <2> QED
    BY <2>1, <2>2 DEF SettingsNext
<1> QED
  BY <1>1, <1>2, PTL DEF SettingsSpec

----------------------------------------------------------------------------
\* With aw_en, a write that is being accepted is the one whose address was
\* latched, and no write is accepted while the response to another is pending.
THEOREM HandshakeCorrect == AwEn => (SettingsSpec => []HandshakeInv)
<1> SUFFICES ASSUME AwEn PROVE SettingsSpec => []HandshakeInv
  OBVIOUS
<1>1. SettingsInit => HandshakeInv
  BY DEF SettingsInit, AxiInit, HandshakeInv
<1>2. SettingsTypeOK /\ HandshakeInv /\ [SettingsNext]_settingsVars => HandshakeInv'
  <2> SUFFICES ASSUME SettingsTypeOK, HandshakeInv, [SettingsNext]_settingsVars
               PROVE  HandshakeInv'
    OBVIOUS
  <2>1. CASE SettingsClock
    <3>1. (axi_awready => aw = axi_awaddr /\ w # None /\ ~axi_bvalid)'
      <4> SUFFICES ASSUME axi_awready'
                   PROVE  aw' = axi_awaddr' /\ w' # None /\ ~axi_bvalid'
        OBVIOUS
      <4>1. AcceptsWrite /\ axi_awaddr' = aw
        BY <2>1 DEF SettingsClock, Slave, WriteReady
      <4>2. aw' = aw /\ w' = w /\ w # None
        BY <2>1, <4>1 DEF SettingsClock, Master, MasterWrites, AcceptsWrite
      <4>3. ~axi_bvalid /\ ~slv_reg_wren
        BY <4>1 DEF AcceptsWrite, slv_reg_wren, HandshakeInv
      <4>4. ~axi_bvalid'
        BY <2>1, <4>3 DEF SettingsClock, Slave, WriteResponse
      <4> QED
        BY <4>1, <4>2, <4>4
    <3>2. (aw_en <=> ~axi_awready /\ ~axi_bvalid)'
      <4>1. /\ axi_awready' = AcceptsWrite
            /\ aw_en' = IF AcceptsWrite THEN FALSE
                        ELSE IF bready /\ axi_bvalid THEN TRUE ELSE aw_en
            /\ axi_bvalid' = IF slv_reg_wren /\ ~axi_bvalid THEN TRUE
                             ELSE axi_bvalid /\ ~bready
        BY <2>1 DEF SettingsClock, Slave, WriteReady, WriteResponse
      <4>2. aw_en <=> ~axi_awready /\ ~axi_bvalid
        BY DEF HandshakeInv
      <4>3. {bready, axi_awready, aw_en, axi_bvalid} \subseteq BOOLEAN
        BY DEF SettingsTypeOK, AxiTypeOK
      <4>4. axi_awready => slv_reg_wren /\ ~axi_bvalid
        BY NoneIsNoAddress DEF HandshakeInv, slv_reg_wren, SettingsTypeOK, AxiTypeOK
      <4>5. slv_reg_wren => axi_awready
        BY DEF slv_reg_wren
      <4>6. AcceptsWrite => ~axi_awready /\ aw_en
        BY DEF AcceptsWrite
      <4> QED
        BY <4>1, <4>2, <4>3, <4>4, <4>5, <4>6
    <3>3. (axi_arready => ar = axi_araddr)'
      BY <2>1 DEF SettingsClock, Master, MasterReads, Slave, ReadReady, AcceptsRead
    <3>4. (ar # None => ~axi_rvalid)'
      BY <2>1 DEF SettingsClock, Master, MasterReads, Slave, ReadReady, ReadResponse,
                  AcceptsRead, slv_reg_rden, HandshakeInv
    <3> QED
      BY <3>1, <3>2, <3>3, <3>4 DEF HandshakeInv
  <2>2. CASE UNCHANGED settingsVars
    BY <2>2 DEF settingsVars, axiVars, masterVars, slaveVars, HandshakeInv
  <2> QED
    BY <2>1, <2>2 DEF SettingsNext
<1> QED
  BY <1>1, <1>2, SettingsTypeCorrect, PTL DEF SettingsSpec

----------------------------------------------------------------------------
\* A clock edge that performs a write.
LEMMA WriteStep ==
  ASSUME AwEn, SettingsTypeOK, SettingsTypeOK', HandshakeInv, SettingsClock
  PROVE  Memory!Perform \/ Memory!AskOrTake
<1> DEFINE rq == IF aw # None /\ w # None THEN <<aw, w>> ELSE None
<1>1. rq' \in Memory!Requests
  BY DEF SettingsTypeOK, AxiTypeOK, Memory!Requests, Memory!Addr, Memory!Write, Addr, Write
<1>2. axi_awready => slv_reg_wren /\ ~axi_bvalid /\ aw = axi_awaddr
  BY NoneIsNoAddress DEF HandshakeInv, slv_reg_wren, SettingsTypeOK, AxiTypeOK
<1>3. axi_bvalid' = IF slv_reg_wren /\ ~axi_bvalid THEN TRUE
                    ELSE axi_bvalid /\ ~bready
  BY DEF SettingsClock, Slave, WriteResponse
<1>4. reg' = [r \in Reg |-> IF slv_reg_wren /\ axi_awaddr = r
                            THEN Written(reg[r], w) ELSE reg[r]]
  BY DEF SettingsClock, WriteRegisters
<1>5. CASE slv_reg_wren
  <2>1. axi_awready /\ aw # None /\ w # None
    BY <1>5 DEF slv_reg_wren
  <2>2. rq = <<aw, w>> /\ rq # None
    BY <2>1, NoneAssumption DEF SettingsTypeOK, AxiTypeOK
  <2>3. ~axi_bvalid /\ axi_bvalid' = TRUE
    BY <1>2, <1>3, <1>5, <2>1
  <2>4. reg' = [r \in Reg |-> IF r = rq[1] THEN Memory!AfterWrite(rq[2], reg[r])
                                           ELSE reg[r]]
    BY <1>2, <1>4, <1>5, <2>1, <2>2 DEF Memory!AfterWrite, Written
  <2>5. Memory!Perform
    BY <1>1, <2>2, <2>3, <2>4 DEF Memory!Perform
  <2> QED
    BY <2>5
<1>6. CASE ~slv_reg_wren
  <2>1. axi_bvalid' = (axi_bvalid /\ ~bready)
    BY <1>3, <1>6
  <2>2. reg' = reg
    <3>1. reg' = [r \in Reg |-> reg[r]]
      BY <1>4, <1>6
    <3> QED
      BY <3>1 DEF SettingsTypeOK
  <2>3. rq # None => rq' = rq
    <3> SUFFICES ASSUME rq # None PROVE rq' = rq
      OBVIOUS
    <3>1. aw # None /\ w # None /\ ~axi_awready
      BY <1>2, <1>6
    <3>2. aw' = aw /\ w' = w
      BY <3>1 DEF SettingsClock, Master, MasterWrites
    <3> QED
      BY <3>2
  <2>4. rq' \in IF rq = None THEN Memory!Requests ELSE {rq}
    BY <1>1, <2>3
  <2>5. Memory!AskOrTake
    BY <2>1, <2>2, <2>4 DEF Memory!AskOrTake
  <2> QED
    BY <2>5
<1> QED
  BY <1>5, <1>6

\* A clock edge as the read side sees it.
LEMMA ReadStep ==
  ASSUME SettingsTypeOK, SettingsTypeOK', HandshakeInv, SettingsClock
  PROVE  Memory!Read \/ Memory!QueryOrTake
<1> DEFINE ans == IF axi_rvalid THEN axi_rdata ELSE None
<1>1. axi_arready => ar # None
  BY NoneIsNoAddress DEF HandshakeInv, SettingsTypeOK, AxiTypeOK
<1>2. /\ axi_rvalid' = IF slv_reg_rden THEN TRUE ELSE axi_rvalid /\ ~rready
      /\ axi_rdata' = IF slv_reg_rden THEN reg_data_out ELSE axi_rdata
  BY DEF SettingsClock, Slave, ReadResponse
<1>3. axi_rdata \in Word /\ axi_rvalid \in BOOLEAN /\ rready \in BOOLEAN
  BY DEF SettingsTypeOK, AxiTypeOK
<1>4. CASE slv_reg_rden
  <2>1. axi_arready /\ ar # None /\ ~axi_rvalid /\ ar = axi_araddr
    BY <1>4 DEF slv_reg_rden, HandshakeInv
  <2>2. ar' = None
    BY <2>1 DEF SettingsClock, Master, MasterReads
  <2>3. reg_data_out = IF ar = Unmapped THEN [b \in Byte |-> 0] ELSE reg[ar]
    BY <2>1, AddressAssumption DEF reg_data_out, Zero, SettingsTypeOK, AxiTypeOK, Addr
  <2>4. ans = None /\ ans' = reg_data_out
    BY <1>2, <1>4, <2>1
  <2>5. Memory!Read
    BY <2>1, <2>2, <2>3, <2>4 DEF Memory!Read
  <2> QED
    BY <2>5
<1>5. CASE ~slv_reg_rden
  <2>1. ans' = IF rready THEN None ELSE ans
    BY <1>2, <1>3, <1>5
  <2>2. CASE ar # None
    <3>1. ~axi_rvalid /\ ~axi_arready
      BY <1>5, <2>2 DEF slv_reg_rden, HandshakeInv
    <3>2. ar' = ar
      BY <2>2, <3>1 DEF SettingsClock, Master, MasterReads
    <3> QED
      BY <2>1, <2>2, <3>2 DEF Memory!QueryOrTake
  <2>3. CASE ar = None
    <3>1. axi_rvalid /\ ~rready => ar' = None
      BY <2>3 DEF SettingsClock, Master, MasterReads
    <3>2. ans' = None \/ (axi_rvalid /\ ~rready)
      BY <1>3, <2>1
    <3>3. ar' \in Memory!Addr \cup {None}
      BY DEF SettingsTypeOK, AxiTypeOK, Memory!Addr, Addr
    <3>4. ans' # None => ar' = ar
      BY <2>3, <3>1, <3>2
    <3>5. ar' \in IF ar = None /\ ans' = None THEN Memory!Addr \cup {None} ELSE {ar}
      BY <2>3, <3>3, <3>4
    <3> QED
      BY <2>1, <3>5 DEF Memory!QueryOrTake
  <2> QED
    BY <2>2, <2>3
<1> QED
  BY <1>4, <1>5

\* With aw_en the registers behind the slave are a register memory: one read and
\* one write at a time, every write exactly once, every read from one moment.
THEOREM ImplementsMemory == AwEn => (SettingsSpec => MemorySpec)
<1> SUFFICES ASSUME AwEn PROVE SettingsSpec => MemorySpec
  OBVIOUS
<1>1. SettingsInit => Memory!Init
  BY DEF SettingsInit, AxiInit, Memory!Init, Word, Memory!Word
<1>2. SettingsTypeOK /\ SettingsTypeOK' /\ HandshakeInv /\ [SettingsNext]_settingsVars
        => [Memory!Next]_(Memory!vars)
  <2> SUFFICES ASSUME SettingsTypeOK, SettingsTypeOK', HandshakeInv, [SettingsNext]_settingsVars
               PROVE  [Memory!Next]_(Memory!vars)
    OBVIOUS
  <2>1. CASE SettingsClock
    <3>1. Memory!Next
      BY <2>1, WriteStep, ReadStep DEF Memory!Next
    <3> QED
      BY <3>1
  <2>2. CASE UNCHANGED settingsVars
    BY <2>2 DEF settingsVars, axiVars, masterVars, slaveVars, Memory!vars
  <2> QED
    BY <2>1, <2>2 DEF SettingsNext
<1>3. SettingsSpec => []SettingsTypeOK /\ []HandshakeInv
  BY SettingsTypeCorrect, HandshakeCorrect
<1> QED
  BY <1>1, <1>2, <1>3, PTL DEF SettingsSpec, MemorySpec, Memory!Spec

----------------------------------------------------------------------------
(***************************************************************************)
(* The probe and its reset register.                                       *)
(***************************************************************************)
\* The values the arithmetic is about play no part: Plus stays unexpanded.
IInv == PipelineInv /\ Snapshot

LEMMA InitIInv == Init => IInv
<1> SUFFICES ASSUME Init PROVE IInv
  OBVIOUS
<1>1. /\ seen.active = FALSE /\ seen.clock = 0
      /\ seen.report[0] = Nothing /\ seen.report[1] = Nothing
      /\ seen.report[2] = Nothing
  BY DEF Init
<1>2. /\ active_counter = FALSE /\ time_counter = 0 /\ ~Transfer_1d
      /\ byte_counter = 0 /\ pkt_counter = 0 /\ latched_time = 0
      /\ debug_slot = Nothing
  BY DEF Init, Transfer_1d
<1> QED
  BY <1>1, <1>2 DEF IInv, PipelineInv, Snapshot, Nothing

\* After an edge with user_rst_n low nothing is left of what came before, except
\* in debug_slot, which follows an edge later.
LEMMA ClearedKeeps ==
  ASSUME IInv, Clock, ~rst_n
  PROVE  IInv'
<1>1. Cleared /\ Latch /\ See
  BY DEF Clock
<1>2. /\ seen'.active = FALSE /\ seen'.clock = 0
      /\ seen'.report[0] = Nothing /\ seen'.report[1] = Nothing
      /\ seen'.report[2] = seen.report[1]
  <2>1. seen' = [active |-> FALSE, clock |-> 0,
                 report |-> [d \in 0 .. 2 |->
                               IF d = 0 THEN Nothing
                               ELSE IF d = 1 THEN Nothing ELSE seen.report[d - 1]]]
    BY <1>1 DEF See
  <2> QED
    BY <2>1
<1>3. PipelineInv'
  BY <1>1, <1>2 DEF Cleared, PipelineInv, Transfer_1d, Nothing
<1>4. Snapshot'
  BY <1>1, <1>2 DEF Latch, IInv, PipelineInv, Snapshot
<1> QED
  BY <1>3, <1>4 DEF IInv

\* An edge that counts moves everything one stage on.
LEMMA CountKeeps ==
  ASSUME IInv, TypeOK, Clock, rst_n
  PROVE  IInv'
<1> DEFINE clock == IF active_counter \/ Transfer THEN Plus(seen.clock, 1) ELSE seen.clock
           now == seen.report[0]
<1>1. Count /\ Latch /\ See
  BY DEF Clock
<1>2. seen.active = active_counter
  BY DEF IInv, PipelineInv
<1>3. /\ seen'.active = (active_counter \/ Transfer)
      /\ seen'.clock = clock
      /\ seen'.report[1] = now /\ seen'.report[2] = seen.report[1]
      /\ seen'.report[0] = IF Transfer
                           THEN [time |-> clock, bytes |-> Plus(now.bytes, ones),
                                 packets |-> IF tlast THEN Plus(now.packets, 1)
                                                      ELSE now.packets]
                           ELSE now
  BY <1>1, <1>2 DEF See
<1>4. Transfer_1d' = Transfer /\ tlast_1d' = tlast /\ number_of_ones_1d' = ones
  BY <1>1 DEF Count, Transfer_1d, Transfer
<1>5. active_counter' = (active_counter \/ Transfer)
  BY <1>1 DEF Count
<1>6. now = [time |-> latched_time', bytes |-> byte_counter', packets |-> pkt_counter']
  BY <1>1 DEF Count, CountBeat, IInv, PipelineInv
<1>7. /\ active_counter' => seen'.clock = Plus(time_counter', 1)
      /\ ~active_counter' => seen'.clock = 0 /\ time_counter' = 0
  BY <1>1, <1>3, <1>5 DEF Count, CountTime, IInv, PipelineInv
<1>8. PipelineInv'
  <2>1. seen'.active = active_counter'
    BY <1>3, <1>5
  <2>2. Transfer_1d' => active_counter'
    BY <1>4, <1>5
  <2>3. seen'.report[1] = [time |-> latched_time', bytes |-> byte_counter',
                           packets |-> pkt_counter']
    BY <1>3, <1>6
  <2>4. CASE Transfer
    <3>1. seen'.report[0] = [time |-> seen'.clock, bytes |-> Plus(byte_counter', ones),
                             packets |-> IF tlast THEN Plus(pkt_counter', 1)
                                                  ELSE pkt_counter']
      BY <1>3, <1>6, <2>4
    <3> QED
      BY <1>4, <1>7, <2>1, <2>2, <2>3, <2>4, <3>1 DEF PipelineInv
  <2>5. CASE ~Transfer
    <3>1. seen'.report[0] = [time |-> latched_time', bytes |-> byte_counter',
                             packets |-> pkt_counter']
      BY <1>3, <1>6, <2>5
    <3> QED
      BY <1>4, <1>7, <2>1, <2>2, <2>3, <2>5, <3>1 DEF PipelineInv
  <2> QED
    BY <2>4, <2>5
<1>9. Snapshot'
  BY <1>1, <1>3 DEF Latch, IInv, PipelineInv, Snapshot
<1> QED
  BY <1>8, <1>9 DEF IInv

\* Every counter keeps its width.
THEOREM TypeCorrect == Spec => []TypeOK
<1>1. Init => TypeOK
  <2> SUFFICES ASSUME Init PROVE TypeOK
    OBVIOUS
  <2>1. 0 \in Counter
    BY CountsAssumption DEF Counter
  <2>2. debug_slot \in [time : Counter, bytes : Counter, packets : Counter]
    BY <2>1 DEF Init, Nothing
  <2>3. {time_counter, byte_counter, pkt_counter, latched_time} \subseteq Counter
    BY <2>1 DEF Init
  <2> QED
    BY <2>2, <2>3 DEF Init, TypeOK
<1>2. TypeOK /\ [Next]_vars => TypeOK'
  <2> SUFFICES ASSUME TypeOK, [Next]_vars PROVE TypeOK'
    OBVIOUS
  <2>1. 0 \in Counter /\ \A a \in Nat, b \in Nat : Plus(a, b) \in Counter
    BY CountsAssumption DEF Counter, Plus
  <2>2. Counter \subseteq Nat /\ 1 \in Nat
    BY DEF Counter
  <2>3. CASE Clock
    <3>1. debug_slot' \in [time : Counter, bytes : Counter, packets : Counter]
      BY <2>3 DEF Clock, Latch, TypeOK
    <3>2. /\ {tvalid, tready, tlast, rst_n}' \subseteq BOOLEAN
          /\ ones' \in Keep
      BY <2>3 DEF Clock, AnyInput
    <3>3. CASE rst_n
      <4>1. {time_counter, byte_counter, pkt_counter, latched_time}' \subseteq Counter
        <5>1. number_of_ones_1d \in Nat
          BY KeepAssumption DEF TypeOK
        <5>2. {time_counter, byte_counter, pkt_counter, latched_time} \subseteq Counter
          BY DEF TypeOK
        <5> QED
          BY <2>1, <2>2, <2>3, <3>3, <5>1, <5>2 DEF Clock, Count, CountTime, CountBeat
      <4>2. {tvalid_1d, tready_1d, tlast_1d, active_counter}' \subseteq BOOLEAN
        BY <2>3, <3>3 DEF Clock, Count, Transfer, TypeOK
      <4>3. number_of_ones_1d' \in Keep \cup {0}
        BY <2>3, <3>3 DEF Clock, Count, TypeOK
      <4> QED
        BY <3>1, <3>2, <4>1, <4>2, <4>3 DEF TypeOK
    <3>4. CASE ~rst_n
      <4>1. {time_counter, byte_counter, pkt_counter, latched_time}' \subseteq Counter
        BY <2>1, <2>3, <3>4 DEF Clock, Cleared
      <4>2. {tvalid_1d, tready_1d, tlast_1d, active_counter}' \subseteq BOOLEAN
        BY <2>3, <3>4 DEF Clock, Cleared
      <4>3. number_of_ones_1d' \in Keep \cup {0}
        BY <2>3, <3>4 DEF Clock, Cleared
      <4> QED
        BY <3>1, <3>2, <4>1, <4>2, <4>3 DEF TypeOK
    <3> QED
      BY <3>3, <3>4
  <2>4. CASE UNCHANGED vars
    BY <2>4 DEF vars, inputs, registers, TypeOK
  <2> QED
    BY <2>3, <2>4 DEF Next
<1> QED
  BY <1>1, <1>2, PTL DEF Spec

\* What debug_slot shows is the bytes, packets and cycles of one and the same
\* prefix of the beats transferred since the last reset.
THEOREM SnapshotCorrect == Spec => []Snapshot
<1>1. IInv /\ TypeOK /\ [Next]_vars => IInv'
  <2> SUFFICES ASSUME IInv, TypeOK, [Next]_vars PROVE IInv'
    OBVIOUS
  <2>1. CASE Clock
    BY <2>1, ClearedKeeps, CountKeeps
  <2>2. CASE UNCHANGED vars
    BY <2>2 DEF vars, inputs, registers, IInv, PipelineInv, Snapshot, Transfer_1d
  <2> QED
    BY <2>1, <2>2 DEF Next
<1>2. IInv => Snapshot
  BY DEF IInv
<1> QED
  BY <1>1, <1>2, InitIInv, TypeCorrect, PTL DEF Spec

----------------------------------------------------------------------------
(***************************************************************************)
(* The probe behind its reset register                                     *)
(***************************************************************************)
\* The composition is the probe under one particular rst_n.
THEOREM ProbeIsPart == StatsSpec => Spec
<1>1. StatsInit => Init
  BY DEF StatsInit
<1>2. [StatsNext]_statsVars => [Next]_vars
  BY DEF StatsNext, Edge, Next, statsVars
<1> QED
  BY <1>1, <1>2, PTL DEF StatsSpec, Spec

\* For every width of the counters, every length of the reset and any host, what is
\* read is a consistent snapshot since the last reset.
THEOREM SnapshotUnderReset == StatsSpec => []Snapshot
BY ProbeIsPart, SnapshotCorrect, PTL

\* Outside a reset the count is zero; within one it is behind the edges since the
\* start, since only a write holds it back.
ResetInv ==
  /\ write \in HostWrites \cup {"none"}
  /\ slv_reg_reset \in BOOLEAN
  /\ rst_counter \in 0 .. LastCount
  /\ held \in 0 .. LastCount + 1
  /\ slv_reg_reset => rst_counter < held
  /\ ~slv_reg_reset => rst_counter = 0

LEMMA ResetInit == StatsInit => ResetInv
<1> SUFFICES ASSUME StatsInit PROVE ResetInv
  OBVIOUS
<1>1. slv_reg_reset \in BOOLEAN /\ ~slv_reg_reset /\ write = "none"
  BY DEF StatsInit
<1>2. rst_counter = 0 /\ held = 0
  BY DEF StatsInit
<1> QED
  BY <1>1, <1>2, LastCountAssumption DEF ResetInv

\* A host that never writes 0 cannot end a reset before its count.
LEMMA ResetStep ==
  ASSUME "zero" \notin HostWrites
  PROVE  ResetInv /\ [StatsNext]_statsVars => ResetInv'
<1> SUFFICES ASSUME ResetInv, [StatsNext]_statsVars PROVE ResetInv'
  OBVIOUS
<1> USE LastCountAssumption
<1>1. CASE UNCHANGED statsVars
  BY <1>1 DEF ResetInv, statsVars, resetVars
<1>2. CASE StatsNext
  <2>1. Host /\ ResetRegister /\ Held
    BY <1>2 DEF StatsNext, Edge
  <2>2. write' \in HostWrites \cup {"none"}
    BY <2>1 DEF Host
  <2>3. CASE reset_wren
    <3>1. rst_counter' = rst_counter /\ slv_reg_reset' \in BOOLEAN
          /\ (slv_reg_reset => slv_reg_reset')
      <4>1. write \in {"one", "other"}
        BY <2>3, HostWritesAssumption DEF reset_wren, ResetInv, Writes
      <4>2. CASE write = "one"
        BY <2>1, <2>3, <4>2 DEF ResetRegister, CountOnWrite
      <4>3. CASE write = "other"
        BY <2>1, <2>3, <4>3 DEF ResetRegister, CountOnWrite, ResetInv
      <4> QED
        BY <4>1, <4>2, <4>3
    <3> QED
      BY <2>1, <2>2, <3>1 DEF ResetInv, Held
  <2>4. CASE ~reset_wren
    <3>1. /\ rst_counter' = IF slv_reg_reset THEN NextCount ELSE rst_counter
          /\ slv_reg_reset' = (slv_reg_reset /\ ~CountOver)
      BY <2>1, <2>4 DEF ResetRegister
    <3> QED
      BY <2>1, <2>2, <3>1 DEF ResetInv, Held, NextCount, CountOver
  <2> QED
    BY <2>3, <2>4
<1> QED
  BY <1>1, <1>2 DEF StatsNext

\* For every LastCount: with a host that never writes 0, as the host library never
\* does, a reset is kept for LastCount + 1 cycles.
THEOREM ResetKept ==
  ASSUME "zero" \notin HostWrites
  PROVE  StatsSpec => KeptTenCycles
<1>1. ResetInv /\ [StatsNext]_statsVars =>
        [slv_reg_reset /\ ~slv_reg_reset' /\ ~reset_wren => held = LastCount + 1]_statsVars
  BY LastCountAssumption
     DEF ResetInv, StatsNext, Edge, ResetRegister, CountOver, statsVars, resetVars
<1> QED
  BY <1>1, ResetInit, ResetStep, PTL DEF StatsSpec, KeptTenCycles

\* For any widths, any length of the reset and any host, the registers of the probe and
\* of the reset keep their ranges: rst_counter never passes LastCount
\* (performance_debug_reg.v: C_RST_CYCLES).
THEOREM StatsTypeCorrect == StatsSpec => []StatsTypeOK
<1> USE LastCountAssumption
<1> DEFINE ResetTypeOK ==
      /\ write \in HostWrites \cup {"none"}
      /\ slv_reg_reset \in BOOLEAN /\ slv_reg_reset_1d \in BOOLEAN
      /\ rst_counter \in 0 .. LastCount
      /\ held \in 0 .. LastCount + 1
<1>1. StatsInit => ResetTypeOK
  <2> SUFFICES ASSUME StatsInit PROVE ResetTypeOK
    OBVIOUS
  <2>1. write = "none" /\ rst_counter = 0 /\ held = 0
    BY DEF StatsInit
  <2>2. slv_reg_reset \in BOOLEAN /\ slv_reg_reset_1d \in BOOLEAN
    BY DEF StatsInit
  <2> QED
    BY <2>1, <2>2
<1>2. ResetTypeOK /\ [StatsNext]_statsVars => ResetTypeOK'
  <2> SUFFICES ASSUME ResetTypeOK, [StatsNext]_statsVars PROVE ResetTypeOK'
    OBVIOUS
  <2>1. CASE UNCHANGED statsVars
    BY <2>1 DEF statsVars, resetVars
  <2>2. CASE StatsNext
    <3>1. Host /\ ResetRegister /\ ResetPipeline /\ Held
      BY <2>2 DEF StatsNext, Edge
    <3>2. write' \in HostWrites \cup {"none"}
      BY <3>1 DEF Host
    <3>3. rst_counter' \in 0 .. LastCount
      BY <3>1 DEF ResetRegister, CountOnWrite, CountOver, NextCount
    <3>4. slv_reg_reset' \in BOOLEAN
      <4>1. CASE reset_wren
        BY <3>1, <4>1, Zenon DEF ResetRegister
      <4>2. CASE ~reset_wren
        BY <3>1, <4>2, Zenon DEF ResetRegister
      <4> QED
        BY <4>1, <4>2
    <3>5. slv_reg_reset_1d' \in BOOLEAN
      BY <3>1 DEF ResetPipeline
    <3>6. held' \in 0 .. LastCount + 1
      BY <3>1 DEF Held
    <3> QED
      BY <3>2, <3>3, <3>4, <3>5, <3>6
  <2> QED
    BY <2>1, <2>2 DEF StatsNext
<1>3. ResetTypeOK /\ TypeOK => StatsTypeOK
  BY DEF StatsTypeOK
<1> QED
  BY <1>1, <1>2, <1>3, ProbeIsPart, TypeCorrect, PTL DEF StatsSpec
=============================================================================

-------------------------- MODULE BenchmarkProofs --------------------------
(***************************************************************************)
(* The benchmark kernels.  What a run of the traffic generator sends, waits*)
(* for and summarises, for any numbers of packets and beats, any gaps,     *)
(* losses and back pressure, and for a host that may give up any run at any*)
(* time; and what the collector makes of the summaries, for any sizes of   *)
(* its memories.                                                           *)
(***************************************************************************)
EXTENDS TrafficGenerator, LatencyCollector, SequenceTheorems, TLAPS

Producing == {"PRODUCE_PAYLOAD_HEADER", "PRODUCE_PAYLOAD_REMAINING", "WAIT_N_CYCLES"}
Probing   == {"PRODUCE_SMALL", "WAIT_N_CYCLES_LATENCY"}

\* The cycle after the start: the summary state machine looks at the mode now.
FirstCycle == ~ap_idle /\ ap_idle_1d

TypeOK ==
  /\ running \in BOOLEAN /\ ap_start \in BOOLEAN /\ reset_fsm \in BOOLEAN
  /\ start_held \in BOOLEAN /\ done_held \in BOOLEAN /\ ap_start_1d \in BOOLEAN
  /\ axis_switch \in BOOLEAN /\ ap_done \in BOOLEAN /\ ap_idle \in BOOLEAN
  /\ summary_idle \in BOOLEAN /\ summary_done \in BOOLEAN
  /\ output_summary_mask \in BOOLEAN /\ end_of_stream \in BOOLEAN
  /\ ap_idle_1d \in BOOLEAN /\ timeout_counter \in Nat
  /\ k2n_tready \in BOOLEAN /\ summary_tready \in BOOLEAN
  /\ regs \in Config
  /\ conf \in [mode : Modes \cup {"producer"}, packets : Packets, beats : Beats, tbp : Gaps]
  /\ fsm_state \in Producing \cup Probing
                     \cup {"GET_CONFIGURATION", "FSM_DONE", "FSM_SUMMARY_DONE"}
  /\ fsm_summary_state \in {"WAIT_UNTIL_MODE", "WAIT_PACKET", "CONSUME_PACKET", "SUMMARY_DONE"}
  /\ packet_counter \in Nat /\ number_beats_counter \in Int
  /\ time_between_packets_counter \in Int /\ waited \in Nat
  /\ producer \in BeatData \cup {None} /\ n2k \in BeatData \cup {None}
  /\ net \in Seq(BeatData) /\ sent \in Seq(BeatData) /\ taken \in Seq(BeatData)
  /\ expected \in Seq(BeatData)
  /\ summary \in SummaryData \cup {None} /\ summaries \in Seq(SummaryData)
  /\ about \in Seq(Nat)

\* The host, the start pulse and the held status: a start finds the generator at rest
\* and the end of the last run read, and a run is under way or being given up as long
\* as the state machine is away from GET_CONFIGURATION.
StartInv ==
  /\ running => ~reset_fsm
  /\ ap_start =>
       /\ running /\ fsm_state = "GET_CONFIGURATION"
       /\ ~ap_done /\ ~done_held /\ ~ap_start_1d
  /\ ap_start_1d /\ ~reset_fsm =>
       /\ running /\ ~ap_start /\ fsm_state = "GET_CONFIGURATION"
       /\ ~ap_done /\ start_held /\ ~done_held /\ ap_idle
  /\ fsm_state # "GET_CONFIGURATION" =>
       /\ ~ap_done /\ ~ap_start /\ ~ap_start_1d /\ start_held /\ ~done_held
       /\ running \/ reset_fsm
       /\ ~ap_idle
  /\ ap_done => running \/ reset_fsm

\* The hand-over between the two state machines.
HandOver ==
  /\ fsm_state = "GET_CONFIGURATION" =>
       (~ap_idle => ~ap_idle_1d) /\ fsm_summary_state = "WAIT_UNTIL_MODE"
  /\ FirstCycle => summary_idle /\ fsm_summary_state = "WAIT_UNTIL_MODE"
  /\ fsm_summary_state # "WAIT_UNTIL_MODE" =>
       /\ ~summary_done /\ ~ap_idle_1d
       /\ conf.mode \in {"latency", "consumer"}
       /\ output_summary_mask = (conf.mode # "consumer")

\* Where the main state machine is in its run.
PlaceInv ==
  /\ fsm_state \in Producing \cup {"FSM_DONE"} => conf.mode = "producer"
  /\ fsm_state \in Probing => conf.mode = "latency"
  /\ fsm_state = "FSM_SUMMARY_DONE" => conf.mode # "producer"
  /\ fsm_state # "GET_CONFIGURATION" => axis_switch = (conf.mode = "loopback")
  /\ conf.mode = "latency" => ~axis_switch
  /\ fsm_state \in Producing \cup Probing => packet_counter <= conf.packets
  /\ fsm_state \in (Producing \ {"PRODUCE_PAYLOAD_REMAINING"}) \cup Probing =>
       packet_counter < conf.packets
  /\ fsm_state \notin {"GET_CONFIGURATION", "FSM_DONE", "FSM_SUMMARY_DONE",
                       "PRODUCE_PAYLOAD_HEADER", "PRODUCE_SMALL"} => packet_counter > 0
  /\ fsm_state = "PRODUCE_PAYLOAD_REMAINING" =>
       number_beats_counter \in 1 .. conf.beats - 1

----------------------------------------------------------------------------
\* Beats of a packet, and how many beats the run has still to load.
RunBeats == IF conf.mode = "latency" THEN 1 ELSE conf.beats

Left ==
  IF fsm_state \in Producing \cup Probing
  THEN (conf.packets - packet_counter) * RunBeats
       + (IF fsm_state = "PRODUCE_PAYLOAD_REMAINING" THEN number_beats_counter ELSE 0)
  ELSE 0

Loaded == sent \o Waiting(producer)

\* What has been loaded is a prefix of what is expected, and what is missing of it is
\* the rest of the packets.
ProducedInv ==
  ~axis_switch =>
    /\ Len(Loaded) <= Len(expected)
    /\ \A i \in 1 .. Len(Loaded) : Loaded[i] = expected[i]
    /\ fsm_state # "GET_CONFIGURATION" \/ ap_done => Len(expected) = Len(Loaded) + Left
    /\ fsm_state \in Producing \cup Probing =>
         LET all == conf.packets * RunBeats
         IN  /\ all <= Len(expected)
             /\ \A k \in 1 .. all :
                  expected[Len(expected) - all + k] = PacketsOf(conf.packets, RunBeats)[k]

GapInv ==
  /\ fsm_state \in {"WAIT_N_CYCLES", "WAIT_N_CYCLES_LATENCY"} =>
       /\ time_between_packets_counter >= 0
       /\ \/ waited >= conf.tbp
          \/ waited + time_between_packets_counter >= conf.tbp - 1
  /\ fsm_state \in {"PRODUCE_PAYLOAD_HEADER", "PRODUCE_SMALL"} /\ packet_counter > 0 =>
       waited >= conf.tbp

----------------------------------------------------------------------------
Quiet == n2k = None /\ net = << >> /\ producer = None

\* Between the start and its falling edge a run that receives finds nothing under way.
StartQuiet ==
  (ap_start \/ ap_start_1d) /\ ~reset_fsm /\ regs.mode # "producer" => Quiet

\* A beat of a latency run, and the last one.
Small(beat) == beat.last /\ beat.total = conf.packets
Ends(beat)  == beat.id = conf.packets - 1

\* The run is decided: its last packet has come, or nothing will come any more.
Over ==
  \/ fsm_summary_state = "SUMMARY_DONE"
  \/ fsm_summary_state = "WAIT_PACKET" /\ (end_of_stream \/ timed_out)
  \/ fsm_summary_state = "WAIT_UNTIL_MODE" /\ ~FirstCycle

\* What is under way in a latency run: the last packet has nothing behind it.
Wire ==
  /\ producer # None => Small(producer) /\ (Ends(producer) => fsm_state \notin Probing)
  /\ \A i \in 1 .. Len(net) :
       /\ Small(net[i])
       /\ Ends(net[i]) => i = Len(net) /\ producer = None /\ fsm_state \notin Probing
  /\ n2k # None =>
       /\ Small(n2k)
       /\ Ends(n2k) => net = << >> /\ producer = None /\ fsm_state \notin Probing

\* Nothing is behind what the network offers now.
NothingBehind == net = << >> /\ producer = None /\ fsm_state \notin Probing

UnderWay ==
  conf.mode = "latency" =>
    /\ Wire
    /\ FirstCycle => Quiet
    /\ Over /\ ~timed_out => NothingBehind
    /\ fsm_summary_state # "CONSUME_PACKET"

\* The first n summaries and the packets taken: every packet has one unless the run has
\* timed out, and one that is still offered has at most one, which waits with it.
Collected(n) ==
  /\ \A i \in 1 .. n :
       /\ ~summaries[i].last
       /\ about[i] \in 1 .. Len(taken) + 1
       /\ about[i] <= Len(taken) => summaries[i].id = taken[about[i]].id
       /\ i = 1 => about[i] = 1
       /\ i > 1 => about[i] - about[i - 1] \in {0, 1}
       /\ i > 2 => about[i] > about[i - 2]
       /\ about[i] > Len(taken) =>
            /\ n2k # None /\ summaries[i].id = n2k.id /\ summary # None
            /\ i > 1 => about[i] > about[i - 1]
  /\ ~timed_out => Len(taken) <= IF n = 0 THEN 0 ELSE about[n]

\* The closing summary of a latency run has been written.
Closed == fsm_summary_state = "WAIT_UNTIL_MODE" /\ ~FirstCycle

Opened == IF Closed THEN Len(summaries) - 1 ELSE Len(summaries)

\* What the network still offers when the run is decided has its summary.
Settled(n) == Over /\ ~timed_out /\ n2k # None => n > 0 /\ about[n] > Len(taken)

SummaryInv ==
  conf.mode = "latency" =>
    /\ Len(about) = Len(summaries)
    /\ Closed => summaries # << >> /\ summaries[Len(summaries)].last
    /\ FirstCycle => summaries = << >> /\ taken = << >>
    /\ Collected(Opened) /\ Settled(Opened)

IInv == TypeOK /\ StartInv /\ HandOver /\ PlaceInv

LatencyInv == StartQuiet /\ UnderWay /\ SummaryInv

----------------------------------------------------------------------------
(***************************************************************************)
(* Types.                                                                  *)
(***************************************************************************)
States == Producing \cup Probing \cup {"GET_CONFIGURATION", "FSM_DONE", "FSM_SUMMARY_DONE"}

LEMMA BeatType ==
  ASSUME NEW id \in Int, NEW total \in Nat, NEW last \in BOOLEAN
  PROVE  Beat(id, total, last) \in BeatData
BY DEF Beat, BeatData

LEMMA PacketsType ==
  ASSUME NEW n \in Nat \ {0}, NEW b \in Nat \ {0}
  PROVE  /\ PacketsOf(n, b) \in Seq(BeatData)
         /\ Len(PacketsOf(n, b)) = n * b
<1>1. n * b \in Nat
  OBVIOUS
<1>2. \A k \in 1 .. n * b : Beat((k - 1) \div b, n, k % b = 0) \in BeatData
  <2>1. \A k \in 1 .. n * b : (k - 1) \div b \in Int /\ (k % b = 0) \in BOOLEAN
    BY <1>1
  <2> QED
    BY <2>1, BeatType, Zenon
<1>3. PacketsOf(n, b) \in [1 .. n * b -> BeatData]
  BY <1>2 DEF PacketsOf
<1> QED
  BY <1>1, <1>3

LEMMA WaitingType ==
  ASSUME NEW slot \in BeatData \cup {None}
  PROVE  /\ Waiting(slot) \in Seq(BeatData)
         /\ Len(Waiting(slot)) = IF slot = None THEN 0 ELSE 1
         /\ slot # None => Waiting(slot)[1] = slot
BY DEF Waiting

\* What a step of the main state machine may do to its outward signals.
LEMMA MainShape ==
  ASSUME Main
  PROVE  /\ ap_start_1d' = ap_start
         /\ reset_fsm =>
              fsm_state' = "GET_CONFIGURATION" /\ ap_done' = FALSE /\ ap_idle' = TRUE
         /\ ~reset_fsm /\ fsm_state = "GET_CONFIGURATION" /\ Started =>
              fsm_state' # "GET_CONFIGURATION" /\ ap_done' = FALSE /\ ap_idle' = FALSE
         /\ ~reset_fsm /\ fsm_state = "GET_CONFIGURATION" /\ ~Started =>
              fsm_state' = "GET_CONFIGURATION" /\ ap_done' = FALSE /\ ap_idle' = TRUE
         /\ ~reset_fsm /\ fsm_state # "GET_CONFIGURATION" =>
              /\ ap_idle' = ap_idle
              /\ fsm_state' = "GET_CONFIGURATION" => ap_done' = TRUE
              /\ fsm_state' # "GET_CONFIGURATION" => ap_done' = ap_done
<1>1. ap_start_1d' = ap_start
  BY DEF Main
<1>2. CASE reset_fsm
  BY <1>1, <1>2 DEF Main, MainReset, GoTo
<1>3. CASE ~reset_fsm
  <2>1. CASE GetConfiguration
    BY <1>1, <1>3, <2>1 DEF GetConfiguration, GoTo, Stay
  <2>2. CASE ProduceHeader \/ ProduceRemaining \/ WaitNCycles \/ ProduceSmall
    <3>1. /\ fsm_state # "GET_CONFIGURATION" /\ fsm_state' # "GET_CONFIGURATION"
          /\ ap_idle' = ap_idle /\ ap_done' = ap_done
      BY <2>2 DEF ProduceHeader, ProduceRemaining, WaitNCycles, ProduceSmall,
                  AfterPacket, GoTo, Stay
    <3> QED
      BY <1>1, <1>3, <3>1
  <2>3. CASE FsmDone
    BY <1>1, <1>3, <2>3 DEF FsmDone, GoTo
  <2>4. CASE FsmSummaryDone
    BY <1>1, <1>3, <2>4 DEF FsmSummaryDone, GoTo, Stay
  <2> QED
    BY <1>3, <2>1, <2>2, <2>3, <2>4 DEF Main
<1> QED
  BY <1>2, <1>3

LEMMA HostTypes ==
  ASSUME TypeOK, Clock
  PROVE  /\ running' \in BOOLEAN /\ ap_start' \in BOOLEAN /\ reset_fsm' \in BOOLEAN
         /\ start_held' \in BOOLEAN /\ done_held' \in BOOLEAN
         /\ regs' \in Config
<1>1. start_held' \in BOOLEAN /\ done_held' \in BOOLEAN
  BY DEF Clock, Registers, HoldStart, HoldDone
<1>2. CASE Start
  BY <1>1, <1>2 DEF Start, TypeOK
<1>3. CASE GiveUp
  BY <1>1, <1>3 DEF GiveUp, TypeOK
<1>4. CASE Wait
  BY <1>1, <1>4 DEF Wait, TypeOK
<1> QED
  BY <1>2, <1>3, <1>4 DEF Clock, Host

LEMMA MainTypes ==
  ASSUME TypeOK, Main
  PROVE  /\ ap_start_1d' \in BOOLEAN /\ axis_switch' \in BOOLEAN
         /\ ap_done' \in BOOLEAN /\ ap_idle' \in BOOLEAN
         /\ conf' \in [mode : Modes \cup {"producer"}, packets : Packets, beats : Beats,
                       tbp : Gaps]
         /\ fsm_state' \in States
         /\ packet_counter' \in Nat /\ number_beats_counter' \in Int
         /\ time_between_packets_counter' \in Int
         /\ producer' \in BeatData \cup {None}
<1> USE ConfigAssumption
<1>1. ap_start_1d' \in BOOLEAN /\ ap_done' \in BOOLEAN /\ ap_idle' \in BOOLEAN
  BY MainShape, Zenon DEF TypeOK
<1>2. fsm_state' \in States
  BY DEF TypeOK, Main, MainReset, GetConfiguration, ProduceHeader, ProduceRemaining,
         WaitNCycles, ProduceSmall, FsmDone, FsmSummaryDone, AfterPacket, GoTo, Stay,
         States, Producing, Probing
<1>3. regs \in Config /\ regs.tbp \in Nat
  BY DEF TypeOK, Config
<1>4. /\ conf.packets \in Nat /\ conf.beats \in Nat /\ conf.tbp \in Nat
      /\ packet_counter \in Nat /\ number_beats_counter \in Int
      /\ time_between_packets_counter \in Int
  BY DEF TypeOK
<1>5. conf' \in [mode : Modes \cup {"producer"}, packets : Packets, beats : Beats,
                tbp : Gaps]
  BY <1>3 DEF TypeOK, Config, Main, MainReset, GetConfiguration, ProduceHeader,
              ProduceRemaining, WaitNCycles, ProduceSmall, FsmDone, FsmSummaryDone
<1>6. axis_switch' \in BOOLEAN
  BY DEF TypeOK, Main, MainReset, GetConfiguration, ProduceHeader, ProduceRemaining,
         WaitNCycles, ProduceSmall, FsmDone, FsmSummaryDone
<1>7. /\ packet_counter' \in Nat /\ number_beats_counter' \in Int
      /\ time_between_packets_counter' \in Int
  <2>1. CASE reset_fsm
    BY <1>3, <1>4, <2>1 DEF Main, MainReset
  <2>2. CASE GetConfiguration
    BY <1>3, <1>4, <2>2 DEF GetConfiguration
  <2>3. CASE ProduceHeader
    BY <1>3, <1>4, <2>3 DEF ProduceHeader, counterVars
  <2>4. CASE ProduceRemaining
    BY <1>3, <1>4, <2>4 DEF ProduceRemaining, counterVars
  <2>5. CASE ProduceSmall
    <3>1. /\ packet_counter' \in {packet_counter, packet_counter + 1}
          /\ number_beats_counter' = number_beats_counter
          /\ time_between_packets_counter' \in {time_between_packets_counter, conf.tbp - 1}
      BY <2>5, Zenon DEF ProduceSmall, counterVars
    <3> QED
      BY <1>4, <3>1
  <2>6. CASE WaitNCycles \/ FsmDone \/ FsmSummaryDone
    BY <1>3, <1>4, <2>6 DEF WaitNCycles, FsmDone, FsmSummaryDone, counterVars
  <2> QED
    BY <2>1, <2>2, <2>3, <2>4, <2>5, <2>6 DEF Main
<1>8. producer' \in BeatData \cup {None}
  <2>1. \A id \in Int, last \in BOOLEAN :
          Load(id, last) => producer' \in BeatData \cup {None}
    BY <1>4, BeatType DEF Load
  <2>2. /\ (conf.beats = 1) \in BOOLEAN /\ (number_beats_counter = 1) \in BOOLEAN
        /\ packet_counter \in Int /\ packet_counter - 1 \in Int
    BY <1>4
  <2>3. Drain => producer' \in BeatData \cup {None}
    BY DEF Drain, TypeOK
  <2>4. CASE reset_fsm
    BY <2>4 DEF Main, MainReset
  <2>5. CASE ProduceHeader
    BY <2>1, <2>2, <2>3, <2>5, Zenon DEF ProduceHeader
  <2>6. CASE ProduceRemaining
    BY <2>1, <2>2, <2>3, <2>6, Zenon DEF ProduceRemaining
  <2>7. CASE ProduceSmall
    BY <2>1, <2>2, <2>3, <2>7, Zenon DEF ProduceSmall
  <2>8. CASE GetConfiguration \/ WaitNCycles \/ FsmDone \/ FsmSummaryDone
    BY <2>3, <2>8 DEF GetConfiguration, WaitNCycles, FsmDone, FsmSummaryDone
  <2> QED
    BY <2>4, <2>5, <2>6, <2>7, <2>8 DEF Main
<1> QED
  BY <1>1, <1>2, <1>5, <1>6, <1>7, <1>8

LEMMA SummaryTypes ==
  ASSUME TypeOK, Summary
  PROVE  /\ summary_idle' \in BOOLEAN /\ summary_done' \in BOOLEAN
         /\ output_summary_mask' \in BOOLEAN /\ end_of_stream' \in BOOLEAN
         /\ ap_idle_1d' \in BOOLEAN /\ timeout_counter' \in Nat
         /\ fsm_summary_state' \in {"WAIT_UNTIL_MODE", "WAIT_PACKET", "CONSUME_PACKET",
                                    "SUMMARY_DONE"}
         /\ summary' \in SummaryData \cup {None}
<1>1. CASE reset_fsm
  BY <1>1 DEF Summary, SummaryReset, SummaryGoTo, TypeOK
<1>2. CASE ~reset_fsm
  <2>1. ap_idle_1d' \in BOOLEAN
    BY <1>2 DEF Summary, TypeOK
  <2>2. CASE WaitUntilMode
    <3>1. summary' \in SummaryData \cup {None}
      BY <2>2 DEF WaitUntilMode, DrainSummary, TypeOK
    <3>2. output_summary_mask' \in BOOLEAN /\ fsm_summary_state' \in {"WAIT_UNTIL_MODE", "WAIT_PACKET"}
      BY <2>2 DEF WaitUntilMode, SummaryGoTo, TypeOK
    <3>3. summary_idle' \in BOOLEAN /\ summary_done' \in BOOLEAN
      BY <2>2 DEF WaitUntilMode, TypeOK
    <3>4. end_of_stream' \in BOOLEAN
      BY <2>2 DEF WaitUntilMode, TypeOK
    <3>5. timeout_counter' \in Nat
      BY <2>2 DEF WaitUntilMode, TypeOK
    <3> QED
      BY <2>1, <3>1, <3>2, <3>3, <3>4, <3>5
  <2>3. CASE WaitPacket
    <3>1. fsm_summary_state' \in {"WAIT_UNTIL_MODE", "WAIT_PACKET", "CONSUME_PACKET",
                                  "SUMMARY_DONE"}
      BY <2>3 DEF WaitPacket, SummaryGoTo, TypeOK
    <3>2. summary' \in SummaryData \cup {None}
      <4>1. n2k # None => [id |-> n2k.id, last |-> FALSE] \in SummaryData
        BY DEF TypeOK, BeatData, SummaryData
      <4> QED
        BY <2>3, <4>1 DEF WaitPacket, DrainSummary, TypeOK
    <3>3. timeout_counter' \in Nat
      BY <2>3 DEF WaitPacket, TypeOK
    <3>4. end_of_stream' \in BOOLEAN
      BY <2>3 DEF WaitPacket, TypeOK
    <3> QED
      BY <2>1, <2>3, <3>1, <3>2, <3>3, <3>4 DEF WaitPacket, TypeOK
  <2>4. CASE ConsumePacket
    BY <2>1, <2>4 DEF ConsumePacket, DrainSummary, SummaryGoTo, TypeOK
  <2>5. CASE SummaryDone
    <3>1. summary' \in SummaryData \cup {None}
      <4>1. [id |-> 0, last |-> TRUE] \in SummaryData
        BY DEF SummaryData
      <4> QED
        BY <2>5, <4>1 DEF SummaryDone, DrainSummary, TypeOK
    <3> QED
      BY <2>1, <2>5, <3>1 DEF SummaryDone, ShowEnd, SummaryGoTo, TypeOK
  <2> QED
    BY <1>2, <2>2, <2>3, <2>4, <2>5 DEF Summary
<1> QED
  BY <1>1, <1>2

LEMMA NetTypes ==
  ASSUME TypeOK, Network, Registers
  PROVE  /\ net' \in Seq(BeatData) /\ n2k' \in BeatData \cup {None}
         /\ k2n_tready' \in BOOLEAN /\ summary_tready' \in BOOLEAN
<1>1. PICK lose \in BOOLEAN,
           deliver \in IF net # << >> /\ (n2k = None \/ n2k_tready) THEN BOOLEAN ELSE {FALSE} :
        LET echo == Sends /\ conf.mode = "latency" /\ ~axis_switch
            fresh == IF echo THEN IF lose THEN << >> ELSE <<k2n>>
                     ELSE IF Begins /\ regs.mode \in {"consumer", "loopback"}
                     THEN PacketsOf(regs.packets, regs.beats)
                     ELSE << >>
        IN  /\ net' = (IF deliver THEN Tail(net) ELSE net) \o fresh
            /\ n2k' = IF deliver THEN Head(net) ELSE IF n2k_tready THEN None ELSE n2k
            /\ k2n_tready' \in BOOLEAN /\ summary_tready' \in BOOLEAN
  BY DEF Network
<1>2. k2n \in BeatData \cup {None}
  BY DEF k2n, TypeOK
<1>3. PacketsOf(regs.packets, regs.beats) \in Seq(BeatData)
  BY PacketsType, ConfigAssumption DEF TypeOK, Config
<1>4. Sends => <<k2n>> \in Seq(BeatData)
  BY <1>2 DEF Sends
<1>5. deliver => net # << >> /\ Tail(net) \in Seq(BeatData) /\ Head(net) \in BeatData
  <2>1. deliver => net # << >>
    OBVIOUS
  <2>2. net \in Seq(BeatData)
    BY DEF TypeOK
  <2>3. net # << >> => Tail(net) \in Seq(BeatData) /\ Head(net) \in BeatData
    BY <2>2, HeadTailProperties
  <2> QED
    BY <2>1, <2>3
<1>6. n2k' \in BeatData \cup {None}
  BY <1>1, <1>5 DEF TypeOK
<1>7. net' \in Seq(BeatData)
  <2>1. << >> \in Seq(BeatData) /\ net \in Seq(BeatData)
    BY DEF TypeOK
  <2> QED
    BY <1>1, <1>3, <1>4, <1>5, <2>1
<1> QED
  BY <1>1, <1>6, <1>7

LEMMA TypeStep ==
  ASSUME TypeOK, Clock
  PROVE  TypeOK'
<1>1. producer' \in BeatData \cup {None} /\ summary' \in SummaryData \cup {None}
  BY MainTypes, SummaryTypes DEF Clock
<1>2. expected' \in Seq(BeatData)
  <2>1. /\ PacketsOf(regs.packets, regs.beats) \in Seq(BeatData)
        /\ PacketsOf(regs.packets, 1) \in Seq(BeatData) /\ << >> \in Seq(BeatData)
    <3>1. regs.packets \in Nat \ {0} /\ regs.beats \in Nat \ {0}
      BY ConfigAssumption DEF TypeOK, Config
    <3>2. 1 \in Nat \ {0} /\ << >> \in Seq(BeatData)
      OBVIOUS
    <3> QED
      BY <3>1, <3>2, PacketsType, Zenon
  <2>2. Waiting(producer') \in Seq(BeatData) /\ expected \in Seq(BeatData)
    BY <1>1, WaitingType DEF TypeOK
  <2> QED
    BY <2>1, <2>2 DEF Clock, Observe
<1>3. sent' \in Seq(BeatData) /\ taken' \in Seq(BeatData)
  <2>1. Sends => k2n \in BeatData
    BY DEF Sends, k2n, TypeOK
  <2>2. Takes => n2k \in BeatData
    BY DEF Takes, TypeOK
  <2> QED
    BY <2>1, <2>2 DEF Clock, Observe, TypeOK
<1>4. summaries' \in Seq(SummaryData) /\ about' \in Seq(Nat) /\ waited' \in Nat
  <2>1. summaries \in Seq(SummaryData) /\ about \in Seq(Nat) /\ Len(taken) + 1 \in Nat
    BY DEF TypeOK
  <2>2. waited' \in Nat
    BY DEF Clock, Observe, TypeOK
  <2>3. IF Begins THEN summaries' = << >> /\ about' = << >>
        ELSE IF axis_summary_free /\ summary' # None
        THEN /\ summaries' = Append(summaries, summary')
             /\ about' = Append(about, Len(taken) + 1)
        ELSE UNCHANGED <<summaries, about>>
    <3>1. Observe
      BY DEF Clock
    <3> QED
      BY <3>1, Zenon DEF Observe
  <2>4. CASE Begins
    BY <2>2, <2>3, <2>4
  <2>5. CASE ~Begins /\ axis_summary_free /\ summary' # None
    <3>1. summary' \in SummaryData
      BY <1>1, <2>5
    <3>2. Append(summaries, summary') \in Seq(SummaryData)
      BY <2>1, <3>1, AppendProperties
    <3>3. Append(about, Len(taken) + 1) \in Seq(Nat)
      BY <2>1, AppendProperties
    <3> QED
      BY <2>2, <2>3, <2>5, <3>2, <3>3
  <2>6. CASE ~Begins /\ ~(axis_summary_free /\ summary' # None)
    BY <2>1, <2>2, <2>3, <2>6
  <2> QED
    BY <2>4, <2>5, <2>6
<1> QED
  BY <1>1, <1>2, <1>3, <1>4, HostTypes, MainTypes, SummaryTypes, NetTypes
     DEF Clock, TypeOK, States

----------------------------------------------------------------------------
(***************************************************************************)
(* The host and the two state machines.                                    *)
(***************************************************************************)
LEMMA StartStep ==
  ASSUME TypeOK, StartInv, Clock
  PROVE  StartInv'
<1>1. /\ ap_start_1d' = ap_start
      /\ reset_fsm =>
           fsm_state' = "GET_CONFIGURATION" /\ ap_done' = FALSE /\ ap_idle' = TRUE
      /\ ~reset_fsm /\ fsm_state = "GET_CONFIGURATION" /\ Started =>
           fsm_state' # "GET_CONFIGURATION" /\ ap_done' = FALSE /\ ap_idle' = FALSE
      /\ ~reset_fsm /\ fsm_state = "GET_CONFIGURATION" /\ ~Started =>
           fsm_state' = "GET_CONFIGURATION" /\ ap_done' = FALSE /\ ap_idle' = TRUE
      /\ ~reset_fsm /\ fsm_state # "GET_CONFIGURATION" =>
           /\ ap_idle' = ap_idle
           /\ fsm_state' = "GET_CONFIGURATION" => ap_done' = TRUE
           /\ fsm_state' # "GET_CONFIGURATION" => ap_done' = ap_done
  BY MainShape DEF Clock
<1>2. /\ start_held' = (~ap_done /\ (ap_start \/ start_held))
      /\ ~ap_done /\ ~done_held => done_held' = FALSE
  BY DEF Clock, Registers, HoldStart, HoldDone
<1>3. CASE Start
  <2>1. /\ ~running /\ ~reset_fsm /\ ~ap_done /\ ~done_held
        /\ ap_start' = TRUE /\ running' = TRUE /\ reset_fsm' = reset_fsm
    BY <1>3 DEF Start
  <2>2. fsm_state = "GET_CONFIGURATION" /\ ~ap_start /\ ~ap_start_1d
    BY <2>1 DEF StartInv
  <2>3. fsm_state' = "GET_CONFIGURATION" /\ ap_done' = FALSE /\ ~ap_start_1d' /\ ~done_held'
    BY <1>1, <1>2, <2>1, <2>2 DEF Started
  <2> QED
    BY <2>1, <2>3 DEF StartInv
<1>4. CASE GiveUp
  <2>1. /\ running /\ ~reset_fsm /\ reset_fsm' = TRUE /\ running' = FALSE /\ ap_start' = FALSE
    BY <1>4 DEF GiveUp, StartInv
  <2>2. fsm_state' # "GET_CONFIGURATION" =>
          ~ap_done' /\ ~ap_start_1d' /\ start_held' /\ ~done_held' /\ ~ap_idle'
    <3>1. CASE fsm_state = "GET_CONFIGURATION"
      BY <1>1, <1>2, <2>1, <3>1 DEF StartInv, Started
    <3>2. CASE fsm_state # "GET_CONFIGURATION"
      BY <1>1, <1>2, <2>1, <3>2 DEF StartInv
    <3> QED
      BY <3>1, <3>2
  <2> QED
    BY <2>1, <2>2 DEF StartInv
<1>5. CASE Wait
  <2>1. /\ ap_start' = FALSE /\ running' = (running /\ ~ap_done)
        /\ ~reset_fsm => reset_fsm' = FALSE
    BY <1>5 DEF Wait
  <2>2. CASE reset_fsm
    BY <1>1, <2>1, <2>2 DEF StartInv
  <2>3. CASE ~reset_fsm /\ fsm_state # "GET_CONFIGURATION"
    <3>1. /\ ~ap_done /\ ~ap_start /\ ~ap_start_1d /\ start_held /\ ~done_held
          /\ running /\ ~ap_idle
      BY <2>3 DEF StartInv
    <3>2. running' /\ ~reset_fsm' /\ ~ap_start'
      BY <2>1, <2>3, <3>1, Zenon
    <3>3. start_held' /\ ~done_held'
      BY <1>2, <3>1, Zenon
    <3>4. ~ap_start_1d' /\ ~ap_idle'
      <4>1. ap_start_1d' = ap_start /\ ap_idle' = ap_idle
        BY <1>1, <2>3
      <4> QED
        BY <3>1, <4>1, Zenon
    <3>5. fsm_state' # "GET_CONFIGURATION" => ~ap_done'
      BY <1>1, <2>3, <3>1
    <3> QED
      BY <3>2, <3>3, <3>4, <3>5 DEF StartInv
  <2>4. CASE ~reset_fsm /\ fsm_state = "GET_CONFIGURATION" /\ Started
    BY <1>1, <1>2, <2>1, <2>4 DEF StartInv, Started
  <2>5. CASE ~reset_fsm /\ fsm_state = "GET_CONFIGURATION" /\ ~Started
    BY <1>1, <1>2, <2>1, <2>5 DEF StartInv, Started
  <2> QED
    BY <2>2, <2>3, <2>4, <2>5
<1> QED
  BY <1>3, <1>4, <1>5 DEF Clock, Host

LEMMA PlaceStep ==
  ASSUME TypeOK, PlaceInv, Clock
  PROVE  PlaceInv'
<1> USE ConfigAssumption
<1> USE DEF PlaceInv, Producing, Probing
<1>1. /\ conf.packets \in Nat \ {0} /\ conf.beats \in Nat \ {0}
      /\ packet_counter \in Nat /\ number_beats_counter \in Int
  BY DEF TypeOK
<1>2. CASE reset_fsm
  BY <1>2 DEF Clock, Main, MainReset, GoTo, TypeOK
<1>3. CASE ~reset_fsm /\ GetConfiguration
  <2>1. CASE ~Started
    BY <1>3, <2>1 DEF GetConfiguration, Stay
  <2>2. CASE Started
    <3>1. /\ conf' = regs /\ packet_counter' = 0
          /\ axis_switch' = (regs.mode = "loopback")
          /\ fsm_state' = CASE regs.mode = "producer" -> "PRODUCE_PAYLOAD_HEADER"
                            [] regs.mode = "latency"  -> "PRODUCE_SMALL"
                            [] OTHER                  -> "FSM_SUMMARY_DONE"
      BY <1>3, <2>2 DEF GetConfiguration, GoTo
    <3>2. /\ regs.packets \in Nat \ {0}
          /\ regs.mode \in {"producer", "latency", "loopback", "consumer"}
      BY DEF TypeOK, Config
    <3>3. CASE regs.mode = "producer"
      BY <3>1, <3>2, <3>3
    <3>4. CASE regs.mode = "latency"
      <4>1. fsm_state' = "PRODUCE_SMALL" /\ conf'.mode = "latency" /\ conf'.packets \in Nat \ {0}
        BY <3>1, <3>2, <3>4
      <4>2. axis_switch' = FALSE
        BY <3>1, <3>4
      <4> QED
        BY <3>1, <4>1, <4>2
    <3>5. CASE regs.mode \in {"loopback", "consumer"}
      BY <3>1, <3>2, <3>5
    <3> QED
      BY <3>2, <3>3, <3>4, <3>5
  <2> QED
    BY <2>1, <2>2
<1>4. CASE ~reset_fsm /\ ProduceHeader
  BY <1>1, <1>4 DEF ProduceHeader, LastPacket, AfterPacket, GoTo, Stay, counterVars
<1>5. CASE ~reset_fsm /\ ProduceRemaining
  BY <1>1, <1>5 DEF ProduceRemaining, LastPacket, AfterPacket, GoTo, Stay, counterVars
<1>6. CASE ~reset_fsm /\ WaitNCycles
  BY <1>1, <1>6 DEF WaitNCycles, GoTo, Stay
<1>7. CASE ~reset_fsm /\ ProduceSmall
  <2>1. CASE axis_producer_free
    <3>1. /\ packet_counter' = packet_counter + 1 /\ conf' = conf /\ axis_switch' = axis_switch
          /\ fsm_state = "PRODUCE_SMALL"
          /\ fsm_state' = IF packet_counter + 1 = conf.packets THEN "FSM_SUMMARY_DONE"
                          ELSE IF conf.tbp # 0 THEN "WAIT_N_CYCLES_LATENCY" ELSE "PRODUCE_SMALL"
      BY <1>7, <2>1 DEF ProduceSmall, LastPacket, AfterPacket, GoTo
    <3> QED
      BY <1>1, <3>1
  <2>2. CASE ~axis_producer_free
    BY <1>7, <2>2, Zenon DEF ProduceSmall, Stay, counterVars
  <2> QED
    BY <2>1, <2>2
<1>8. CASE ~reset_fsm /\ FsmDone
  BY <1>8 DEF FsmDone, GoTo, counterVars
<1>9. CASE ~reset_fsm /\ FsmSummaryDone
  BY <1>9 DEF FsmSummaryDone, GoTo, Stay, counterVars
<1> QED
  BY <1>2, <1>3, <1>4, <1>5, <1>6, <1>7, <1>8, <1>9 DEF Clock, Main

LEMMA HandOverStep ==
  ASSUME IInv, Clock
  PROVE  HandOver'
<1>1. TypeOK /\ StartInv /\ HandOver /\ PlaceInv
  BY DEF IInv
<1>2. /\ reset_fsm =>
           fsm_state' = "GET_CONFIGURATION" /\ ap_done' = FALSE /\ ap_idle' = TRUE
      /\ ~reset_fsm /\ fsm_state = "GET_CONFIGURATION" /\ Started =>
           fsm_state' # "GET_CONFIGURATION" /\ ap_done' = FALSE /\ ap_idle' = FALSE
      /\ ~reset_fsm /\ fsm_state = "GET_CONFIGURATION" /\ ~Started =>
           fsm_state' = "GET_CONFIGURATION" /\ ap_done' = FALSE /\ ap_idle' = TRUE
      /\ ~reset_fsm /\ fsm_state # "GET_CONFIGURATION" => ap_idle' = ap_idle
  BY MainShape DEF Clock
<1>3. CASE reset_fsm
  BY <1>2, <1>3 DEF Clock, Summary, SummaryReset, SummaryGoTo, HandOver, FirstCycle
<1>4. CASE ~reset_fsm /\ fsm_state = "GET_CONFIGURATION"
  <2>1. fsm_summary_state = "WAIT_UNTIL_MODE" /\ ~FirstCycle
    BY <1>1, <1>4 DEF HandOver, FirstCycle
  <2>2. /\ ap_idle_1d' = ap_idle /\ fsm_summary_state' = "WAIT_UNTIL_MODE"
        /\ summary_idle' = TRUE
    BY <1>4, <2>1 DEF Clock, Summary, WaitUntilMode, WaitPacket, ConsumePacket, SummaryDone,
                      FirstCycle
  <2>3. Started => ap_idle
    BY <1>1, <1>4 DEF StartInv, Started
  <2> QED
    BY <1>2, <1>4, <2>2, <2>3 DEF HandOver, FirstCycle
<1>5. CASE ~reset_fsm /\ fsm_state # "GET_CONFIGURATION"
  <2>1. ~ap_idle /\ ap_idle' = ap_idle /\ ap_idle_1d' = ap_idle
    BY <1>1, <1>2, <1>5 DEF StartInv, Clock, Summary
  <2>2. conf' = conf
    BY <1>5 DEF Clock, Main, GetConfiguration, ProduceHeader, ProduceRemaining, WaitNCycles,
                ProduceSmall, FsmDone, FsmSummaryDone
  <2>3. fsm_state' = "GET_CONFIGURATION" =>
          \/ conf.mode = "producer"
          \/ ~summary_idle /\ summary_done
    BY <1>1, <1>5 DEF Clock, Main, GetConfiguration, ProduceHeader, ProduceRemaining,
         WaitNCycles, ProduceSmall, FsmDone, FsmSummaryDone, AfterPacket, GoTo, Stay, PlaceInv
  <2>4. CASE WaitUntilMode
    <3>1. CASE FirstCycle
      <4>1. summary_idle
        BY <1>1, <3>1 DEF HandOver
      <4>2. conf.mode \in {"latency", "consumer"} => fsm_state' # "GET_CONFIGURATION"
        BY <2>3, <4>1
      <4>3. conf.mode \in {"latency", "consumer"} =>
              output_summary_mask' = (conf.mode # "consumer") /\ summary_done' = FALSE
        BY <2>4, <3>1 DEF WaitUntilMode, FirstCycle
      <4>4. conf.mode \notin {"latency", "consumer"} =>
              fsm_summary_state' = "WAIT_UNTIL_MODE"
        BY <2>4 DEF WaitUntilMode
      <4> QED
        BY <2>1, <2>2, <4>2, <4>3, <4>4 DEF HandOver, FirstCycle
    <3>2. CASE ~FirstCycle
      BY <2>1, <2>4, <3>2 DEF HandOver, FirstCycle, WaitUntilMode
    <3> QED
      BY <3>1, <3>2
  <2>5. CASE WaitPacket \/ ConsumePacket \/ SummaryDone
    <3>1. /\ ~summary_done /\ conf.mode \in {"latency", "consumer"}
          /\ output_summary_mask = (conf.mode # "consumer")
      BY <1>1, <2>5 DEF HandOver, WaitPacket, ConsumePacket, SummaryDone
    <3>2. fsm_state' # "GET_CONFIGURATION"
      BY <2>3, <3>1
    <3>3. output_summary_mask' = output_summary_mask
      BY <2>5 DEF WaitPacket, ConsumePacket, SummaryDone
    <3>4. fsm_summary_state' # "WAIT_UNTIL_MODE" => summary_done' = summary_done
      BY <2>5 DEF WaitPacket, ConsumePacket, SummaryDone, SummaryGoTo
    <3> QED
      BY <2>1, <2>2, <3>1, <3>2, <3>3, <3>4 DEF HandOver, FirstCycle
  <2> QED
    BY <1>5, <2>4, <2>5 DEF Clock, Summary
<1> QED
  BY <1>3, <1>4, <1>5

LEMMA InitIInv == Init => IInv
<1> SUFFICES ASSUME Init PROVE IInv
  OBVIOUS
<1>1. regs \in Config /\ conf = [regs EXCEPT !.mode = "producer"]
  BY DEF Init
<1>2. conf \in [mode : Modes \cup {"producer"}, packets : Packets, beats : Beats, tbp : Gaps]
      /\ conf.mode = "producer"
  BY <1>1 DEF Config
<1>3. TypeOK
  <2>1. /\ net \in Seq(BeatData) /\ sent \in Seq(BeatData) /\ taken \in Seq(BeatData)
        /\ expected \in Seq(BeatData) /\ summaries \in Seq(SummaryData) /\ about \in Seq(Nat)
    BY DEF Init
  <2>2. /\ running \in BOOLEAN /\ ap_start \in BOOLEAN /\ reset_fsm \in BOOLEAN
        /\ start_held \in BOOLEAN /\ done_held \in BOOLEAN /\ ap_start_1d \in BOOLEAN
        /\ axis_switch \in BOOLEAN /\ ap_done \in BOOLEAN /\ ap_idle \in BOOLEAN
    BY DEF Init
  <2>3. /\ summary_idle \in BOOLEAN /\ summary_done \in BOOLEAN
        /\ output_summary_mask \in BOOLEAN /\ end_of_stream \in BOOLEAN
        /\ ap_idle_1d \in BOOLEAN /\ timeout_counter \in Nat
        /\ k2n_tready \in BOOLEAN /\ summary_tready \in BOOLEAN
    BY DEF Init
  <2>4. /\ packet_counter = 0 /\ number_beats_counter = 0
        /\ time_between_packets_counter = 0 /\ waited = 0
        /\ producer = None /\ n2k = None /\ summary = None
        /\ fsm_state = "GET_CONFIGURATION" /\ fsm_summary_state = "WAIT_UNTIL_MODE"
    BY DEF Init
  <2> QED
    BY <1>1, <1>2, <2>1, <2>2, <2>3, <2>4 DEF TypeOK
<1> QED
  BY <1>2, <1>3 DEF Init, IInv, StartInv, HandOver, PlaceInv, FirstCycle, Producing, Probing

LEMMA Invariance == Spec => []IInv
<1>1. IInv /\ [Next]_vars => IInv'
  <2> SUFFICES ASSUME IInv, [Next]_vars PROVE IInv'
    OBVIOUS
  <2>1. CASE Clock
    BY <2>1, TypeStep, StartStep, PlaceStep, HandOverStep DEF IInv
  <2>2. CASE UNCHANGED vars
    BY <2>2 DEF vars, hostVars, counterVars, mainVars, summaryVars, netVars, ghosts, IInv,
                TypeOK, StartInv, HandOver, PlaceInv, FirstCycle
  <2> QED
    BY <2>1, <2>2 DEF Next
<1> QED
  BY <1>1, InitIInv, PTL DEF Spec

\* While a run lasts the status register shows ap_start and not the end of an earlier
\* run, whenever the host polls, starts and gives up (axi4lite.v:457).
THEOREM StatusIsHonest == Spec => []StatusHonest
<1>1. IInv => StatusHonest
  BY DEF IInv, StartInv, StatusHonest
<1> QED
  BY <1>1, Invariance, PTL

----------------------------------------------------------------------------
(***************************************************************************)
(* What is sent.                                                           *)
(***************************************************************************)
LEMMA OneMore ==
  ASSUME NEW n \in Int, NEW p \in Int, NEW b \in Int
  PROVE  /\ (n - p) * b = (n - (p + 1)) * b + b
         /\ (n - p) * b \in Int /\ (n - (p + 1)) * b \in Int
OBVIOUS

LEMMA DivMod ==
  ASSUME NEW b \in Nat \ {0}, NEW p \in Int, NEW j \in 0 .. b - 1
  PROVE  (p * b + j) \div b = p /\ (p * b + j) % b = j
OBVIOUS

\* The beat with number j of packet p; the last one of a packet, and no other, has TLAST.
LEMMA PacketAt ==
  ASSUME NEW n \in Nat \ {0}, NEW b \in Nat \ {0}, NEW p \in 0 .. n - 1,
         NEW j \in 0 .. b - 1
  PROVE  /\ p * b + j + 1 \in 1 .. n * b
         /\ PacketsOf(n, b)[p * b + j + 1] = Beat(p, n, j + 1 = b)
<1>1. p * b + j + 1 \in 1 .. n * b
  <2>1. p * b \in Nat /\ n * b \in Nat /\ (p + 1) * b = p * b + b
    OBVIOUS
  <2>2. (p + 1) * b <= n * b
    OBVIOUS
  <2> QED
    BY <2>1, <2>2
<1>2. (p * b + j) \div b = p
  BY DivMod
<1>3. ((p * b + j + 1) % b = 0) = (j + 1 = b)
  <2>1. CASE j + 1 = b
    <3>1. p * b + j + 1 = (p + 1) * b + 0 /\ p + 1 \in Nat /\ 0 \in 0 .. b - 1
      BY <2>1
    <3> QED
      BY <2>1, <3>1, DivMod
  <2>2. CASE j + 1 # b
    <3>1. j + 1 \in 0 .. b - 1
      BY <2>2
    <3>2. (p * b + (j + 1)) % b = j + 1
      BY <3>1, DivMod
    <3>3. p * b + (j + 1) = p * b + j + 1
      OBVIOUS
    <3> QED
      BY <2>2, <3>2, <3>3
  <2> QED
    BY <2>1, <2>2
<1>4. (p * b + j + 1) - 1 = p * b + j
  OBVIOUS
<1> QED
  BY <1>1, <1>2, <1>3, <1>4 DEF PacketsOf

LEMMA LoadedType ==
  ASSUME NEW s \in Seq(BeatData), NEW slot \in BeatData \cup {None}
  PROVE  /\ s \o Waiting(slot) \in Seq(BeatData)
         /\ Len(s \o Waiting(slot)) = Len(s) + (IF slot = None THEN 0 ELSE 1)
         /\ \A i \in 1 .. Len(s) : (s \o Waiting(slot))[i] = s[i]
         /\ slot # None => (s \o Waiting(slot))[Len(s) + 1] = slot
<1>1. /\ Waiting(slot) \in Seq(BeatData)
      /\ Len(Waiting(slot)) = IF slot = None THEN 0 ELSE 1
      /\ slot # None => Waiting(slot)[1] = slot
  BY WaitingType
<1> QED
  BY <1>1, ConcatProperties

LEMMA LoadedLength ==
  ASSUME TypeOK
  PROVE  Len(Loaded) \in Nat /\ Len(expected) \in Nat
<1>1. /\ sent \in Seq(BeatData) /\ producer \in BeatData \cup {None}
      /\ expected \in Seq(BeatData)
  BY DEF TypeOK
<1>2. Loaded \in Seq(BeatData)
  BY <1>1, LoadedType DEF Loaded
<1> QED
  BY <1>1, <1>2

\* An edge moves the register into what has been sent, or leaves it.
LEMMA SentStep ==
  ASSUME TypeOK, ~axis_switch, ~Begins, Observe
  PROVE  /\ expected' = expected
         /\ sent' = IF producer # None /\ k2n_tready THEN Append(sent, producer) ELSE sent
BY DEF Observe, Sends, k2n

LEMMA Drains ==
  ASSUME TypeOK, TypeOK', ~axis_switch, ~Begins, Observe, Drain
  PROVE  /\ expected' = expected /\ Len(Loaded') = Len(Loaded)
         /\ \A i \in 1 .. Len(Loaded) : Loaded'[i] = Loaded[i]
<1>1. /\ Len(Loaded) = Len(sent) + (IF producer = None THEN 0 ELSE 1)
      /\ \A i \in 1 .. Len(sent) : Loaded[i] = sent[i]
      /\ producer # None => Loaded[Len(sent) + 1] = producer
      /\ sent \in Seq(BeatData)
  BY LoadedType DEF TypeOK, Loaded
<1>2. /\ Len(Loaded') = Len(sent') + (IF producer' = None THEN 0 ELSE 1)
      /\ \A i \in 1 .. Len(sent') : Loaded'[i] = sent'[i]
      /\ producer' # None => Loaded'[Len(sent') + 1] = producer'
  <2>1. sent' \in Seq(BeatData) /\ producer' \in BeatData \cup {None}
    BY DEF TypeOK
  <2>2. Loaded' = sent' \o Waiting(producer')
    BY DEF Loaded, Waiting
  <2> QED
    BY <2>1, <2>2, LoadedType
<1>3. /\ expected' = expected
      /\ sent' = IF producer # None /\ k2n_tready THEN Append(sent, producer) ELSE sent
      /\ producer' = IF k2n_tready THEN None ELSE producer
  BY SentStep DEF Drain
<1>4. CASE producer # None /\ k2n_tready
  <2>1. sent' = Append(sent, producer) /\ producer' = None
    BY <1>3, <1>4
  <2> QED
    BY <1>1, <1>2, <1>3, <1>4, <2>1
<1>5. CASE ~(producer # None /\ k2n_tready)
  <2>1. sent' = sent /\ producer' = producer
    BY <1>3, <1>5
  <2>2. Loaded' = Loaded
    BY <2>1 DEF Loaded
  <2> QED
    BY <1>3, <2>2
<1> QED
  BY <1>4, <1>5

LEMMA LoadsOne ==
  ASSUME TypeOK, TypeOK', ~axis_switch, ~Begins, Observe, axis_producer_free,
         producer' # None
  PROVE  /\ expected' = expected /\ Len(Loaded') = Len(Loaded) + 1
         /\ \A i \in 1 .. Len(Loaded) : Loaded'[i] = Loaded[i]
         /\ Loaded'[Len(Loaded) + 1] = producer'
<1>1. /\ Len(Loaded) = Len(sent) + (IF producer = None THEN 0 ELSE 1)
      /\ \A i \in 1 .. Len(sent) : Loaded[i] = sent[i]
      /\ producer # None => Loaded[Len(sent) + 1] = producer
      /\ sent \in Seq(BeatData)
  BY LoadedType DEF TypeOK, Loaded
<1>2. /\ Len(Loaded') = Len(sent') + 1
      /\ \A i \in 1 .. Len(sent') : Loaded'[i] = sent'[i]
      /\ Loaded'[Len(sent') + 1] = producer'
  <2>1. sent' \in Seq(BeatData) /\ producer' \in BeatData \cup {None}
    BY DEF TypeOK
  <2>2. Loaded' = sent' \o Waiting(producer')
    BY DEF Loaded, Waiting
  <2> QED
    BY <2>1, <2>2, LoadedType
<1>3. /\ expected' = expected
      /\ sent' = IF producer # None /\ k2n_tready THEN Append(sent, producer) ELSE sent
      /\ producer # None => k2n_tready
  BY SentStep DEF axis_producer_free, k2n
<1>4. CASE producer # None
  <2>1. sent' = Append(sent, producer)
    BY <1>3, <1>4
  <2> QED
    BY <1>1, <1>2, <1>3, <1>4, <2>1
<1>5. CASE producer = None
  BY <1>1, <1>2, <1>3, <1>5
<1> QED
  BY <1>4, <1>5

\* What the counters say the next beat is, is what is expected next.
LEMMA NextBeat ==
  ASSUME IInv, ProducedInv, ~axis_switch, fsm_state \in Producing \cup Probing,
         NEW p \in 0 .. conf.packets - 1, NEW j \in 0 .. RunBeats - 1,
         Left = conf.packets * RunBeats - (p * RunBeats + j)
  PROVE  /\ Len(Loaded) < Len(expected)
         /\ expected[Len(Loaded) + 1] = Beat(p, conf.packets, j + 1 = RunBeats)
<1> DEFINE n == conf.packets
           b == RunBeats
<1>1. n \in Nat \ {0} /\ b \in Nat \ {0}
  <2>1. conf.packets \in Nat \ {0} /\ conf.beats \in Nat \ {0}
    BY ConfigAssumption DEF IInv, TypeOK
  <2> QED
    BY <2>1 DEF RunBeats
<1>2. fsm_state # "GET_CONFIGURATION"
  BY DEF Producing, Probing
<1>3. /\ Len(expected) = Len(Loaded) + Left
      /\ \A k \in 1 .. n * b : expected[Len(expected) - n * b + k] = PacketsOf(n, b)[k]
  BY <1>2 DEF ProducedInv
<1>4. /\ p * b + j + 1 \in 1 .. n * b
      /\ PacketsOf(n, b)[p * b + j + 1] = Beat(p, n, j + 1 = b)
  <2>1. p \in 0 .. n - 1 /\ j \in 0 .. b - 1
    OBVIOUS
  <2> HIDE DEF n, b
  <2> QED
    BY <1>1, <2>1, PacketAt
<1>5. Len(Loaded) \in Nat /\ Len(expected) \in Nat
  BY LoadedLength DEF IInv
<1> HIDE DEF n, b
<1>6. p * b \in Nat /\ n * b \in Nat
  BY <1>1
<1>7. Left = n * b - (p * b + j)
  BY DEF n, b
<1>8. Len(expected) - n * b + (p * b + j + 1) = Len(Loaded) + 1 /\ Len(Loaded) < Len(expected)
  BY <1>3, <1>4, <1>5, <1>6, <1>7
<1>9. expected[Len(Loaded) + 1] = Beat(p, n, j + 1 = b)
  BY <1>3, <1>4, <1>8
<1> QED
  BY <1>8, <1>9 DEF n, b

Sending == fsm_state \in Producing \cup Probing

LEMMA LoadKeeps ==
  ASSUME IInv, TypeOK', ProducedInv, ~axis_switch, ~Begins, Observe, axis_producer_free,
         Sending, conf' = conf, NEW p \in 0 .. conf.packets - 1, NEW j \in 0 .. RunBeats - 1,
         Left = conf.packets * RunBeats - (p * RunBeats + j), Left' = Left - 1,
         producer' = Beat(p, conf.packets, j + 1 = RunBeats)
  PROVE  ProducedInv'
<1>1. /\ Len(Loaded) < Len(expected)
      /\ expected[Len(Loaded) + 1] = producer'
  BY NextBeat DEF Sending
<1>2. producer' # None
  <2>1. conf.packets \in Nat
    BY ConfigAssumption DEF IInv, TypeOK
  <2>2. p \in Int
    BY <2>1
  <2>3. (j + 1 = RunBeats) \in BOOLEAN
    OBVIOUS
  <2>4. producer' \in BeatData
    BY <2>1, <2>2, <2>3, BeatType, Zenon
  <2> QED
    BY <2>4, NoneAssumption
<1>3. /\ expected' = expected /\ Len(Loaded') = Len(Loaded) + 1
      /\ \A i \in 1 .. Len(Loaded) : Loaded'[i] = Loaded[i]
      /\ Loaded'[Len(Loaded) + 1] = producer'
  BY <1>2, LoadsOne DEF IInv
<1>4. fsm_state # "GET_CONFIGURATION"
  BY DEF Sending, Producing, Probing
<1>5. /\ Len(expected) = Len(Loaded) + Left
      /\ \A i \in 1 .. Len(Loaded) : Loaded[i] = expected[i]
  BY <1>4 DEF ProducedInv
<1>6. Len(Loaded) \in Nat /\ Len(expected) \in Nat
  BY LoadedLength DEF IInv
<1>7. Len(expected') = Len(Loaded') + Left' /\ Len(Loaded') <= Len(expected')
  BY <1>1, <1>3, <1>5, <1>6
<1>8. \A i \in 1 .. Len(Loaded') : Loaded'[i] = expected'[i]
  BY <1>1, <1>3, <1>5, <1>6
<1>9. RunBeats' = RunBeats
  BY DEF RunBeats
<1>10. LET all == conf.packets * RunBeats
       IN  /\ all <= Len(expected)
           /\ \A k \in 1 .. all :
                expected[Len(expected) - all + k] = PacketsOf(conf.packets, RunBeats)[k]
  BY DEF ProducedInv, Sending
<1> QED
  BY <1>3, <1>7, <1>8, <1>9, <1>10 DEF ProducedInv, PacketsOf, Beat

LEMMA DrainKeeps ==
  ASSUME IInv, TypeOK', ProducedInv, ~axis_switch, ~Begins, Observe, Drain, conf' = conf,
         Sending' => Sending,
         fsm_state' # "GET_CONFIGURATION" \/ ap_done' =>
           Left' = Left /\ fsm_state # "GET_CONFIGURATION"
  PROVE  ProducedInv'
<1>1. /\ expected' = expected /\ Len(Loaded') = Len(Loaded)
      /\ \A i \in 1 .. Len(Loaded) : Loaded'[i] = Loaded[i]
  BY Drains DEF IInv
<1>2. /\ Len(Loaded) <= Len(expected)
      /\ \A i \in 1 .. Len(Loaded) : Loaded[i] = expected[i]
      /\ fsm_state # "GET_CONFIGURATION" => Len(expected) = Len(Loaded) + Left
  BY DEF ProducedInv
<1>3. RunBeats' = RunBeats
  BY DEF RunBeats
<1>4. Sending =>
        LET all == conf.packets * RunBeats
        IN  /\ all <= Len(expected)
            /\ \A k \in 1 .. all :
                 expected[Len(expected) - all + k] = PacketsOf(conf.packets, RunBeats)[k]
  BY DEF ProducedInv, Sending
<1> QED
  BY <1>1, <1>2, <1>3, <1>4 DEF ProducedInv, PacketsOf, Beat, Sending

\* The start: what is expected is what is left in the register and the new packets.
LEMMA BeginKeeps ==
  ASSUME IInv, TypeOK', Clock, Begins
  PROVE  ProducedInv'
<1> DEFINE rest == CASE regs.mode = "producer" -> PacketsOf(regs.packets, regs.beats)
                     [] regs.mode = "latency"  -> PacketsOf(regs.packets, 1)
                     [] OTHER -> << >>
           n == regs.packets
           b == IF regs.mode = "latency" THEN 1 ELSE regs.beats
<1>1. /\ regs.packets \in Nat \ {0} /\ regs.beats \in Nat \ {0}
      /\ regs.mode \in {"producer", "latency", "loopback", "consumer"}
  BY ConfigAssumption DEF IInv, TypeOK, Config
<1>2. n \in Nat \ {0} /\ b \in Nat \ {0}
  BY <1>1
<1>3. GetConfiguration /\ Started
  BY DEF Begins, Clock, Main, ProduceHeader, ProduceRemaining, WaitNCycles, ProduceSmall,
         FsmDone, FsmSummaryDone
<1>4. /\ conf' = regs /\ packet_counter' = 0
      /\ fsm_state' = CASE regs.mode = "producer" -> "PRODUCE_PAYLOAD_HEADER"
                        [] regs.mode = "latency"  -> "PRODUCE_SMALL"
                        [] OTHER                  -> "FSM_SUMMARY_DONE"
  BY <1>3 DEF GetConfiguration, GoTo
<1>5. /\ sent' = << >> /\ expected' = Waiting(producer') \o rest
  BY DEF Clock, Observe
<1>6. Waiting(producer') \in Seq(BeatData)
  BY WaitingType DEF TypeOK
<1>7. Loaded' = Waiting(producer')
  <2>1. Loaded' = << >> \o Waiting(producer')
    BY <1>5 DEF Loaded, Waiting
  <2> QED
    BY <1>6, <2>1
<1>8. RunBeats' = b
  BY <1>4 DEF RunBeats
<1>9. CASE regs.mode \in {"producer", "latency"}
  <2>1. rest = PacketsOf(n, b)
    BY <1>9
  <2>2. rest \in Seq(BeatData) /\ Len(rest) = n * b
    BY <1>2, <2>1, PacketsType
  <2>3. fsm_state' \in {"PRODUCE_PAYLOAD_HEADER", "PRODUCE_SMALL"}
    BY <1>4, <1>9
  <2>4. Left' = n * b
    <3>1. Left' = (n - 0) * b + 0
      BY <1>4, <1>8, <2>3 DEF Left, Producing, Probing
    <3> HIDE DEF n, b
    <3>2. n * b \in Nat
      BY <1>2
    <3> QED
      BY <1>2, <3>1, <3>2
  <2>5. /\ Len(expected') = Len(Loaded') + n * b
        /\ \A i \in 1 .. Len(Loaded') : Loaded'[i] = expected'[i]
        /\ \A k \in 1 .. n * b : expected'[Len(Loaded') + k] = PacketsOf(n, b)[k]
    <3> HIDE DEF n, b, rest
    <3>1. n * b \in Nat
      BY <1>2
    <3> QED
      BY <1>5, <1>6, <1>7, <2>1, <2>2, <3>1, ConcatProperties
  <2>6. Len(Loaded') \in Nat /\ n * b \in Nat
    <3> HIDE DEF n, b
    <3> QED
      BY <1>2, <1>6, <1>7
  <2>7. conf'.packets * RunBeats' = n * b
    BY <1>4, <1>8
  <2> HIDE DEF n, b, rest
  <2>8. /\ n * b <= Len(expected')
        /\ \A k \in 1 .. n * b :
             expected'[Len(expected') - n * b + k] = PacketsOf(n, b)[k]
    <3>1. Len(expected') - n * b = Len(Loaded')
      BY <2>5, <2>6
    <3>2. \A k \in 1 .. n * b :
            Len(expected') - n * b + k = Len(Loaded') + k
      BY <2>5, <2>6
    <3> QED
      BY <2>5, <2>6, <3>2
  <2>9. PacketsOf(n, b) = PacketsOf(conf'.packets, RunBeats')
    BY <1>4, <1>8 DEF n
  <2>10. /\ Len(Loaded') <= Len(expected')
         /\ Len(expected') = Len(Loaded') + Left'
    BY <2>4, <2>5, <2>6
  <2> QED
    BY <2>5, <2>7, <2>8, <2>9, <2>10 DEF ProducedInv, PacketsOf, Beat
<1>10. CASE regs.mode \in {"loopback", "consumer"}
  <2>1. rest = << >> /\ fsm_state' = "FSM_SUMMARY_DONE"
    BY <1>4, <1>10
  <2>2. expected' = Loaded'
    BY <1>5, <1>6, <1>7, <2>1
  <2>3. Left' = 0
    BY <2>1 DEF Left, Producing, Probing
  <2>4. Len(Loaded') \in Nat
    BY <1>6, <1>7
  <2> QED
    BY <2>1, <2>2, <2>3, <2>4 DEF ProducedInv, Producing, Probing
<1> QED
  BY <1>1, <1>9, <1>10

LEMMA ProducedStep ==
  ASSUME IInv, TypeOK', PlaceInv', ProducedInv, Clock
  PROVE  ProducedInv'
<1> SUFFICES ASSUME ~axis_switch' PROVE ProducedInv'
  BY DEF ProducedInv
<1>1. CASE Begins
  BY <1>1, BeginKeeps
<1> SUFFICES ASSUME ~Begins PROVE ProducedInv'
  BY <1>1
<1>2. Observe
  BY DEF Clock
<1>3. /\ conf.packets \in Nat \ {0} /\ conf.beats \in Nat \ {0}
      /\ packet_counter \in Nat /\ number_beats_counter \in Int
  BY ConfigAssumption DEF IInv, TypeOK
<1>4. CASE reset_fsm
  <2>1. /\ producer' = None /\ fsm_state' = "GET_CONFIGURATION" /\ ap_done' = FALSE
        /\ ~axis_switch
    BY <1>4 DEF Clock, Main, MainReset, GoTo
  <2>2. /\ expected' = expected
        /\ sent' = IF producer # None /\ k2n_tready THEN Append(sent, producer) ELSE sent
    BY <1>2, <2>1, SentStep DEF IInv
  <2>3. /\ Len(Loaded) = Len(sent) + (IF producer = None THEN 0 ELSE 1)
        /\ \A i \in 1 .. Len(sent) : Loaded[i] = sent[i]
        /\ producer # None => Loaded[Len(sent) + 1] = producer
        /\ sent \in Seq(BeatData)
    BY LoadedType DEF IInv, TypeOK, Loaded
  <2>4. Loaded' = sent'
    <3>1. Loaded' = sent' \o << >>
      BY <2>1 DEF Loaded, Waiting
    <3>2. sent' \in Seq(BeatData)
      BY DEF TypeOK
    <3> QED
      BY <3>1, <3>2
  <2>5. /\ Len(sent') <= Len(Loaded)
        /\ \A i \in 1 .. Len(sent') : sent'[i] = Loaded[i]
    BY <2>2, <2>3
  <2>6. /\ Len(Loaded) <= Len(expected)
        /\ \A i \in 1 .. Len(Loaded) : Loaded[i] = expected[i]
    BY <2>1 DEF ProducedInv
  <2>7. Len(Loaded) \in Nat /\ Len(expected) \in Nat /\ Len(sent') \in Nat
    BY LoadedLength DEF IInv, TypeOK
  <2> QED
    BY <2>1, <2>2, <2>4, <2>5, <2>6, <2>7 DEF ProducedInv, Producing, Probing
<1>5. CASE ~reset_fsm /\ GetConfiguration
  <2>1. fsm_state' = "GET_CONFIGURATION" /\ ap_done' = FALSE /\ conf' = conf
        /\ axis_switch' = axis_switch /\ Drain
    BY <1>5 DEF GetConfiguration, Begins, Stay
  <2> QED
    BY <1>2, <2>1, DrainKeeps DEF Sending, Producing, Probing
<1>6. CASE ~reset_fsm /\ fsm_state # "GET_CONFIGURATION"
  <2>1. /\ conf' = conf /\ axis_switch' = axis_switch /\ ~axis_switch
    BY <1>6 DEF Clock, Main, GetConfiguration, ProduceHeader, ProduceRemaining, WaitNCycles,
                ProduceSmall, FsmDone, FsmSummaryDone
  <2>2. RunBeats' = RunBeats
    BY <2>1 DEF RunBeats
  <2>3. CASE ProduceHeader
    <3>1. /\ fsm_state = "PRODUCE_PAYLOAD_HEADER" /\ RunBeats = conf.beats /\ Sending
          /\ packet_counter < conf.packets
      BY <2>3 DEF ProduceHeader, IInv, PlaceInv, RunBeats, Sending, Producing, Probing
    <3>2. Left = (conf.packets - packet_counter) * conf.beats
      BY <1>3, <3>1 DEF Left, Sending
    <3>3. CASE axis_producer_free
      <4>1. /\ producer' = Beat(packet_counter, conf.packets, conf.beats = 1)
            /\ packet_counter' = packet_counter + 1
            /\ number_beats_counter' = conf.beats - 1
            /\ fsm_state' = IF conf.beats = 1
                            THEN IF packet_counter + 1 = conf.packets THEN "FSM_DONE"
                                 ELSE IF conf.tbp # 0 THEN "WAIT_N_CYCLES"
                                 ELSE "PRODUCE_PAYLOAD_HEADER"
                            ELSE "PRODUCE_PAYLOAD_REMAINING"
        BY <2>3, <3>3 DEF ProduceHeader, Load, LastPacket, AfterPacket, GoTo
      <4>2. Left' = Left - 1
        <5>1. (conf.packets - packet_counter) * conf.beats
                = (conf.packets - (packet_counter + 1)) * conf.beats + conf.beats
          <6>1. conf.packets \in Int /\ packet_counter \in Int /\ conf.beats \in Int
            BY <1>3
          <6> QED
            BY <6>1, OneMore, Zenon
        <5>2. (conf.packets - (packet_counter + 1)) * conf.beats \in Int
          BY <1>3
        <5>3. CASE conf.beats # 1
          <6>1. Left' = (conf.packets - (packet_counter + 1)) * conf.beats + (conf.beats - 1)
            BY <2>1, <2>2, <3>1, <4>1, <5>3 DEF Left, Producing, Probing
          <6> QED
            BY <1>3, <3>2, <5>1, <5>2, <6>1
        <5>4. CASE conf.beats = 1 /\ packet_counter + 1 = conf.packets
          <6>1. Left' = 0
            BY <4>1, <5>4 DEF Left, Producing, Probing
          <6> QED
            BY <1>3, <3>2, <5>4, <6>1
        <5>5. CASE conf.beats = 1 /\ packet_counter + 1 # conf.packets
          <6>1. Left' = (conf.packets - (packet_counter + 1)) * conf.beats + 0
            BY <2>1, <2>2, <3>1, <4>1, <5>5 DEF Left, Producing, Probing
          <6> QED
            BY <1>3, <3>2, <5>1, <5>2, <5>5, <6>1
        <5> QED
          BY <5>3, <5>4, <5>5
      <4>3. /\ packet_counter \in 0 .. conf.packets - 1 /\ 0 \in 0 .. RunBeats - 1
            /\ Left = conf.packets * RunBeats - (packet_counter * RunBeats + 0)
            /\ producer' = Beat(packet_counter, conf.packets, 0 + 1 = RunBeats)
        <5>1. (0 + 1 = RunBeats) = (conf.beats = 1)
          BY <1>3, <3>1
        <5>2. producer' = Beat(packet_counter, conf.packets, 0 + 1 = RunBeats)
          BY <4>1, <5>1
        <5>3. (conf.packets - packet_counter) * conf.beats
                = conf.packets * conf.beats - packet_counter * conf.beats
              /\ packet_counter * conf.beats \in Int /\ conf.packets * conf.beats \in Int
          BY <1>3
        <5> QED
          BY <1>3, <3>1, <3>2, <5>2, <5>3
      <4> QED
        BY <1>2, <2>1, <3>1, <3>3, <4>2, <4>3, LoadKeeps
    <3>4. CASE ~axis_producer_free
      BY <1>2, <2>1, <2>2, <2>3, <3>1, <3>4, DrainKeeps
         DEF ProduceHeader, Stay, counterVars, Left, Sending
    <3> QED
      BY <3>3, <3>4
  <2>4. CASE ProduceRemaining
    <3>1. /\ fsm_state = "PRODUCE_PAYLOAD_REMAINING" /\ RunBeats = conf.beats /\ Sending
          /\ packet_counter \in 1 .. conf.packets
          /\ number_beats_counter \in 1 .. conf.beats - 1
      BY <1>3, <2>4 DEF ProduceRemaining, IInv, PlaceInv, RunBeats, Sending, Producing, Probing
    <3>2. Left = (conf.packets - packet_counter) * conf.beats + number_beats_counter
      BY <3>1 DEF Left, Sending
    <3>3. CASE axis_producer_free
      <4>1. /\ producer' = Beat(packet_counter - 1, conf.packets, number_beats_counter = 1)
            /\ packet_counter' = packet_counter
            /\ number_beats_counter' = number_beats_counter - 1
            /\ fsm_state' = IF number_beats_counter = 1
                            THEN IF packet_counter = conf.packets THEN "FSM_DONE"
                                 ELSE IF conf.tbp # 0 THEN "WAIT_N_CYCLES"
                                 ELSE "PRODUCE_PAYLOAD_HEADER"
                            ELSE "PRODUCE_PAYLOAD_REMAINING"
        BY <2>4, <3>1, <3>3 DEF ProduceRemaining, Load, LastPacket, AfterPacket, GoTo, Stay
      <4>2. Left' = Left - 1
        <5>1. (conf.packets - packet_counter) * conf.beats \in Int
          BY <1>3
        <5>2. CASE number_beats_counter # 1
          <6>1. Left' = (conf.packets - packet_counter) * conf.beats
                          + (number_beats_counter - 1)
            BY <2>1, <2>2, <3>1, <4>1, <5>2 DEF Left, Producing, Probing
          <6> QED
            BY <1>3, <3>2, <5>1, <6>1
        <5>3. CASE number_beats_counter = 1 /\ packet_counter = conf.packets
          <6>1. Left' = 0
            BY <4>1, <5>3 DEF Left, Producing, Probing
          <6> QED
            BY <1>3, <3>2, <5>3, <6>1
        <5>4. CASE number_beats_counter = 1 /\ packet_counter # conf.packets
          <6>1. Left' = (conf.packets - packet_counter) * conf.beats + 0
            BY <2>1, <2>2, <3>1, <4>1, <5>4 DEF Left, Producing, Probing
          <6> QED
            BY <1>3, <3>2, <5>1, <5>4, <6>1
        <5> QED
          BY <5>2, <5>3, <5>4
      <4> DEFINE p == packet_counter - 1
                 j == conf.beats - number_beats_counter
      <4>3. /\ p \in 0 .. conf.packets - 1 /\ j \in 0 .. RunBeats - 1
            /\ Left = conf.packets * RunBeats - (p * RunBeats + j)
            /\ producer' = Beat(p, conf.packets, j + 1 = RunBeats)
        <5>1. (j + 1 = RunBeats) = (number_beats_counter = 1)
          BY <1>3, <3>1
        <5>2. producer' = Beat(p, conf.packets, j + 1 = RunBeats)
          BY <4>1, <5>1
        <5>3. (conf.packets - packet_counter) * conf.beats
                = conf.packets * conf.beats - p * conf.beats - conf.beats
              /\ p * conf.beats \in Int /\ conf.packets * conf.beats \in Int
          BY <1>3
        <5>4. Left = conf.packets * RunBeats - (p * RunBeats + j)
          BY <1>3, <3>1, <3>2, <5>3
        <5> QED
          BY <1>3, <3>1, <5>2, <5>4
      <4> HIDE DEF p, j
      <4> QED
        BY <1>2, <2>1, <3>1, <3>3, <4>2, <4>3, LoadKeeps
    <3>4. CASE ~axis_producer_free
      BY <1>2, <2>1, <2>2, <2>4, <3>1, <3>4, DrainKeeps
         DEF ProduceRemaining, Stay, counterVars, Left, Sending
    <3> QED
      BY <3>3, <3>4
  <2>5. CASE ProduceSmall
    <3>1. /\ fsm_state = "PRODUCE_SMALL" /\ RunBeats = 1 /\ Sending
          /\ packet_counter < conf.packets
      BY <2>5 DEF ProduceSmall, IInv, PlaceInv, RunBeats, Sending, Producing, Probing
    <3>2. Left = conf.packets - packet_counter
      BY <1>3, <3>1 DEF Left, Sending
    <3>3. CASE axis_producer_free
      <4>1. /\ producer' = Beat(packet_counter, conf.packets, TRUE)
            /\ packet_counter' = packet_counter + 1
            /\ fsm_state' = IF packet_counter + 1 = conf.packets THEN "FSM_SUMMARY_DONE"
                            ELSE IF conf.tbp # 0 THEN "WAIT_N_CYCLES_LATENCY"
                            ELSE "PRODUCE_SMALL"
        BY <2>5, <3>3 DEF ProduceSmall, Load, LastPacket, AfterPacket, GoTo
      <4>2. Left' = Left - 1
        <5>1. CASE packet_counter + 1 = conf.packets
          <6>1. Left' = 0
            BY <4>1, <5>1 DEF Left, Producing, Probing
          <6> QED
            BY <1>3, <3>2, <5>1, <6>1
        <5>2. CASE packet_counter + 1 # conf.packets
          <6>1. Left' = (conf.packets - (packet_counter + 1)) * 1 + 0
            BY <2>1, <2>2, <3>1, <4>1, <5>2 DEF Left, Producing, Probing
          <6> QED
            BY <1>3, <3>2, <6>1
        <5> QED
          BY <5>1, <5>2
      <4>3. /\ packet_counter \in 0 .. conf.packets - 1 /\ 0 \in 0 .. RunBeats - 1
            /\ Left = conf.packets * RunBeats - (packet_counter * RunBeats + 0)
            /\ producer' = Beat(packet_counter, conf.packets, 0 + 1 = RunBeats)
        <5>1. (0 + 1 = RunBeats) = TRUE
          BY <3>1
        <5>2. producer' = Beat(packet_counter, conf.packets, 0 + 1 = RunBeats)
          BY <4>1, <5>1
        <5> QED
          BY <1>3, <3>1, <3>2, <5>2
      <4> QED
        BY <1>2, <2>1, <3>1, <3>3, <4>2, <4>3, LoadKeeps
    <3>4. CASE ~axis_producer_free
      <4>1. fsm_state' = fsm_state /\ packet_counter' = packet_counter /\ Drain
        BY <2>5, <3>4 DEF ProduceSmall, Stay, counterVars
      <4>2. Left' = Left
        BY <2>1, <2>2, <3>1, <4>1 DEF Left
      <4> QED
        BY <1>2, <2>1, <3>1, <4>1, <4>2, DrainKeeps DEF Sending
    <3> QED
      BY <3>3, <3>4
  <2>6. CASE WaitNCycles
    <3>1. /\ packet_counter' = packet_counter /\ Drain
          /\ fsm_state \in {"WAIT_N_CYCLES", "WAIT_N_CYCLES_LATENCY"}
          /\ fsm_state' \in {"WAIT_N_CYCLES", "WAIT_N_CYCLES_LATENCY",
                             "PRODUCE_PAYLOAD_HEADER", "PRODUCE_SMALL"}
      BY <2>6 DEF WaitNCycles, GoTo, Stay
    <3>2. Left' = Left
      BY <2>1, <2>2, <3>1 DEF Left, Producing, Probing
    <3> QED
      BY <1>2, <2>1, <3>1, <3>2, DrainKeeps DEF Sending, Producing, Probing
  <2>7. CASE FsmDone
    <3>1. Drain /\ fsm_state = "FSM_DONE" /\ fsm_state' = "GET_CONFIGURATION"
      BY <2>7 DEF FsmDone, GoTo
    <3>2. Left = 0 /\ Left' = 0
      BY <3>1 DEF Left, Producing, Probing
    <3> QED
      BY <1>2, <2>1, <3>1, <3>2, DrainKeeps DEF Sending, Producing, Probing
  <2>8. CASE FsmSummaryDone
    <3>1. Drain /\ fsm_state = "FSM_SUMMARY_DONE"
          /\ fsm_state' \in {"FSM_SUMMARY_DONE", "GET_CONFIGURATION"}
      BY <2>8 DEF FsmSummaryDone, GoTo, Stay
    <3>2. Left = 0 /\ Left' = 0
      BY <3>1 DEF Left, Producing, Probing
    <3> QED
      BY <1>2, <2>1, <3>1, <3>2, DrainKeeps DEF Sending, Producing, Probing
  <2> QED
    BY <1>6, <2>3, <2>4, <2>5, <2>6, <2>7, <2>8 DEF Clock, Main, GetConfiguration
<1> QED
  BY <1>4, <1>5, <1>6 DEF Clock, Main, ProduceHeader, ProduceRemaining, WaitNCycles,
                          ProduceSmall, FsmDone, FsmSummaryDone

LEMMA Stutter ==
  ASSUME UNCHANGED vars
  PROVE  /\ UNCHANGED <<running, starts, resets, ap_start, reset_fsm, regs>>
         /\ UNCHANGED <<start_held, done_held>>
         /\ UNCHANGED <<ap_start_1d, fsm_state, conf, packet_counter, number_beats_counter,
                        time_between_packets_counter, producer, axis_switch, ap_done, ap_idle>>
         /\ UNCHANGED <<fsm_summary_state, summary, summary_idle, summary_done,
                        output_summary_mask, end_of_stream, ap_idle_1d, timeout_counter>>
         /\ UNCHANGED <<net, n2k, lost, k2n_tready, summary_tready>>
         /\ UNCHANGED <<expected, sent, taken, summaries, about, waited>>
BY DEF vars, hostVars, counterVars, mainVars, summaryVars, netVars, ghosts

LEMMA ProducedInvariance == Spec => []ProducedInv
<1>1. Init => ProducedInv
  BY DEF Init, ProducedInv, Loaded, Waiting, Left, Producing, Probing
<1>2. IInv /\ IInv' /\ ProducedInv /\ [Next]_vars => ProducedInv'
  <2>1. IInv' => TypeOK' /\ PlaceInv'
    BY DEF IInv
  <2>2. CASE Clock
    BY <2>1, <2>2, ProducedStep
  <2>3. CASE UNCHANGED vars
    <3>1. Loaded' = Loaded /\ Left' = Left /\ RunBeats' = RunBeats
      BY <2>3, Stutter DEF Loaded, Left, RunBeats
    <3> QED
      BY <2>3, <3>1, Stutter DEF ProducedInv
  <2> QED
    BY <2>2, <2>3 DEF Next
<1> QED
  BY <1>1, <1>2, Invariance, PTL DEF Spec

LEMMA PrefixAt ==
  ASSUME NEW S, NEW s \in Seq(S), NEW t \in Seq(S), Len(s) <= Len(t),
         \A i \in 1 .. Len(s) : s[i] = t[i]
  PROVE  IsPrefix(s, t) /\ (Len(s) = Len(t) => s = t)
<1>1. SubSeq(t, 1, Len(s)) = s
  OBVIOUS
<1>2. Len(s) = Len(t) => s = t
  OBVIOUS
<1> QED
  BY <1>1, <1>2 DEF IsPrefix

\* A run hands its packets to the network once each, whole and in order, behind what the
\* run before left in the register, and reports its end when all are handed over, for any
\* numbers of packets and beats, any gap and any back pressure (segment_generator.v:167-262).
THEOREM SentInOrder == Spec => []ProducedInOrder
<1>1. IInv /\ ProducedInv => ProducedInOrder
  <2> SUFFICES ASSUME IInv, ProducedInv, ~axis_switch
               PROVE  IsPrefix(Loaded, expected) /\ (ap_done => Loaded = expected)
    BY DEF ProducedInOrder, Loaded
  <2>1. Loaded \in Seq(BeatData) /\ expected \in Seq(BeatData)
    BY LoadedType DEF IInv, TypeOK, Loaded
  <2>2. /\ Len(Loaded) <= Len(expected)
        /\ \A i \in 1 .. Len(Loaded) : Loaded[i] = expected[i]
    BY DEF ProducedInv
  <2>3. ap_done => Len(expected) = Len(Loaded)
    <3>1. ap_done => Left = 0 /\ Len(expected) = Len(Loaded) + Left
      BY DEF IInv, StartInv, ProducedInv, Left, Producing, Probing
    <3> QED
      BY <2>1, <3>1
  <2> QED
    BY <2>1, <2>2, <2>3, PrefixAt
<1> QED
  BY <1>1, Invariance, ProducedInvariance, PTL

----------------------------------------------------------------------------
(***************************************************************************)
(* The gap between two packets.                                            *)
(***************************************************************************)
\* An edge that loads no last beat adds to the wait, up to the bound.
LEMMA WaitedStep ==
  ASSUME TypeOK, Observe
  PROVE  /\ ~Loads => waited' = IF waited < MaxWaited THEN waited + 1 ELSE waited
         /\ waited' \in Nat
BY DEF Observe, TypeOK

LEMMA GapStep ==
  ASSUME IInv, GapInv, Clock
  PROVE  GapInv'
<1> USE ConfigAssumption, WaitedAssumption
<1>1. /\ conf.packets \in Nat \ {0} /\ conf.tbp \in Nat /\ conf.tbp <= MaxWaited
      /\ MaxWaited \in Nat
      /\ packet_counter \in Nat /\ number_beats_counter \in Int
      /\ time_between_packets_counter \in Int /\ waited \in Nat
  BY DEF IInv, TypeOK
<1>2. /\ ~Loads => waited' = IF waited < MaxWaited THEN waited + 1 ELSE waited
      /\ Loads /\ producer'.last => waited' = 0
      /\ waited' \in Nat
  BY WaitedStep DEF IInv, Clock, Observe
<1>3. CASE reset_fsm
  BY <1>3 DEF Clock, Main, MainReset, GoTo, GapInv
<1>4. CASE ~reset_fsm /\ GetConfiguration
  BY <1>4 DEF GetConfiguration, GoTo, Stay, GapInv
<1>5. CASE /\ ~reset_fsm /\ conf' = conf
           /\ \/ fsm_state = "PRODUCE_PAYLOAD_HEADER" /\ ProduceHeader
              \/ fsm_state = "PRODUCE_PAYLOAD_REMAINING" /\ ProduceRemaining
              \/ fsm_state = "PRODUCE_SMALL" /\ ProduceSmall
  <2>1. CASE axis_producer_free
    <3>1. Loads
      BY <1>5, <2>1 DEF Loads
    <3>2. time_between_packets_counter' = conf.tbp - 1
      BY <1>5, <2>1 DEF ProduceHeader, ProduceRemaining, ProduceSmall
    <3>3. CASE fsm_state' = "PRODUCE_PAYLOAD_REMAINING"
      BY <3>3 DEF GapInv
    <3>4. CASE fsm_state' # "PRODUCE_PAYLOAD_REMAINING"
      <4>1. /\ producer'.last
            /\ fsm_state' \in {"WAIT_N_CYCLES", "WAIT_N_CYCLES_LATENCY"} => conf.tbp # 0
            /\ fsm_state' \in {"PRODUCE_PAYLOAD_HEADER", "PRODUCE_SMALL"} => conf.tbp = 0
        <5>1. \A n, last : Load(n, last) => producer'.last = last
          BY DEF Load, Beat
        <5>2. CASE fsm_state = "PRODUCE_PAYLOAD_HEADER"
          <6>1. ProduceHeader
            BY <1>5, <5>2 DEF ProduceRemaining, ProduceSmall
          <6>2. conf.beats = 1
            BY <2>1, <3>4, <6>1 DEF ProduceHeader, GoTo
          <6>3. producer'.last
            BY <2>1, <5>1, <6>1, <6>2 DEF ProduceHeader
          <6> QED
            BY <2>1, <6>1, <6>2, <6>3 DEF ProduceHeader, AfterPacket, GoTo
        <5>3. CASE fsm_state = "PRODUCE_PAYLOAD_REMAINING"
          <6>1. ProduceRemaining
            BY <1>5, <5>3 DEF ProduceHeader, ProduceSmall
          <6>2. number_beats_counter = 1
            BY <2>1, <3>4, <6>1 DEF ProduceRemaining, Stay
          <6>3. producer'.last
            BY <2>1, <5>1, <6>1, <6>2 DEF ProduceRemaining
          <6> QED
            BY <2>1, <6>1, <6>2, <6>3 DEF ProduceRemaining, AfterPacket, GoTo
        <5>4. CASE fsm_state = "PRODUCE_SMALL"
          <6>1. ProduceSmall
            BY <1>5, <5>4 DEF ProduceHeader, ProduceRemaining
          <6>2. producer'.last
            BY <2>1, <5>1, <6>1 DEF ProduceSmall
          <6> QED
            BY <2>1, <6>1, <6>2 DEF ProduceSmall, AfterPacket, GoTo
        <5> QED
          BY <1>5, <5>2, <5>3, <5>4
      <4> QED
        BY <1>1, <1>2, <1>5, <3>1, <3>2, <4>1 DEF GapInv
    <3> QED
      BY <3>3, <3>4
  <2>2. CASE ~axis_producer_free
    <3>1. /\ fsm_state' = fsm_state /\ packet_counter' = packet_counter /\ ~Loads
      BY <1>5, <2>2
         DEF ProduceHeader, ProduceRemaining, ProduceSmall, Stay, counterVars, Loads
    <3>2. waited' >= waited
      BY <1>1, <1>2, <3>1
    <3> QED
      BY <1>1, <1>2, <1>5, <3>1, <3>2 DEF GapInv
  <2> QED
    BY <2>1, <2>2
<1>6. CASE ~reset_fsm /\ WaitNCycles
  <2>1. /\ conf' = conf /\ ~Loads
        /\ time_between_packets_counter' = time_between_packets_counter - 1
        /\ fsm_state \in {"WAIT_N_CYCLES", "WAIT_N_CYCLES_LATENCY"}
    BY <1>6 DEF WaitNCycles, Loads
  <2>2. waited' = IF waited < MaxWaited THEN waited + 1 ELSE waited
    BY <1>2, <2>1
  <2>3. CASE time_between_packets_counter = 0
    <3>1. waited' >= conf.tbp
      BY <1>1, <2>1, <2>2, <2>3 DEF GapInv
    <3>2. fsm_state' \in {"PRODUCE_PAYLOAD_HEADER", "PRODUCE_SMALL"}
      BY <1>6, <2>3 DEF WaitNCycles, GapOver, GoTo
    <3> QED
      BY <2>1, <3>1, <3>2 DEF GapInv
  <2>4. CASE time_between_packets_counter # 0
    <3>1. fsm_state' = fsm_state
      BY <1>6, <2>4 DEF WaitNCycles, GapOver, Stay
    <3> QED
      BY <1>1, <2>1, <2>2, <2>4, <3>1 DEF GapInv
  <2> QED
    BY <2>3, <2>4
<1>7. CASE ~reset_fsm /\ (FsmDone \/ FsmSummaryDone)
  BY <1>7 DEF FsmDone, FsmSummaryDone, GoTo, Stay, GapInv
<1> QED
  BY <1>3, <1>4, <1>5, <1>6, <1>7 DEF Clock, Main, ProduceHeader, ProduceRemaining, ProduceSmall

\* The first beat of a packet is never loaded earlier than time_between_packets cycles
\* after the last beat of the packet before it (Benchmark_kernel/README.md:61).
THEOREM GapIsKept == Spec => GapKept
<1> DEFINE Early == Loads /\ packet_counter' > packet_counter /\ packet_counter > 0
                      => waited >= conf.tbp
<1>1. Init => GapInv
  BY DEF Init, GapInv
<1>2. IInv /\ GapInv /\ [Next]_vars => GapInv'
  <2>1. CASE Clock
    BY <2>1, GapStep
  <2>2. CASE UNCHANGED vars
    BY <2>2, Stutter DEF GapInv
  <2> QED
    BY <2>1, <2>2 DEF Next
<1>3. IInv /\ GapInv /\ [Next]_vars => [Early]_vars
  <2> SUFFICES ASSUME IInv, GapInv, Clock, Loads, packet_counter' > packet_counter,
                      packet_counter > 0
               PROVE  waited >= conf.tbp
    BY DEF Next
  <2>1. packet_counter \in Nat
    BY DEF IInv, TypeOK
  <2>2. CASE fsm_state = "PRODUCE_PAYLOAD_REMAINING"
    <3>1. packet_counter' = packet_counter
      BY <2>2 DEF Clock, Main, Loads, GetConfiguration, ProduceHeader, ProduceRemaining,
                  WaitNCycles, ProduceSmall, FsmDone, FsmSummaryDone
    <3> QED
      BY <2>1, <3>1
  <2> QED
    BY <2>2 DEF Loads, GapInv
<1> QED
  BY <1>1, <1>2, <1>3, Invariance, PTL DEF Spec, GapKept

----------------------------------------------------------------------------
(***************************************************************************)
(* Latency runs, whatever the collector and the network do.                *)
(***************************************************************************)
\* Nothing comes out of nothing: silence lasts as long as nothing is loaded.
LEMMA QuietStays ==
  ASSUME TypeOK, Quiet, ~Begins, axis_switch \/ Drain,
         axis_switch => conf.mode # "latency" /\ Drain, Network
  PROVE  Quiet'
<1>1. producer' = None
  BY DEF Quiet, Drain
<1>2. ~(Sends /\ conf.mode = "latency" /\ ~axis_switch)
  BY DEF Sends, k2n, Quiet
<1>3. PICK deliver \in IF net # << >> /\ (n2k = None \/ n2k_tready) THEN BOOLEAN ELSE {FALSE} :
        /\ net' = (IF deliver THEN Tail(net) ELSE net) \o << >>
        /\ n2k' = IF deliver THEN Head(net) ELSE IF n2k_tready THEN None ELSE n2k
  BY <1>2 DEF Network
<1>4. deliver = FALSE
  BY <1>3 DEF Quiet
<1>5. net' = net \o << >> /\ n2k' = None
  BY <1>3, <1>4 DEF Quiet
<1> QED
  BY <1>1, <1>5 DEF Quiet

LEMMA StartQuietStep ==
  ASSUME IInv, StartQuiet, Clock
  PROVE  StartQuiet'
<1> SUFFICES ASSUME ap_start' \/ ap_start_1d', ~reset_fsm', regs'.mode # "producer"
             PROVE  Quiet'
  BY DEF StartQuiet
<1>1. ap_start_1d' = ap_start
  BY DEF Clock, Main
<1>2. Quiet /\ fsm_state = "GET_CONFIGURATION" /\ ~Begins /\ ~reset_fsm
  <2>1. CASE Start
    <3>1. ~running /\ ~reset_fsm /\ fsm_state = "GET_CONFIGURATION" /\ ~ap_start_1d
      BY <2>1 DEF Start, IInv, StartInv
    <3>2. Quiet
      BY <2>1 DEF Start, Quiet
    <3> QED
      BY <3>1, <3>2 DEF Begins, Started
  <2>2. CASE GiveUp
    BY <2>2 DEF GiveUp
  <2>3. CASE Wait
    <3>1. ap_start /\ regs' = regs
      BY <1>1, <2>3 DEF Wait
    <3>2. ~reset_fsm /\ fsm_state = "GET_CONFIGURATION"
      BY <3>1 DEF IInv, StartInv
    <3> QED
      BY <3>1, <3>2 DEF StartQuiet, Begins, Started
  <2> QED
    BY <2>1, <2>2, <2>3 DEF Clock, Host
<1>3. Drain
  BY <1>2 DEF Clock, Main, GetConfiguration, ProduceHeader, ProduceRemaining, WaitNCycles,
              ProduceSmall, FsmDone, FsmSummaryDone
<1>4. producer' = None
  BY <1>2, <1>3 DEF Quiet, Drain
<1>5. ~(Sends /\ conf.mode = "latency" /\ ~axis_switch)
  BY <1>2 DEF Sends, k2n, Quiet
<1>6. axis_switch => conf.mode # "latency"
  BY DEF IInv, PlaceInv
<1> QED
  BY <1>2, <1>3, <1>6, QuietStays DEF IInv, Clock

\* What an edge of a latency run does to the register, the network and the main machine.
LEMMA ProbeStep ==
  ASSUME IInv, Clock, conf.mode = "latency", ~reset_fsm, ~Begins
  PROVE  /\ conf' = conf /\ ~axis_switch
         /\ \/ Drain
            \/ /\ fsm_state = "PRODUCE_SMALL" /\ axis_producer_free
               /\ producer' = Beat(packet_counter, conf.packets, TRUE)
               /\ packet_counter = conf.packets - 1 => fsm_state' = "FSM_SUMMARY_DONE"
         /\ fsm_state = "FSM_SUMMARY_DONE" =>
              \/ fsm_state' = "FSM_SUMMARY_DONE"
              \/ fsm_state' = "GET_CONFIGURATION" /\ ~summary_idle /\ summary_done
         /\ fsm_state = "GET_CONFIGURATION" => fsm_state' = "GET_CONFIGURATION" /\ ap_idle'
         /\ fsm_state \notin Probing => Drain /\ fsm_state' \notin Probing
<1>1. ~axis_switch
  BY DEF IInv, PlaceInv
<1>2. fsm_state \notin {"PRODUCE_PAYLOAD_HEADER", "PRODUCE_PAYLOAD_REMAINING", "FSM_DONE",
                       "WAIT_N_CYCLES"}
  BY DEF IInv, PlaceInv, Producing
<1>3. CASE GetConfiguration
  <2>1. ~Started
    BY <1>3 DEF GetConfiguration, Begins
  <2> QED
    BY <1>1, <1>3, <2>1 DEF GetConfiguration, Stay, Probing
<1>4. CASE WaitNCycles
  BY <1>1, <1>2, <1>4 DEF WaitNCycles, Probing
<1>5. CASE ProduceSmall
  <2>1. CASE axis_producer_free
    <3>1. packet_counter = conf.packets - 1 => packet_counter + 1 = conf.packets
      <4>1. packet_counter \in Nat /\ conf.packets \in Nat
        BY ConfigAssumption DEF IInv, TypeOK
      <4> QED
        BY <4>1
    <3> QED
      BY <1>1, <1>5, <2>1, <3>1 DEF ProduceSmall, Load, LastPacket, AfterPacket, GoTo, Probing
  <2>2. CASE ~axis_producer_free
    BY <1>1, <1>5, <2>2 DEF ProduceSmall, Probing
  <2> QED
    BY <2>1, <2>2
<1>6. CASE FsmSummaryDone
  BY <1>1, <1>6 DEF FsmSummaryDone, GoTo, Stay, Probing
<1> QED
  BY <1>2, <1>3, <1>4, <1>5, <1>6 DEF Clock, Main, ProduceHeader, ProduceRemaining, FsmDone

\* A latency run goes on: no edge puts anything behind the last packet.
LEMMA WireStep ==
  ASSUME IInv, TypeOK', Wire, Clock, conf.mode = "latency", ~reset_fsm, ~Begins
  PROVE  Wire'
<1> DEFINE Last0 == fsm_state \notin Probing
<1>1. /\ conf' = conf /\ ~axis_switch
      /\ \/ Drain
         \/ /\ fsm_state = "PRODUCE_SMALL" /\ axis_producer_free
            /\ producer' = Beat(packet_counter, conf.packets, TRUE)
            /\ packet_counter = conf.packets - 1 => fsm_state' \notin Probing
      /\ Last0 => Drain /\ fsm_state' \notin Probing
  BY ProbeStep DEF Probing
<1>2. (\A b : Small(b)' <=> Small(b)) /\ (\A b : Ends(b)' <=> Ends(b))
  BY <1>1 DEF Small, Ends
<1>3. PICK fresh \in {<< >>, <<producer>>}, deliver \in BOOLEAN :
        /\ fresh # << >> => fresh = <<producer>> /\ producer # None /\ k2n_tready
        /\ deliver => net # << >>
        /\ net' = (IF deliver THEN Tail(net) ELSE net) \o fresh
        /\ n2k' = IF deliver THEN Head(net) ELSE IF n2k_tready THEN None ELSE n2k
  <2>1. PICK lose \in BOOLEAN,
             deliver \in IF net # << >> /\ (n2k = None \/ n2k_tready) THEN BOOLEAN
                                                                   ELSE {FALSE} :
          /\ net' = (IF deliver THEN Tail(net) ELSE net)
                      \o (IF Sends THEN IF lose THEN << >> ELSE <<k2n>> ELSE << >>)
          /\ n2k' = IF deliver THEN Head(net) ELSE IF n2k_tready THEN None ELSE n2k
    BY <1>1 DEF Clock, Network
  <2>2. k2n = producer /\ (Sends => producer # None /\ k2n_tready)
    BY <1>1 DEF k2n, Sends
  <2>3. CASE Sends /\ ~lose
    <3>1. net' = (IF deliver THEN Tail(net) ELSE net) \o <<producer>>
      BY <2>1, <2>2, <2>3
    <3> QED
      BY <2>1, <2>2, <2>3, <3>1
  <2>4. CASE ~(Sends /\ ~lose)
    <3>1. net' = (IF deliver THEN Tail(net) ELSE net) \o << >>
      BY <2>1, <2>4
    <3>2. deliver \in BOOLEAN /\ (deliver => net # << >>)
      BY <2>1
    <3>3. << >> \in {<< >>, <<producer>>}
      OBVIOUS
    <3> WITNESS << >> \in {<< >>, <<producer>>}, deliver \in BOOLEAN
    <3> QED
      BY <2>1, <3>1, <3>2
  <2> QED
    BY <2>3, <2>4
<1> DEFINE rest == IF deliver THEN Tail(net) ELSE net
           d    == IF deliver THEN 1 ELSE 0
<1>4. /\ net \in Seq(BeatData) /\ rest \in Seq(BeatData)
      /\ Len(rest) = Len(net) - d
      /\ \A i \in 1 .. Len(rest) : i + d \in 1 .. Len(net) /\ rest[i] = net[i + d]
      /\ deliver => Head(net) = net[1] /\ 1 \in 1 .. Len(net)
  <2>1. net \in Seq(BeatData)
    BY DEF IInv, TypeOK
  <2>2. CASE deliver
    <3>1. net # << >> /\ rest = Tail(net) /\ d = 1
      BY <1>3, <2>2
    <3> QED
      BY <2>1, <2>2, <3>1
  <2>3. CASE ~deliver
    BY <2>1, <2>3
  <2> QED
    BY <2>2, <2>3
<1>5. /\ Len(net') = Len(rest) + Len(fresh) /\ Len(fresh) \in {0, 1}
      /\ \A i \in 1 .. Len(net') :
           \/ i \in 1 .. Len(rest) /\ net'[i] = rest[i]
           \/ i = Len(net') /\ net'[i] = producer /\ fresh = <<producer>>
  <2>1. net' = rest \o fresh
    BY <1>3
  <2> HIDE DEF rest
  <2>2. CASE fresh = << >>
    BY <1>4, <2>1, <2>2
  <2>3. CASE fresh = <<producer>>
    <3>1. Len(fresh) = 1 /\ fresh[1] = producer
      BY <2>3
    <3>2. net' \in Seq(BeatData)
      BY DEF TypeOK
    <3>3. \A i \in 1 .. Len(rest) : (rest \o fresh)[i] = rest[i]
      BY <1>4, <2>3
    <3>4. Len(rest \o fresh) = Len(rest) + 1 /\ (rest \o fresh)[Len(rest) + 1] = producer
      BY <1>4, <2>3
    <3> QED
      BY <1>4, <2>1, <2>3, <3>1, <3>3, <3>4
  <2> QED
    BY <1>3, <2>2, <2>3
<1> HIDE DEF rest
<1>6. \* the register
      producer' # None =>
        Small(producer') /\ (Ends(producer') => fsm_state' \notin Probing)
  <2>1. CASE Drain
    BY <1>1, <1>2, <2>1 DEF Drain, Wire
  <2>2. CASE producer' = Beat(packet_counter, conf.packets, TRUE)
             /\ (packet_counter = conf.packets - 1 => fsm_state' \notin Probing)
    <3>1. /\ producer'.last = TRUE /\ producer'.total = conf.packets
          /\ producer'.id = packet_counter
      BY <2>2 DEF Beat
    <3> QED
      BY <2>2, <3>1 DEF Small, Ends
  <2> QED
    BY <1>1, <2>1, <2>2
<1>7. Last0 => Drain /\ fsm_state' \notin Probing
  BY <1>1
<1>8. \A i \in 1 .. Len(net') :
        /\ Small(net'[i])
        /\ Ends(net'[i]) =>
             i = Len(net') /\ producer' = None /\ fsm_state' \notin Probing
  <2> SUFFICES ASSUME NEW i \in 1 .. Len(net')
               PROVE  /\ Small(net'[i])
                      /\ Ends(net'[i]) =>
                           i = Len(net') /\ producer' = None /\ fsm_state' \notin Probing
    OBVIOUS
  <2>1. CASE i \in 1 .. Len(rest) /\ net'[i] = rest[i]
    <3>1. i + d \in 1 .. Len(net) /\ net'[i] = net[i + d]
      BY <1>4, <2>1
    <3>2. Small(net'[i])
      BY <3>1 DEF Wire
    <3>3. CASE Ends(net'[i])
      <4>1. i + d = Len(net) /\ producer = None /\ Last0
        BY <3>1, <3>3 DEF Wire
      <4>2. producer' = None /\ fresh = << >>
        BY <1>3, <1>7, <4>1 DEF Drain
      <4>3. i = Len(net')
        BY <1>4, <1>5, <4>1, <4>2
      <4> QED
        BY <1>7, <3>2, <4>1, <4>2, <4>3
    <3> QED
      BY <3>2, <3>3
  <2>2. CASE i = Len(net') /\ net'[i] = producer /\ fresh = <<producer>>
    <3>1. producer # None /\ k2n_tready
      BY <1>3, <2>2
    <3>2. Small(producer) /\ (Ends(producer) => Last0)
      BY <3>1 DEF Wire
    <3>3. Ends(producer) => producer' = None /\ fsm_state' \notin Probing
      BY <1>7, <3>1, <3>2 DEF Drain
    <3> QED
      BY <2>2, <3>2, <3>3
  <2> QED
    BY <1>5, <2>1, <2>2
<1>9. n2k' # None =>
        /\ Small(n2k')
        /\ Ends(n2k') =>
             net' = << >> /\ producer' = None /\ fsm_state' \notin Probing
  <2> SUFFICES ASSUME n2k' # None
               PROVE  /\ Small(n2k')
                      /\ Ends(n2k') =>
                           net' = << >> /\ producer' = None /\ fsm_state' \notin Probing
    OBVIOUS
  <2>1. CASE deliver
    <3>1. n2k' = net[1] /\ 1 \in 1 .. Len(net)
      BY <1>3, <1>4, <2>1
    <3>2. Small(n2k') /\ (Ends(n2k') => Len(net) = 1 /\ producer = None /\ Last0)
      BY <3>1 DEF Wire
    <3>3. CASE Ends(n2k')
      <4>1. producer' = None /\ fresh = << >>
        BY <1>3, <1>7, <3>2, <3>3 DEF Drain
      <4>2. Len(net') = 0
        BY <1>4, <1>5, <2>1, <3>2, <3>3, <4>1
      <4>3. net' = << >>
        BY <4>2 DEF TypeOK
      <4> QED
        BY <1>7, <3>2, <3>3, <4>1, <4>3
    <3> QED
      BY <3>2, <3>3
  <2>2. CASE ~deliver
    <3>1. n2k' = n2k /\ n2k # None
      BY <1>3, <2>2
    <3>2. Small(n2k) /\ (Ends(n2k) => net = << >> /\ producer = None /\ Last0)
      BY <3>1 DEF Wire
    <3>3. CASE Ends(n2k')
      <4>1. producer' = None /\ fresh = << >> /\ net = << >>
        BY <1>3, <1>7, <3>1, <3>2, <3>3 DEF Drain
      <4>2. net' = net \o << >>
        BY <1>3, <2>2, <4>1
      <4> QED
        BY <1>7, <3>1, <3>2, <3>3, <4>1, <4>2
    <3> QED
      BY <3>1, <3>2, <3>3
  <2> QED
    BY <2>1, <2>2
<1> QED
  BY <1>1, <1>6, <1>8, <1>9 DEF Wire, Small, Ends

\* The summary machine's edge in a latency run that has begun, by the state it is in.
LEMMA AwaitStep ==
  ASSUME IInv, UnderWay, Clock, conf.mode = "latency", ~reset_fsm, ~Begins
  PROVE  /\ ~FirstCycle'
         /\ FirstCycle =>
              /\ DrainSummary /\ fsm_summary_state' = "WAIT_PACKET"
              /\ ~end_of_stream' /\ ~timed_out'
         /\ Closed => DrainSummary /\ Closed' /\ timed_out' = timed_out
         /\ Over /\ ~Closed =>
              /\ timed_out' = timed_out
              /\ \/ DrainSummary /\ fsm_summary_state' = "SUMMARY_DONE"
                 \/ /\ axis_summary_free /\ Closed'
                    /\ summary' = [id |-> 0, last |-> TRUE]
         /\ ~Over /\ ~FirstCycle =>
              /\ fsm_summary_state = "WAIT_PACKET" /\ fsm_summary_state' = "WAIT_PACKET"
              /\ ~timed_out
              /\ \/ /\ n2k # None /\ axis_summary_free /\ ~timed_out'
                    /\ summary' = [id |-> n2k.id, last |-> FALSE]
                    /\ end_of_stream' => Ends(n2k)
                 \/ ~(n2k # None /\ axis_summary_free) /\ ~end_of_stream' /\ DrainSummary
<1>1. /\ ap_idle_1d' = ap_idle
      /\ WaitUntilMode \/ WaitPacket \/ ConsumePacket \/ SummaryDone
  BY DEF Clock, Summary
<1>2. Wire /\ fsm_summary_state # "CONSUME_PACKET"
  BY DEF UnderWay
<1>3. /\ ap_idle' = (IF fsm_state = "GET_CONFIGURATION" THEN TRUE ELSE ap_idle)
      /\ fsm_state # "GET_CONFIGURATION" => ~ap_idle
  <2>1. Main
    BY DEF Clock
  <2>2. fsm_state = "GET_CONFIGURATION" => ~Started
    BY DEF Begins
  <2> QED
    BY <2>1, <2>2, MainShape DEF IInv, StartInv
<1>4. ap_idle \in BOOLEAN /\ ap_idle' \in BOOLEAN /\ end_of_stream \in BOOLEAN
  BY <1>3 DEF IInv, TypeOK
<1>5. ~FirstCycle'
  <2>1. FirstCycle' = (~ap_idle' /\ ap_idle_1d')
    BY DEF FirstCycle
  <2> QED
    BY <1>1, <1>3, <1>4, <2>1
<1>6. CASE FirstCycle
  <2>1. WaitUntilMode /\ fsm_summary_state = "WAIT_UNTIL_MODE"
    BY <1>1, <1>6 DEF WaitPacket, ConsumePacket, SummaryDone, IInv, HandOver
  <2>2. fsm_summary_state' = "WAIT_PACKET" /\ end_of_stream' = FALSE /\ timeout_counter' = 0
        /\ DrainSummary
    BY <1>6, <2>1 DEF WaitUntilMode, FirstCycle, SummaryGoTo
  <2>3. ~Over /\ ~Closed
    BY <1>6, <2>1 DEF Over, Closed
  <2>4. ~timed_out'
    BY <2>2, TimeoutAssumption DEF timed_out
  <2> QED
    BY <1>5, <1>6, <2>2, <2>3, <2>4
<1>7. CASE Closed
  <2>1. WaitUntilMode /\ Over /\ ~FirstCycle
    BY <1>1, <1>7 DEF WaitPacket, ConsumePacket, SummaryDone, Over, Closed
  <2>2. fsm_summary_state' = "WAIT_UNTIL_MODE" /\ timeout_counter' = timeout_counter
        /\ DrainSummary
    BY <1>7, <2>1 DEF WaitUntilMode, FirstCycle
  <2>3. timed_out' = timed_out
    BY <2>2 DEF timed_out
  <2> QED
    BY <1>5, <1>7, <2>1, <2>2, <2>3 DEF Closed
<1>8. CASE ~FirstCycle /\ Over /\ ~Closed
  <2>1. CASE fsm_summary_state = "WAIT_PACKET"
    <3>1. WaitPacket /\ (end_of_stream \/ timed_out)
      BY <1>1, <1>8, <2>1 DEF Over, WaitUntilMode, ConsumePacket, SummaryDone
    <3>2. /\ fsm_summary_state' = "SUMMARY_DONE" /\ DrainSummary
          /\ timeout_counter' = timeout_counter
      BY <3>1 DEF WaitPacket, SummaryGoTo
    <3>3. timed_out' = timed_out
      BY <3>2 DEF timed_out
    <3> QED
      BY <1>5, <1>8, <3>2, <3>3
  <2>2. CASE fsm_summary_state = "SUMMARY_DONE"
    <3>1. SummaryDone /\ output_summary_mask
      BY <1>1, <2>2 DEF WaitUntilMode, WaitPacket, ConsumePacket, IInv, HandOver
    <3>2. timeout_counter' = timeout_counter
      BY <3>1 DEF SummaryDone
    <3>3. timed_out' = timed_out
      BY <3>2 DEF timed_out
    <3>4. CASE CanClose
      <4>1. axis_summary_free /\ fsm_summary_state' = "WAIT_UNTIL_MODE"
            /\ summary' = [id |-> 0, last |-> TRUE]
        BY <3>1, <3>4 DEF SummaryDone, CanClose, SummaryGoTo
      <4> QED
        BY <1>5, <1>8, <3>3, <4>1 DEF Closed
    <3>5. CASE ~CanClose
      <4>1. DrainSummary /\ fsm_summary_state' = "SUMMARY_DONE"
        BY <2>2, <3>1, <3>5 DEF SummaryDone
      <4> QED
        BY <1>5, <1>8, <3>3, <4>1
    <3> QED
      BY <3>4, <3>5
  <2> QED
    BY <1>8, <2>1, <2>2 DEF Over, Closed
<1>9. CASE ~FirstCycle /\ ~Over
  <2>1. /\ fsm_summary_state = "WAIT_PACKET" /\ ~end_of_stream /\ ~timed_out
        /\ ~Closed /\ output_summary_mask
    BY <1>2, <1>9 DEF Over, Closed, IInv, TypeOK, HandOver
  <2>2. WaitPacket
    BY <1>1, <2>1 DEF WaitUntilMode, ConsumePacket, SummaryDone
  <2>3. CASE axis_summary_free /\ n2k # None
    <3>1. n2k.last /\ n2k.total = conf.packets
      BY <1>2, <2>3 DEF Wire, Small
    <3>2. /\ timeout_counter' = 0
          /\ end_of_stream' = (end_of_stream \/ n2k.id = n2k.total - 1)
          /\ fsm_summary_state' = "WAIT_PACKET"
          /\ summary' = [id |-> n2k.id, last |-> FALSE]
      BY <2>1, <2>2, <2>3, <3>1 DEF WaitPacket
    <3>3. end_of_stream' => Ends(n2k)
      BY <2>1, <3>1, <3>2 DEF Ends
    <3>4. ~timed_out'
      BY <3>2, TimeoutAssumption DEF timed_out
    <3> QED
      BY <1>5, <1>9, <2>1, <2>3, <3>2, <3>3, <3>4
  <2>4. CASE ~(axis_summary_free /\ n2k # None)
    <3>1. end_of_stream' = end_of_stream /\ fsm_summary_state' = "WAIT_PACKET" /\ DrainSummary
      BY <2>1, <2>2, <2>4 DEF WaitPacket
    <3> QED
      BY <1>5, <1>9, <2>1, <2>4, <3>1
  <2> QED
    BY <2>3, <2>4
<1> QED
  BY <1>6, <1>7, <1>8, <1>9

\* Once nothing is behind what the network offers, nothing comes any more.
LEMMA NothingComes ==
  ASSUME IInv, Clock, conf.mode = "latency", ~reset_fsm, ~Begins, NothingBehind
  PROVE  NothingBehind' /\ n2k' = IF n2k_tready THEN None ELSE n2k
<1>1. ~axis_switch /\ Drain /\ fsm_state' \notin Probing
  BY ProbeStep DEF NothingBehind
<1>2. producer' = None /\ ~Sends
  BY <1>1 DEF NothingBehind, Drain, Sends, k2n
<1>3. PICK deliver \in IF net # << >> /\ (n2k = None \/ n2k_tready) THEN BOOLEAN ELSE {FALSE} :
        /\ net' = (IF deliver THEN Tail(net) ELSE net) \o << >>
        /\ n2k' = IF deliver THEN Head(net) ELSE IF n2k_tready THEN None ELSE n2k
  BY <1>2 DEF Clock, Network
<1>4. deliver = FALSE
  BY <1>3 DEF NothingBehind
<1>5. net' = << >> /\ n2k' = IF n2k_tready THEN None ELSE n2k
  BY <1>3, <1>4 DEF NothingBehind
<1> QED
  BY <1>1, <1>2, <1>5 DEF NothingBehind, Probing

\* The mode stays as long as the run is not given up and no other begins.
LEMMA StillLatency ==
  ASSUME IInv, Clock, conf'.mode = "latency"
  PROVE  ~reset_fsm /\ (~Begins => conf.mode = "latency")
<1>1. ~reset_fsm
  <2> SUFFICES ASSUME reset_fsm PROVE FALSE
    OBVIOUS
  <2>1. conf' = [conf EXCEPT !.mode = "producer"]
    BY DEF Clock, Main, MainReset
  <2>2. conf'.mode = "producer"
    BY <2>1 DEF IInv, TypeOK
  <2> QED
    BY <2>2
<1> QED
  BY <1>1 DEF Begins, Clock, Main, GetConfiguration, ProduceHeader,
              ProduceRemaining, WaitNCycles, ProduceSmall, FsmDone, FsmSummaryDone

LEMMA UnderWayStep ==
  ASSUME IInv, TypeOK', StartQuiet, UnderWay, Clock
  PROVE  UnderWay'
<1> SUFFICES ASSUME conf'.mode = "latency"
             PROVE  /\ Wire'
                    /\ FirstCycle' => Quiet'
                    /\ Over' /\ ~timed_out' => NothingBehind'
                    /\ fsm_summary_state' # "CONSUME_PACKET"
  BY DEF UnderWay
<1>1. ~reset_fsm
  BY StillLatency
<1>2. Quiet' => Wire'
  <2>1. Quiet' => producer' = None /\ n2k' = None /\ Len(net') = 0
    BY DEF Quiet
  <2> QED
    BY <2>1 DEF Wire
<1>3. CASE Begins
  <2>1. /\ conf' = regs /\ regs.mode = "latency" /\ GetConfiguration /\ Drain
        /\ ~ap_idle' /\ ap_idle
    BY <1>1, <1>3 DEF Begins, Clock, Main, GetConfiguration, ProduceHeader,
                      ProduceRemaining, WaitNCycles, ProduceSmall, FsmDone, FsmSummaryDone,
                      Started, IInv, StartInv
  <2>2. Quiet
    BY <1>1, <1>3, <2>1 DEF StartQuiet, Begins, Started
  <2>3. Quiet'
    <3>1. producer' = None
      BY <2>1, <2>2 DEF Quiet, Drain
    <3>2. PICK deliver \in IF net # << >> /\ (n2k = None \/ n2k_tready) THEN BOOLEAN
                                                                      ELSE {FALSE} :
            /\ net' = (IF deliver THEN Tail(net) ELSE net) \o << >>
            /\ n2k' = IF deliver THEN Head(net) ELSE IF n2k_tready THEN None ELSE n2k
      <4>1. ~(Sends /\ conf.mode = "latency" /\ ~axis_switch)
        BY <2>2 DEF Sends, k2n, Quiet
      <4>2. ~(Begins /\ regs.mode \in {"consumer", "loopback"})
        BY <2>1
      <4> QED
        BY <4>1, <4>2 DEF Clock, Network
    <3>3. deliver = FALSE
      BY <2>2 DEF Quiet
    <3>4. net' = net \o << >> /\ n2k' = None
      BY <2>2, <3>2, <3>3 DEF Quiet
    <3> QED
      BY <2>2, <3>1, <3>4 DEF Quiet
  <2>4. fsm_summary_state = "WAIT_UNTIL_MODE" /\ ~FirstCycle
    BY <1>3, <2>1 DEF Begins, IInv, HandOver, FirstCycle
  <2>5. fsm_summary_state' = "WAIT_UNTIL_MODE" /\ ap_idle_1d' = ap_idle
    BY <1>1, <2>4 DEF Clock, Summary, WaitUntilMode, WaitPacket, ConsumePacket, SummaryDone,
                      FirstCycle
  <2>6. FirstCycle' /\ ~Over'
    BY <2>1, <2>5 DEF FirstCycle, Over
  <2> QED
    BY <1>2, <2>3, <2>5, <2>6
<1>4. CASE ~Begins
  <2>1. conf.mode = "latency"
    BY <1>4, StillLatency
  <2>2. Wire /\ (Over /\ ~timed_out => NothingBehind)
    BY <2>1 DEF UnderWay
  <2>3. Wire'
    BY <1>1, <1>4, <2>1, <2>2, WireStep
  <2>4. ~FirstCycle' /\ fsm_summary_state' # "CONSUME_PACKET"
    BY <1>1, <1>4, <2>1, AwaitStep DEF Closed
  <2>5. NothingBehind => NothingBehind'
    BY <1>1, <1>4, <2>1, NothingComes
  <2>6. ASSUME Over', ~timed_out' PROVE NothingBehind
    <3>1. CASE Over
      <4>1. ~timed_out /\ ~FirstCycle
        <5>1. ~FirstCycle
          BY <3>1 DEF Over, IInv, HandOver
        <5> QED
          BY <1>1, <1>4, <2>1, <2>6, <3>1, <5>1, AwaitStep
      <4> QED
        BY <2>2, <3>1, <4>1
    <3>2. CASE ~Over
      <4>1. fsm_summary_state' = "WAIT_PACKET"
        BY <1>1, <1>4, <2>1, <3>2, AwaitStep
      <4>2. end_of_stream'
        BY <2>6, <4>1 DEF Over
      <4>3. n2k # None /\ Ends(n2k)
        BY <1>1, <1>4, <2>1, <3>2, <4>2, AwaitStep
      <4> QED
        BY <2>2, <4>3 DEF Wire, NothingBehind
    <3> QED
      BY <3>1, <3>2
  <2> QED
    BY <2>3, <2>4, <2>5, <2>6
<1> QED
  BY <1>3, <1>4

\* What an edge adds to the summaries and to the packets taken.
LEMMA CollectStep ==
  ASSUME IInv, Clock, conf.mode = "latency", ~reset_fsm, ~Begins
  PROVE  /\ n2k_tready = summary_tready
         /\ taken' = IF n2k # None /\ summary_tready THEN Append(taken, n2k) ELSE taken
         /\ n2k # None /\ ~summary_tready => n2k' = n2k
         /\ DrainSummary => summaries' = summaries /\ about' = about
         /\ axis_summary_free /\ summary' # None =>
              /\ summaries' = Append(summaries, summary')
              /\ about' = Append(about, Len(taken) + 1)
<1>1. ~axis_switch
  BY DEF IInv, PlaceInv
<1>2. n2k_tready = summary_tready
  BY <1>1 DEF n2k_tready
<1>3. Clock /\ Network /\ Observe
  BY DEF Clock
<1>4. taken' = IF Takes THEN Append(taken, n2k) ELSE taken
  BY <1>3 DEF Observe
<1>5. axis_summary_free /\ summary' # None =>
        /\ summaries' = Append(summaries, summary')
        /\ about' = Append(about, Len(taken) + 1)
  BY <1>3 DEF Observe
<1>6. ~(axis_summary_free /\ summary' # None) => summaries' = summaries /\ about' = about
  BY <1>3 DEF Observe
<1>7. DrainSummary => ~(axis_summary_free /\ summary' # None)
  BY DEF DrainSummary, axis_summary_free
<1>8. n2k # None /\ ~summary_tready => n2k' = n2k
  BY <1>2, <1>3 DEF Network
<1> QED
  BY <1>2, <1>4, <1>5, <1>6, <1>7, <1>8 DEF Takes

\* An edge that adds no summary to the first n: a packet that leaves has its own by now.
LEMMA Keeps ==
  ASSUME IInv, Clock, conf.mode = "latency", ~reset_fsm, ~Begins, NEW n \in Nat,
         \A i \in 1 .. n : summaries'[i] = summaries[i] /\ about'[i] = about[i],
         Collected(n), ~timed_out' => ~timed_out,
         n2k # None /\ summary_tready /\ ~timed_out' => n > 0 /\ about[n] > Len(taken),
         summary # None /\ ~summary_tready => summary' # None
  PROVE  Collected(n)'
<1>1. taken \in Seq(BeatData) /\ Len(taken) \in Nat
  BY DEF IInv, TypeOK
<1>2. CASE n2k # None /\ summary_tready
  <2>1. taken' = Append(taken, n2k)
    BY <1>2, CollectStep
  <2>2. /\ Len(taken') = Len(taken) + 1 /\ taken'[Len(taken) + 1] = n2k
        /\ \A k \in 1 .. Len(taken) : taken'[k] = taken[k]
    BY <1>1, <2>1
  <2> QED
    BY <1>1, <1>2, <2>2 DEF Collected
<1>3. CASE ~(n2k # None /\ summary_tready)
  <2>1. taken' = taken /\ (n2k # None => n2k' = n2k /\ ~summary_tready)
    BY <1>3, CollectStep
  <2>2. n2k # None /\ summary # None => n2k' # None /\ n2k'.id = n2k.id /\ summary' # None
    BY <2>1
  <2>3. ~timed_out' => Len(taken') <= IF n = 0 THEN 0 ELSE about'[n]
    BY <2>1 DEF Collected
  <2>4. ASSUME NEW i \in 1 .. n
        PROVE  /\ ~summaries'[i].last
               /\ about'[i] \in 1 .. Len(taken') + 1
               /\ about'[i] <= Len(taken') => summaries'[i].id = taken'[about'[i]].id
               /\ i = 1 => about'[i] = 1
               /\ i > 1 => about'[i] - about'[i - 1] \in {0, 1}
               /\ i > 2 => about'[i] > about'[i - 2]
               /\ about'[i] > Len(taken') =>
                    /\ n2k' # None /\ summaries'[i].id = n2k'.id /\ summary' # None
                    /\ i > 1 => about'[i] > about'[i - 1]
    <3>1. /\ summaries'[i] = summaries[i] /\ about'[i] = about[i]
          /\ i > 1 => about'[i - 1] = about[i - 1]
          /\ i > 2 => about'[i - 2] = about[i - 2]
      <4>1. (i > 1 => i - 1 \in 1 .. n) /\ (i > 2 => i - 2 \in 1 .. n)
        OBVIOUS
      <4> QED
        BY <4>1
    <3> QED
      BY <2>1, <2>2, <3>1 DEF Collected
  <2> QED
    BY <2>3, <2>4 DEF Collected
<1> QED
  BY <1>2, <1>3

\* An edge that adds the summary of the packet on offer.
LEMMA Adds ==
  ASSUME IInv, Clock, conf.mode = "latency", ~reset_fsm, ~Begins, axis_summary_free,
         NEW n \in Nat, NEW a \in Nat, Len(summaries) = n, Len(about) = n, a = Len(taken) + 1,
         Collected(n), ~timed_out, n2k # None, summary' = [id |-> n2k.id, last |-> FALSE]
  PROVE  /\ Len(summaries') = n + 1 /\ Len(about') = n + 1 /\ Collected(n + 1)'
         /\ n2k' # None /\ ~summary_tready => about'[n + 1] > Len(taken')
<1> DEFINE w == [id |-> n2k.id, last |-> FALSE]
<1>1. /\ taken \in Seq(BeatData) /\ Len(taken) \in Nat /\ n2k \in BeatData
      /\ summaries \in Seq(SummaryData) /\ n \in Nat
      /\ about \in Seq(Nat) /\ Len(about) = n
  BY DEF IInv, TypeOK
<1>2. w \in SummaryData /\ w.id = n2k.id /\ w.last = FALSE
  BY <1>1 DEF SummaryData, BeatData
<1>3. w # None
  BY <1>2, NoneAssumption
<1>4. summary' = w /\ summary' # None
  BY <1>3
<1> HIDE DEF w
<1>5. summaries' = Append(summaries, w) /\ about' = Append(about, a)
  BY <1>4, CollectStep
<1>6. /\ Len(summaries') = n + 1 /\ summaries'[n + 1] = w
      /\ \A i \in 1 .. n : summaries'[i] = summaries[i]
  <2>1. /\ Len(Append(summaries, w)) = n + 1 /\ Append(summaries, w)[n + 1] = w
        /\ \A i \in 1 .. n : Append(summaries, w)[i] = summaries[i]
    BY <1>1, <1>2
  <2> QED
    BY <1>5, <2>1
<1>7. /\ Len(about') = n + 1 /\ about'[n + 1] = a
      /\ \A i \in 1 .. n : about'[i] = about[i] /\ about[i] \in Nat
  <2>1. /\ Len(Append(about, a)) = n + 1 /\ Append(about, a)[n + 1] = a
        /\ \A i \in 1 .. n : Append(about, a)[i] = about[i] /\ about[i] \in Nat
    BY <1>1
  <2> QED
    BY <1>5, <2>1
<1>8. \A i \in 1 .. n :
        /\ ~summaries[i].last
        /\ about[i] \in 1 .. a
        /\ about[i] <= Len(taken) => summaries[i].id = taken[about[i]].id
        /\ i = 1 => about[i] = 1
        /\ i > 1 => about[i] - about[i - 1] \in {0, 1}
        /\ i > 2 => about[i] > about[i - 2]
        /\ about[i] > Len(taken) =>
             /\ summaries[i].id = n2k.id /\ summary # None
             /\ i > 1 => about[i] > about[i - 1]
  BY DEF Collected
<1>9. Len(taken) <= IF n = 0 THEN 0 ELSE about[n]
  BY DEF Collected
<1>10. \* a second summary of a packet is written as the packet leaves
       n > 0 /\ about[n] = a => summary_tready /\ (n > 1 => about[n] > about[n - 1])
  <2> SUFFICES ASSUME n > 0, about[n] = a
               PROVE  summary_tready /\ (n > 1 => about[n] > about[n - 1])
    OBVIOUS
  <2>1. n \in 1 .. n /\ about[n] > Len(taken)
    BY <1>1
  <2>2. summary # None /\ (n > 1 => about[n] > about[n - 1])
    BY <1>8, <2>1
  <2> QED
    BY <2>2 DEF axis_summary_free
<1>11. /\ n = 0 => a = 1
       /\ n > 0 => a - about[n] \in {0, 1}
       /\ n > 1 => a > about[n - 1]
  <2>1. n = 0 => a = 1
    BY <1>1, <1>9
  <2>2. n > 0 => about[n] \in 1 .. a /\ Len(taken) <= about[n]
    <3>1. n > 0 => n \in 1 .. n
      BY <1>1
    <3> QED
      BY <1>1, <1>8, <1>9, <3>1
  <2>3. n > 0 => a - about[n] \in {0, 1}
    BY <1>1, <2>2
  <2>4. n > 1 => a > about[n - 1]
    <3> SUFFICES ASSUME n > 1 PROVE a > about[n - 1]
      OBVIOUS
    <3>1. n \in 1 .. n /\ n - 1 \in 1 .. n
      BY <1>1
    <3>2. about[n - 1] \in Nat /\ about[n] \in Nat /\ about[n] - about[n - 1] \in {0, 1}
      BY <1>7, <1>8, <3>1
    <3>3. about[n] = a => about[n] > about[n - 1]
      BY <1>10
    <3>4. a - about[n] \in {0, 1}
      BY <2>3
    <3>5. CASE about[n] = a
      BY <3>3, <3>5
    <3>6. CASE about[n] # a
      <4>1. about[n] = a - 1
        BY <3>2, <3>4, <3>6
      <4> QED
        BY <3>2, <4>1
    <3> QED
      BY <3>5, <3>6
  <2> QED
    BY <2>1, <2>3, <2>4
<1>12. \* the packets taken
       /\ Len(taken') \in Len(taken) .. a
       /\ \A k \in 1 .. Len(taken) : taken'[k] = taken[k]
       /\ Len(taken') = a => taken'[a] = n2k
       /\ Len(taken') # a => ~summary_tready /\ n2k' = n2k
       /\ summary_tready => Len(taken') = a
  <2>1. CASE summary_tready
    <3>1. taken' = Append(taken, n2k)
      BY <2>1, CollectStep
    <3> QED
      BY <1>1, <2>1, <3>1
  <2>2. CASE ~summary_tready
    <3>1. taken' = taken /\ n2k' = n2k
      BY <2>2, CollectStep
    <3> QED
      BY <1>1, <2>2, <3>1
  <2> QED
    BY <2>1, <2>2
<1>13. ASSUME NEW i \in 1 .. n + 1
       PROVE  /\ ~summaries'[i].last
              /\ about'[i] \in 1 .. Len(taken') + 1
              /\ about'[i] <= Len(taken') => summaries'[i].id = taken'[about'[i]].id
              /\ i = 1 => about'[i] = 1
              /\ i > 1 => about'[i] - about'[i - 1] \in {0, 1}
              /\ i > 2 => about'[i] > about'[i - 2]
              /\ about'[i] > Len(taken') =>
                   /\ n2k' # None /\ summaries'[i].id = n2k'.id /\ summary' # None
                   /\ i > 1 => about'[i] > about'[i - 1]
  <2>1. CASE i \in 1 .. n
    <3>1. summaries'[i] = summaries[i] /\ about'[i] = about[i]
      BY <1>6, <1>7, <2>1
    <3>2. /\ i > 1 => about'[i - 1] = about[i - 1]
          /\ i > 2 => about'[i - 2] = about[i - 2]
      <4>1. (i > 1 => i - 1 \in 1 .. n) /\ (i > 2 => i - 2 \in 1 .. n)
        BY <2>1
      <4> QED
        BY <1>7, <4>1
    <3>3. about[i] \in 1 .. a /\ about[i] \in Nat
      BY <1>7, <1>8, <2>1
    <3>4. about[i] \in 1 .. Len(taken') + 1
      BY <1>1, <1>12, <3>3
    <3>5. about[i] <= Len(taken') => summaries[i].id = taken'[about[i]].id
      <4>1. CASE about[i] <= Len(taken)
        <5>1. about[i] \in 1 .. Len(taken) /\ summaries[i].id = taken[about[i]].id
          BY <1>1, <1>8, <2>1, <3>3, <4>1
        <5> QED
          BY <1>12, <5>1
      <4>2. CASE about[i] = a
        <5>1. about[i] > Len(taken)
          BY <1>1, <4>2
        <5>2. summaries[i].id = n2k.id
          BY <1>8, <2>1, <5>1
        <5>3. a <= Len(taken') => taken'[a] = n2k
          BY <1>1, <1>12
        <5> QED
          BY <4>2, <5>2, <5>3
      <4> QED
        BY <1>1, <3>3, <4>1, <4>2
    <3>6. about[i] > Len(taken') =>
            /\ n2k' # None /\ summaries[i].id = n2k'.id /\ summary' # None
            /\ i > 1 => about[i] > about[i - 1]
      BY <1>1, <1>4, <1>8, <1>12, <2>1, <3>3
    <3> QED
      BY <1>8, <2>1, <3>1, <3>2, <3>4, <3>5, <3>6
  <2>2. CASE i = n + 1
    <3>1. /\ summaries'[i] = w /\ about'[i] = a
          /\ i > 1 => about'[i - 1] = about[n]
          /\ i > 2 => about'[i - 2] = about[n - 1]
      <4>1. /\ i > 1 => i - 1 = n /\ n \in 1 .. n
            /\ i > 2 => i - 2 = n - 1 /\ n - 1 \in 1 .. n
        BY <2>2
      <4> QED
        BY <1>6, <1>7, <2>2, <4>1
    <3>2. i > 1 => about[n] \in Nat
      BY <1>1, <1>7, <2>2
    <3>3. a > Len(taken') /\ i > 1 => a > about[n]
      BY <1>1, <1>10, <1>11, <1>12, <2>2, <3>2
    <3>4. a \in 1 .. Len(taken') + 1
      BY <1>1, <1>12
    <3>5. a <= Len(taken') => Len(taken') = a /\ taken'[a] = n2k
      BY <1>1, <1>12
    <3>6. a > Len(taken') => n2k' = n2k
      BY <1>1, <1>12
    <3>7. i = 1 => a = 1
      BY <1>1, <1>11, <2>2
    <3>8. /\ i > 1 => a - about[n] \in {0, 1}
          /\ i > 2 => a > about[n - 1]
      BY <1>1, <1>11, <2>2
    <3> QED
      BY <1>2, <1>4, <3>1, <3>3, <3>4, <3>5, <3>6, <3>7, <3>8
  <2> QED
    BY <1>1, <2>1, <2>2
<1>14. Len(taken') <= about'[n + 1]
  BY <1>1, <1>7, <1>12
<1>15. Collected(n + 1)'
  BY <1>1, <1>13, <1>14 DEF Collected
<1>16. n2k' # None /\ ~summary_tready => about'[n + 1] > Len(taken')
  <2>1. ~summary_tready => taken' = taken
    BY CollectStep
  <2> QED
    BY <1>1, <1>7, <2>1
<1> QED
  BY <1>6, <1>7, <1>15, <1>16

LEMMA SummaryStep ==
  ASSUME IInv, TypeOK', UnderWay, SummaryInv, StartQuiet, Clock
  PROVE  SummaryInv'
<1> SUFFICES ASSUME conf'.mode = "latency"
             PROVE  /\ (Len(about) = Len(summaries))'
                    /\ Closed' => summaries' # << >> /\ summaries'[Len(summaries')].last
                    /\ FirstCycle' => summaries' = << >> /\ taken' = << >>
                    /\ Collected(Opened)' /\ Settled(Opened)'
  BY DEF SummaryInv
<1>1. ~reset_fsm
  BY StillLatency
<1>2. CASE Begins
  <2>1. /\ GetConfiguration /\ ~ap_idle' /\ ap_idle
    BY <1>1, <1>2 DEF Begins, Clock, Main, GetConfiguration, ProduceHeader,
                      ProduceRemaining, WaitNCycles, ProduceSmall, FsmDone, FsmSummaryDone,
                      Started, IInv, StartInv
  <2>2. fsm_summary_state' = "WAIT_UNTIL_MODE" /\ FirstCycle'
    <3>1. fsm_summary_state = "WAIT_UNTIL_MODE" /\ ~FirstCycle
      BY <2>1 DEF GetConfiguration, IInv, HandOver, FirstCycle
    <3> QED
      BY <1>1, <2>1, <3>1 DEF Clock, Summary, WaitUntilMode, WaitPacket, ConsumePacket,
                              SummaryDone, FirstCycle
  <2>3. summaries' = << >> /\ taken' = << >> /\ about' = << >>
    BY <1>2 DEF Clock, Observe
  <2>4. Len(summaries') = 0 /\ Len(taken') = 0 /\ Len(about') = 0
    BY <2>3
  <2>5. ~Closed' /\ ~Over'
    BY <2>2 DEF Closed, Over
  <2>6. Opened' = 0
    BY <2>4, <2>5 DEF Opened
  <2>7. Collected(0)' /\ Settled(0)'
    BY <2>4, <2>5 DEF Collected, Settled
  <2> QED
    BY <2>2, <2>3, <2>4, <2>5, <2>6, <2>7 DEF Collected, Settled
<1>3. CASE ~Begins
  <2>1. conf.mode = "latency"
    BY <1>3, StillLatency
  <2>2. /\ summaries \in Seq(SummaryData) /\ taken \in Seq(BeatData) /\ about \in Seq(Nat)
        /\ n2k \in BeatData \cup {None} /\ Len(taken) \in Nat /\ Len(summaries) \in Nat
    BY DEF IInv, TypeOK
  <2>3. /\ FirstCycle => Quiet
        /\ Over /\ ~timed_out => NothingBehind
        /\ fsm_summary_state # "CONSUME_PACKET"
    BY <2>1 DEF UnderWay
  <2>4. /\ Len(about) = Len(summaries)
        /\ Closed => summaries # << >> /\ summaries[Len(summaries)].last
        /\ FirstCycle => summaries = << >> /\ taken = << >>
        /\ Collected(Opened) /\ Settled(Opened)
    BY <2>1 DEF SummaryInv
  <2>5. ~FirstCycle'
    BY <1>1, <1>3, <2>1, AwaitStep
  <2>6. DrainSummary => /\ summaries' = summaries /\ about' = about
                        /\ summary # None /\ ~summary_tready => summary' # None
    BY <1>1, <1>3, <2>1, CollectStep DEF DrainSummary
  <2>7. /\ taken' = IF n2k # None /\ summary_tready THEN Append(taken, n2k) ELSE taken
        /\ n2k_tready = summary_tready
    BY <1>1, <1>3, <2>1, CollectStep
  <2>8. NothingBehind => n2k' = IF summary_tready THEN None ELSE n2k
    BY <1>1, <1>3, <2>1, <2>7, NothingComes
  <2>9. FirstCycle => fsm_summary_state = "WAIT_UNTIL_MODE" /\ ~Over /\ ~Closed
    BY DEF IInv, HandOver, Over, Closed
  <2>10. CASE FirstCycle
    <3>1. DrainSummary /\ fsm_summary_state' = "WAIT_PACKET" /\ ~end_of_stream' /\ ~timed_out'
      BY <1>1, <1>3, <2>1, <2>10, AwaitStep
    <3>2. ~Closed' /\ ~Over'
      BY <3>1 DEF Closed, Over
    <3>3. summaries' = << >> /\ about' = about /\ taken' = << >>
      BY <2>3, <2>4, <2>6, <2>7, <2>10, <3>1 DEF Quiet
    <3>4. Len(summaries') = 0 /\ Len(taken') = 0 /\ Len(about') = Len(summaries')
      BY <2>4, <2>10, <3>3
    <3>5. Opened' = 0
      BY <3>2, <3>4 DEF Opened
    <3>6. Collected(0)' /\ Settled(0)'
      BY <3>2, <3>4 DEF Collected, Settled
    <3> QED
      BY <2>5, <3>2, <3>4, <3>5, <3>6 DEF Collected, Settled
  <2>11. CASE Over
    <3>1. timed_out' = timed_out
      BY <1>1, <1>3, <2>1, <2>9, <2>11, AwaitStep
    <3>2. n2k # None /\ ~timed_out => Opened > 0 /\ about[Opened] > Len(taken)
      BY <2>4, <2>11 DEF Settled
    <3>3. Opened \in Nat
      BY <2>2, <2>4 DEF Opened
    <3>4. ASSUME n2k' # None, ~timed_out'
          PROVE  n2k # None /\ taken' = taken
      BY <2>3, <2>7, <2>8, <2>11, <3>1, <3>4
    <3>5. CASE DrainSummary
      <4>1. Opened' = Opened /\ Closed' = Closed
        <5>1. Closed' = Closed
          <6>1. Closed \in BOOLEAN /\ Closed' \in BOOLEAN
            BY DEF Closed, FirstCycle
          <6>2. ~Closed => ~Closed'
            <7>1. SUFFICES ASSUME ~Closed, Closed' PROVE FALSE
              OBVIOUS
            <7>2. axis_summary_free /\ summary' = [id |-> 0, last |-> TRUE]
              BY <1>1, <1>3, <2>1, <2>11, <7>1, AwaitStep DEF Closed
            <7>3. [id |-> 0, last |-> TRUE] \in SummaryData
              BY DEF SummaryData
            <7>4. summary' # None
              BY <7>2, <7>3, NoneAssumption
            <7> QED
              BY <3>5, <7>2, <7>4 DEF DrainSummary, axis_summary_free
          <6>3. Closed => Closed'
            BY <1>1, <1>3, <2>1, AwaitStep
          <6> QED
            BY <6>1, <6>2, <6>3
        <5> QED
          BY <2>6, <3>5, <5>1 DEF Opened
      <4>2. Collected(Opened)'
        <5>1. Collected(Opened) /\ (~timed_out' => ~timed_out)
          BY <2>4, <3>1
        <5> DEFINE n == Opened
        <5>2. \A i \in 1 .. n : summaries'[i] = summaries[i] /\ about'[i] = about[i]
          BY <2>6, <3>5
        <5>3. n2k # None /\ summary_tready /\ ~timed_out' => n > 0 /\ about[n] > Len(taken)
          BY <3>1, <3>2
        <5>4. ASSUME NEW k \in Nat, k = n PROVE Collected(k)'
          BY <1>1, <1>3, <2>1, <2>6, <3>5, <5>1, <5>2, <5>3, <5>4, Keeps
        <5>5. Collected(Opened') <=> Collected(n)
          BY <4>1
        <5> QED
          BY <3>3, <4>1, <5>4 DEF Collected
      <4>3. Settled(Opened)'
        <5>1. n2k' # None /\ ~timed_out' => Opened > 0 /\ about[Opened] > Len(taken')
          BY <3>1, <3>2, <3>4
        <5> QED
          BY <2>6, <3>5, <4>1, <5>1 DEF Settled
      <4> QED
        BY <2>4, <2>5, <2>6, <3>5, <4>1, <4>2, <4>3
    <3>6. CASE ~DrainSummary
      <4>1. ~Closed /\ Closed' /\ axis_summary_free /\ summary' = [id |-> 0, last |-> TRUE]
        BY <1>1, <1>3, <2>1, <2>11, <3>6, AwaitStep
      <4> DEFINE w == [id |-> 0, last |-> TRUE]
      <4>2. w \in SummaryData /\ w.last = TRUE
        BY DEF SummaryData
      <4>3. w # None /\ summary' = w
        BY <4>1, <4>2, NoneAssumption
      <4> HIDE DEF w
      <4>4. summaries' = Append(summaries, w) /\ about' = Append(about, Len(taken) + 1)
        BY <1>1, <1>3, <2>1, <4>1, <4>3, CollectStep
      <4>5. /\ Len(summaries') = Len(summaries) + 1 /\ summaries'[Len(summaries) + 1] = w
            /\ \A i \in 1 .. Len(summaries) : summaries'[i] = summaries[i]
            /\ Len(about') = Len(summaries) + 1
            /\ \A i \in 1 .. Len(summaries) : about'[i] = about[i]
        BY <2>2, <2>4, <4>2, <4>4
      <4>6. Opened = Len(summaries) /\ Opened' = Len(summaries)
        BY <2>2, <4>1, <4>5 DEF Opened
      <4>7. \A k \in Nat : k = Len(summaries) => Collected(k)'
        <5> SUFFICES ASSUME NEW k \in Nat, k = Len(summaries) PROVE Collected(k)'
          OBVIOUS
        <5>1. Collected(k) /\ (~timed_out' => ~timed_out)
          BY <2>4, <3>1, <4>6
        <5>2. n2k # None /\ summary_tready /\ ~timed_out' => k > 0 /\ about[k] > Len(taken)
          BY <3>1, <3>2, <4>6
        <5>3. \A i \in 1 .. k : summaries'[i] = summaries[i] /\ about'[i] = about[i]
          BY <4>5
        <5> QED
          BY <1>1, <1>3, <2>1, <4>3, <5>1, <5>2, <5>3, Keeps
      <4>8. Collected(Opened)'
        BY <2>2, <4>6, <4>7 DEF Collected
      <4>9. Settled(Opened)'
        <5> SUFFICES ASSUME n2k' # None, ~timed_out'
                     PROVE  Opened' > 0 /\ about'[Opened'] > Len(taken')
          BY DEF Settled
        <5>1. Opened > 0 /\ about[Opened] > Len(taken) /\ taken' = taken
          BY <3>1, <3>2, <3>4
        <5>2. Opened \in 1 .. Len(summaries)
          BY <2>2, <4>6, <5>1
        <5> QED
          BY <4>5, <4>6, <5>1, <5>2
      <4>10. summaries' # << >> /\ summaries'[Len(summaries')].last
        BY <2>2, <4>2, <4>5
      <4> QED
        BY <2>5, <4>5, <4>8, <4>9, <4>10
    <3> QED
      BY <3>5, <3>6
  <2>12. CASE ~Over /\ ~FirstCycle
    <3>1. /\ fsm_summary_state' = "WAIT_PACKET" /\ ~timed_out /\ ~Closed /\ ~Closed'
      <4>1. fsm_summary_state = "WAIT_PACKET" /\ fsm_summary_state' = "WAIT_PACKET" /\ ~timed_out
        BY <1>1, <1>3, <2>1, <2>12, AwaitStep
      <4> QED
        BY <4>1 DEF Closed
    <3>2. Opened = Len(summaries) /\ Opened' = Len(summaries')
      BY <3>1 DEF Opened
    <3>3. Collected(Len(summaries))
      BY <2>4, <3>2
    <3>4. CASE /\ n2k # None /\ axis_summary_free /\ ~timed_out'
               /\ summary' = [id |-> n2k.id, last |-> FALSE]
               /\ end_of_stream' => Ends(n2k)
      <4>1. /\ Len(summaries') = Len(summaries) + 1 /\ Len(about') = Len(summaries')
            /\ Collected(Len(summaries))'
            /\ n2k' # None /\ ~summary_tready => about'[Len(summaries')] > Len(taken')
        <5>1. \A n, a \in Nat : n = Len(summaries) /\ a = Len(taken) + 1 =>
                /\ Len(summaries') = n + 1 /\ Len(about') = n + 1 /\ Collected(n + 1)'
                /\ n2k' # None /\ ~summary_tready => about'[n + 1] > Len(taken')
          BY <1>1, <1>3, <2>1, <2>4, <3>1, <3>3, <3>4, Adds
        <5>2. /\ Len(summaries) \in Nat /\ Len(taken) + 1 \in Nat
          BY <2>2
        <5>3. \A n \in Nat : n = Len(summaries) =>
                /\ Len(summaries') = n + 1 /\ Len(about') = n + 1 /\ Collected(n + 1)'
                /\ n2k' # None /\ ~summary_tready => about'[n + 1] > Len(taken')
          BY <5>1, <5>2
        <5>4. /\ Len(summaries') = Len(summaries) + 1 /\ Len(about') = Len(summaries')
              /\ n2k' # None /\ ~summary_tready => about'[Len(summaries')] > Len(taken')
          BY <5>2, <5>3
        <5>5. Collected(Len(summaries))'
          BY <5>2, <5>3, <5>4 DEF Collected
        <5> QED
          BY <5>4, <5>5
      <4>2. Collected(Opened)'
        BY <3>2, <4>1 DEF Collected
      <4>3. Settled(Opened)'
        <5> SUFFICES ASSUME Over', n2k' # None
                     PROVE  Opened' > 0 /\ about'[Opened'] > Len(taken')
          BY DEF Settled
        <5>1. end_of_stream'
          BY <3>1, <3>4 DEF Over
        <5>2. NothingBehind
          <6>1. Ends(n2k) /\ Wire
            BY <2>1, <3>4, <5>1 DEF UnderWay
          <6> QED
            BY <3>4, <6>1 DEF Wire, NothingBehind
        <5>3. ~summary_tready
          BY <2>8, <5>2
        <5> QED
          BY <2>2, <3>2, <4>1, <5>3
      <4> QED
        BY <2>5, <3>1, <4>1, <4>2, <4>3
    <3>5. CASE ~(n2k # None /\ axis_summary_free) /\ ~end_of_stream' /\ DrainSummary
      <4>1. summaries' = summaries /\ about' = about
        BY <2>6, <3>5
      <4>2. n2k # None => ~summary_tready
        BY <3>5 DEF axis_summary_free
      <4>3. \A k \in Nat : k = Len(summaries) => Collected(k)'
        <5> SUFFICES ASSUME NEW k \in Nat, k = Len(summaries) PROVE Collected(k)'
          OBVIOUS
        <5>1. Collected(k) /\ (summary # None /\ ~summary_tready => summary' # None)
          BY <2>6, <3>3, <3>5
        <5> QED
          BY <1>1, <1>3, <2>1, <3>1, <4>1, <4>2, <5>1, Keeps
      <4>4. Collected(Opened)'
        BY <2>2, <3>2, <4>1, <4>3 DEF Collected
      <4>5. Settled(Opened)'
        BY <3>1, <3>5 DEF Settled, Over
      <4> QED
        BY <2>4, <2>5, <3>1, <4>1, <4>4, <4>5
    <3> QED
      BY <1>1, <1>3, <2>1, <2>12, <3>4, <3>5, AwaitStep
  <2> QED
    BY <2>10, <2>11, <2>12
<1> QED
  BY <1>2, <1>3

LEMMA LatencyInvariance == Spec => []LatencyInv
<1>1. Init => LatencyInv
  <2> SUFFICES ASSUME Init PROVE LatencyInv
    OBVIOUS
  <2>1. conf.mode = "producer"
    BY DEF Init, Config
  <2> QED
    BY <2>1 DEF Init, LatencyInv, StartQuiet, Quiet, UnderWay, SummaryInv
<1>2. IInv /\ IInv' /\ LatencyInv /\ [Next]_vars => LatencyInv'
  <2>1. IInv' => TypeOK'
    BY DEF IInv
  <2>2. CASE Clock
    BY <2>1, <2>2, StartQuietStep, UnderWayStep, SummaryStep DEF LatencyInv
  <2>3. CASE UNCHANGED vars
    <3>1. LatencyInv => StartQuiet'
      BY <2>3, Stutter DEF LatencyInv, StartQuiet, Quiet
    <3>2. LatencyInv => UnderWay'
      BY <2>3, Stutter DEF LatencyInv, UnderWay, Wire, Small, Ends, FirstCycle, Quiet, Over,
                           NothingBehind, timed_out
    <3>3. LatencyInv => SummaryInv'
      BY <2>3, Stutter DEF LatencyInv, SummaryInv, FirstCycle, Collected, Closed, Opened,
                           Settled, Over, timed_out
    <3> QED
      BY <3>1, <3>2, <3>3 DEF LatencyInv
  <2> QED
    BY <2>2, <2>3 DEF Next
<1> QED
  BY <1>1, <1>2, Invariance, PTL DEF Spec

\* The summaries but the closing one are the first ones.
LEMMA OpeningIs ==
  ASSUME IInv, SummaryInv, conf.mode = "latency"
  PROVE  /\ Len(Opening) = Opened /\ Opened \in Nat /\ Opened <= Len(summaries)
         /\ \A i \in 1 .. Opened : Opening[i] = summaries[i]
         /\ (Opening = << >>) = (Opened = 0)
<1>1. summaries \in Seq(SummaryData) /\ Len(summaries) \in Nat
  BY DEF IInv, TypeOK
<1>2. Last(summaries) = summaries[Len(summaries)]
  BY DEF Last
<1>3. /\ Closed => summaries # << >> /\ summaries[Len(summaries)].last
      /\ Collected(Opened)
  BY DEF SummaryInv
<1>4. CASE Closed
  <2>1. Opening = SubSeq(summaries, 1, Len(summaries) - 1)
    BY <1>2, <1>3, <1>4 DEF Opening, Front
  <2>2. Opened = Len(summaries) - 1 /\ Opened \in Nat
    BY <1>1, <1>3, <1>4 DEF Opened
  <2>3. \A n \in Nat : n <= Len(summaries) =>
          /\ SubSeq(summaries, 1, n) \in Seq(SummaryData)
          /\ Len(SubSeq(summaries, 1, n)) = n
          /\ \A i \in 1 .. n : SubSeq(summaries, 1, n)[i] = summaries[i]
    BY <1>1
  <2>4. Opened <= Len(summaries)
    BY <1>1, <2>2
  <2>5. /\ Opening \in Seq(SummaryData) /\ Len(Opening) = Opened
        /\ \A i \in 1 .. Opened : Opening[i] = summaries[i]
    BY <2>1, <2>2, <2>3, <2>4
  <2> QED
    BY <2>2, <2>4, <2>5
<1>5. CASE ~Closed
  <2>1. Opened = Len(summaries)
    BY <1>5 DEF Opened
  <2>2. summaries # << >> => ~Last(summaries).last
    <3>1. summaries # << >> => Len(summaries) \in 1 .. Opened
      BY <1>1, <2>1
    <3> QED
      BY <1>2, <1>3, <3>1 DEF Collected
  <2>3. Opening = summaries
    BY <2>2 DEF Opening
  <2> QED
    BY <1>1, <2>1, <2>3
<1> QED
  BY <1>4, <1>5

\* Whatever the collector and the network do, whatever is lost, late or given up, a
\* latency run that has not timed out has a summary for each packet taken, in the order
\* of the packets, none for a packet that did not come, none passed over, and at most two
\* of one packet (segment_generator.v:116, 339-346).
THEOREM SummaryForEachPacket == Spec => []SummaryPerPacket
<1>1. IInv /\ LatencyInv => SummaryPerPacket
  <2> SUFFICES ASSUME IInv, SummaryInv, conf.mode = "latency"
               PROVE  /\ \A i \in 1 .. Len(Opening) :
                           /\ ~Opening[i].last
                           /\ about[i] \in 1 .. Len(Offered)
                           /\ Opening[i].id = Offered[about[i]].id
                           /\ about[i] - (IF i = 1 THEN 0 ELSE about[i - 1])
                                \in IF i = 1 THEN {1} ELSE {0, 1}
                           /\ i > 2 => about[i] > about[i - 2]
                      /\ ~timed_out => Len(taken) <= Covered
    BY DEF LatencyInv, SummaryPerPacket
  <2>1. /\ taken \in Seq(BeatData) /\ Len(taken) \in Nat /\ n2k \in BeatData \cup {None}
        /\ about \in Seq(Nat) /\ Len(about) = Len(summaries) /\ Collected(Opened)
    BY DEF IInv, TypeOK, SummaryInv
  <2>2. /\ Len(Opening) = Opened /\ Opened \in Nat
        /\ \A i \in 1 .. Opened : Opening[i] = summaries[i]
        /\ (Opening = << >>) = (Opened = 0)
    BY OpeningIs
  <2>3. /\ \A k \in 1 .. Len(taken) : k \in 1 .. Len(Offered) /\ Offered[k] = taken[k]
        /\ n2k # None => Len(Offered) = Len(taken) + 1 /\ Offered[Len(taken) + 1] = n2k
    <3>1. CASE n2k = None
      <4>1. Offered = taken \o << >>
        BY <3>1 DEF Offered, Waiting
      <4> QED
        BY <2>1, <3>1, <4>1
    <3>2. CASE n2k # None
      <4>1. Offered = taken \o <<n2k>> /\ <<n2k>> \in Seq(BeatData)
        BY <2>1, <3>2 DEF Offered, Waiting
      <4>2. Len(<<n2k>>) = 1 /\ <<n2k>>[1] = n2k
        OBVIOUS
      <4> QED
        BY <2>1, <4>1, <4>2
    <3> QED
      BY <3>1, <3>2
  <2>4. ASSUME NEW i \in 1 .. Opened
        PROVE  /\ ~summaries[i].last
               /\ about[i] \in 1 .. Len(Offered)
               /\ summaries[i].id = Offered[about[i]].id
               /\ about[i] - (IF i = 1 THEN 0 ELSE about[i - 1])
                    \in IF i = 1 THEN {1} ELSE {0, 1}
               /\ i > 2 => about[i] > about[i - 2]
    <3>1. /\ ~summaries[i].last
          /\ about[i] \in 1 .. Len(taken) + 1
          /\ about[i] <= Len(taken) => summaries[i].id = taken[about[i]].id
          /\ i = 1 => about[i] = 1
          /\ i > 1 => about[i] - about[i - 1] \in {0, 1}
          /\ i > 2 => about[i] > about[i - 2]
          /\ about[i] > Len(taken) => n2k # None /\ summaries[i].id = n2k.id
      BY <2>1 DEF Collected
    <3>2. CASE about[i] <= Len(taken)
      <4>1. about[i] \in 1 .. Len(taken)
        BY <2>1, <3>1, <3>2
      <4> QED
        BY <2>3, <3>1, <3>2, <4>1
    <3>3. CASE about[i] > Len(taken)
      <4>1. about[i] = Len(taken) + 1
        BY <2>1, <3>1, <3>3
      <4> QED
        BY <2>1, <2>3, <3>1, <3>3, <4>1
    <3> QED
      BY <2>1, <3>1, <3>2, <3>3
  <2>5. ~timed_out => Len(taken) <= Covered
    BY <2>1, <2>2 DEF Collected, Covered
  <2> QED
    BY <2>2, <2>4, <2>5
<1> QED
  BY <1>1, Invariance, LatencyInvariance, PTL

\* A latency run that reports its end has written exactly one closing summary, after all
\* the others, whatever the collector does (Benchmark_kernel/README.md:49).
THEOREM ClosedExactlyOnce == Spec => []ClosedOnce
<1>1. IInv /\ LatencyInv => ClosedOnce
  <2> SUFFICES ASSUME IInv, SummaryInv, ap_done, conf.mode = "latency"
               PROVE  /\ summaries # << >> /\ Last(summaries).last
                      /\ \A i \in 1 .. Len(summaries) - 1 : ~summaries[i].last
    BY DEF LatencyInv, ClosedOnce
  <2>1. fsm_state = "GET_CONFIGURATION"
    BY DEF IInv, StartInv
  <2>2. Closed
    BY <2>1 DEF IInv, HandOver, FirstCycle, Closed
  <2> QED
    BY <2>2 DEF SummaryInv, Collected, Opened, Last
<1> QED
  BY <1>1, Invariance, LatencyInvariance, PTL

----------------------------------------------------------------------------
(***************************************************************************)
(* The collector.                                                          *)
(***************************************************************************)
Time(n) == rtts[n + 1] % Latencies
Cellular == (0 .. Latencies - 1) \cup {Unset}
Vector == [Lane -> Cellular]
Closes == IF closed /\ ~end_loop THEN 1 ELSE 0

CollectorTypes ==
  /\ stream \in Seq(Summaries \cup {Closing})
  /\ local_mem \in [Row -> Vector] /\ vector_word \in Vector
  /\ total_pkts_reg \in Nat
  /\ move_data \in BOOLEAN /\ end_loop \in BOOLEAN /\ closed \in BOOLEAN
  /\ out \in Seq(Vector) /\ received_packets \in Nat \cup {Unset}
  /\ rtts \in Seq(Times)

\* The stream holds the summaries of the packets that are not read yet, and behind them,
\* if the sender is done, the closing one.
StreamInv ==
  /\ Len(rtts) + Closes = total_pkts_reg + Len(stream)
  /\ \A i \in 1 .. Len(stream) - Closes :
       stream[i] # Closing /\ Latency(stream[i]) = rtts[total_pkts_reg + i] % Latencies
  /\ Closes = 1 => stream # << >> /\ stream[Len(stream)] = Closing
  /\ end_loop => closed /\ stream = << >>

\* The vectors that have been moved, those in the local memory and the lanes of the vector
\* that is being filled follow one another.
MemoryInv ==
  /\ \E q \in Nat : Len(out) = q * Rows
  /\ total_pkts_reg - Len(out) * Lanes \in 0 .. Rows * Lanes
  /\ move_data = (total_pkts_reg - Len(out) * Lanes = Rows * Lanes)
  /\ end_loop => ~move_data
  /\ \A j \in 0 .. Len(out) - 1, i \in Lane : out[j + 1][i] = Time(j * Lanes + i)
  /\ \A j \in Row, i \in Lane :
       LET n == (Len(out) + j) * Lanes + i
       IN  n < total_pkts_reg => local_mem[j][i] = Time(n)
  /\ \A j \in Nat, i, k \in Lane :
       total_pkts_reg = j * Lanes + k /\ i < k => vector_word[i] = Time(j * Lanes + i)

CollectorInv ==
  /\ CollectorTypes /\ StreamInv
  /\ received_packets = Unset => MemoryInv
  /\ received_packets # Unset => end_loop /\ AllCollected

\* The place of a packet's time: row j, lane i.
LEMMA PlaceOf ==
  ASSUME NEW j \in Nat, NEW i \in Lane
  PROVE  (j * Lanes + i) \div Lanes = j /\ (j * Lanes + i) % Lanes = i
<1>1. Lanes \in Nat \ {0} /\ j \in Int /\ i \in 0 .. Lanes - 1
  BY SizeAssumption DEF Lane
<1> QED
  BY <1>1, DivMod

LEMMA HasPlace ==
  ASSUME NEW n \in Nat
  PROVE  \E j \in Nat, i \in Lane : n = j * Lanes + i
<1>1. Lanes \in Nat /\ Lanes > 0
  BY SizeAssumption
<1> DEFINE j == n \div Lanes
           i == n - j * Lanes
<1>2. j \in Nat /\ j * Lanes <= n /\ n < j * Lanes + Lanes
  BY <1>1
<1>3. j * Lanes \in Nat
  BY <1>1, <1>2
<1> HIDE DEF j
<1>4. j \in Nat /\ i \in Lane /\ n = j * Lanes + i
  BY <1>1, <1>2, <1>3 DEF Lane
<1> HIDE DEF i
<1> QED
  BY <1>4

\* The lanes of a row come before those of a later one.
LEMMA BeforeRow ==
  ASSUME NEW m \in Nat, NEW j \in 0 .. m - 1, NEW i \in Lane
  PROVE  j * Lanes + i \in Nat /\ j * Lanes + i < m * Lanes
<1>1. Lanes \in Nat /\ j \in Nat /\ i \in Nat /\ i < Lanes
  BY SizeAssumption DEF Lane
<1>2. (j + 1) * Lanes <= m * Lanes /\ (j + 1) * Lanes = j * Lanes + Lanes
  BY <1>1
<1>3. j * Lanes \in Nat /\ m * Lanes \in Nat
  BY <1>1
<1> QED
  BY <1>1, <1>2, <1>3

\* A difference of timestamps that wrapped is the time all the same.
LEMMA Wraps ==
  ASSUME NEW tx \in 0 .. Stamps - 1, NEW time \in Times
  PROVE  /\ [tx |-> tx, rx |-> (tx + time) % Stamps] \in Summaries
         /\ Latency([tx |-> tx, rx |-> (tx + time) % Stamps]) = time % Latencies
<1>1. /\ Stamps \in Nat /\ Stamps > 0 /\ Latencies \in Nat /\ Latencies > 0
      /\ time \in 0 .. Stamps - 1 /\ Stamps % Latencies = 0
  BY SizeAssumption, TimesAssumption
<1> DEFINE rx == (tx + time) % Stamps
<1>2. rx \in 0 .. Stamps - 1 /\ (rx - tx = time \/ rx - tx = time - Stamps)
  BY <1>1
<1>3. PICK q \in Nat : Stamps = q * Latencies
  <2> DEFINE d == Stamps \div Latencies
  <2>1. d \in Nat /\ Stamps = d * Latencies + (Stamps % Latencies)
    BY <1>1
  <2> HIDE DEF d
  <2> QED
    BY <1>1, <2>1
<1>4. (time - q * Latencies) % Latencies = time % Latencies
  <2> DEFINE d == time \div Latencies
             r == time % Latencies
  <2>1. d \in Int /\ r \in 0 .. Latencies - 1 /\ time = d * Latencies + r
    BY <1>1
  <2> HIDE DEF d, r
  <2>2. time - q * Latencies = (d - q) * Latencies + r /\ d - q \in Int
    BY <1>1, <2>1
  <2>3. (time - q * Latencies) % Latencies = r
    BY <1>1, <2>1, <2>2, DivMod
  <2> QED
    BY <2>3 DEF r
<1> HIDE DEF rx
<1>5. (rx - tx) % Latencies = time % Latencies
  BY <1>2, <1>3, <1>4
<1> QED
  BY <1>2, <1>5 DEF Summaries, Latency, rx

\* The place the next time goes to.
LEMMA NextPlace ==
  ASSUME CollectorTypes, MemoryInv, ~move_data
  PROVE  LET n == total_pkts_reg IN
         \E j \in Row, i \in Lane :
           /\ n = (Len(out) + j) * Lanes + i
           /\ n \div Lanes = Len(out) + j /\ RowOf(n) = j /\ n % Lanes = i
<1> DEFINE n == total_pkts_reg
           o == Len(out)
<1>1. /\ Lanes \in Nat /\ Lanes > 0 /\ Rows \in Nat /\ Rows > 0 /\ n \in Nat /\ o \in Nat
  BY SizeAssumption DEF CollectorTypes
<1>2. PICK q \in Nat : o = q * Rows
  BY DEF MemoryInv
<1>3. n - o * Lanes \in 0 .. Rows * Lanes /\ n - o * Lanes # Rows * Lanes
  BY Zenon DEF MemoryInv
<1> HIDE DEF n, o
<1>4. n - o * Lanes \in Nat /\ n - o * Lanes < Rows * Lanes
  <2>1. o * Lanes \in Nat /\ Rows * Lanes \in Nat
    BY <1>1
  <2> HIDE DEF n, o
  <2> QED
    BY <1>1, <1>3, <2>1
<1>5. PICK j \in Nat, i \in Lane : n - o * Lanes = j * Lanes + i
  BY <1>4, HasPlace
<1>6. j < Rows
  <2>1. CASE j >= Rows
    <3>1. j * Lanes >= Rows * Lanes
      BY <1>1, <1>5, <2>1
    <3>2. i \in Nat /\ j * Lanes \in Nat /\ Rows * Lanes \in Nat
      BY <1>1, <1>5 DEF Lane
    <3> QED
      BY <1>4, <1>5, <3>1, <3>2
  <2> QED
    BY <1>1, <1>5, <2>1
<1>7. n = (o + j) * Lanes + i
  <2>1. (o + j) * Lanes = o * Lanes + j * Lanes /\ o * Lanes \in Nat /\ j * Lanes \in Nat
    BY <1>1, <1>5
  <2>2. i \in Nat
    BY <1>1, <1>5 DEF Lane
  <2> QED
    BY <1>1, <1>5, <2>1, <2>2
<1>8. n \div Lanes = o + j /\ n % Lanes = i
  <2>1. o + j \in Nat
    BY <1>1, <1>5
  <2>2. /\ ((o + j) * Lanes + i) \div Lanes = o + j
        /\ ((o + j) * Lanes + i) % Lanes = i
    BY <1>5, <2>1, PlaceOf
  <2> QED
    BY <1>7, <2>2
<1>9. (o + j) % Rows = j
  BY <1>1, <1>2, <1>5, <1>6, DivMod
<1>10. j \in Row /\ RowOf(n) = j
  BY <1>1, <1>5, <1>6, <1>8, <1>9 DEF Row, RowOf
<1> QED
  BY <1>5, <1>7, <1>8, <1>10 DEF n, o

\* The memory is full exactly when its last lane is.
LEMMA FullAt ==
  ASSUME NEW q \in Nat, NEW r \in 1 .. Rows * Lanes
  PROVE  Full((q * Rows) * Lanes + r) = (r = Rows * Lanes)
<1> DEFINE m == Lanes * Rows
<1>1. Lanes \in Nat \ {0} /\ Rows \in Nat \ {0}
  BY SizeAssumption
<1>2. m \in Nat \ {0} /\ Rows * Lanes = m /\ (q * Rows) * Lanes = q * m
  BY <1>1
<1>3. Full((q * Rows) * Lanes + r) = ((q * m + r) % m = 0)
  BY <1>2 DEF Full
<1> HIDE DEF m
<1>4. CASE r = m
  <2>1. q * m + r = (q + 1) * m + 0 /\ q + 1 \in Int /\ 0 \in 0 .. m - 1
    BY <1>2, <1>4
  <2>2. ((q + 1) * m + 0) % m = 0
    BY <1>2, <2>1, DivMod, Zenon
  <2>3. (q * m + r) % m = 0
    BY <2>1, <2>2, Zenon
  <2> QED
    BY <1>2, <1>3, <1>4, <2>3
<1>5. CASE r # m
  <2>1. r \in 0 .. m - 1 /\ r # 0
    BY <1>2, <1>5
  <2>2. (q * m + r) % m = r
    BY <1>2, <2>1, DivMod
  <2> QED
    BY <1>2, <1>3, <1>5, <2>1, <2>2
<1> QED
  BY <1>4, <1>5

LEMMA CollectorInitially == CollectorInit => CollectorInv
<1> SUFFICES ASSUME CollectorInit PROVE CollectorInv
  OBVIOUS
<1>1. CollectorTypes
  <2>1. [i \in Lane |-> Unset] \in Vector
    BY DEF Vector, Cellular
  <2>2. [j \in Row |-> [i \in Lane |-> Unset]] \in [Row -> Vector]
    BY <2>1, Zenon
  <2>3. /\ stream = << >> /\ total_pkts_reg = 0 /\ out = << >> /\ rtts = << >>
        /\ move_data = FALSE /\ end_loop = FALSE /\ closed = FALSE
        /\ received_packets = Unset
    BY Zenon DEF CollectorInit
  <2>4. vector_word \in Vector /\ local_mem \in [Row -> Vector]
    BY <2>1, <2>2, Zenon DEF CollectorInit
  <2>5. /\ << >> \in Seq(Summaries \cup {Closing}) /\ << >> \in Seq(Vector)
        /\ << >> \in Seq(Times)
    OBVIOUS
  <2> QED
    BY <2>3, <2>4, <2>5, Zenon DEF CollectorTypes
<1>2. StreamInv
  BY DEF CollectorInit, StreamInv, Closes
<1>3. Len(out) = 0 /\ total_pkts_reg = 0 /\ move_data = FALSE /\ ~end_loop /\ Rows * Lanes \in Nat
      /\ Rows * Lanes > 0 /\ 0 * Lanes = 0 /\ 0 * Rows = 0 /\ Lanes \in Nat
  BY SizeAssumption DEF CollectorInit
<1>4. \A j \in Nat, i \in Lane : ~(j * Lanes + i < 0)
  <2> SUFFICES ASSUME NEW j \in Nat, NEW i \in Lane PROVE ~(j * Lanes + i < 0)
    OBVIOUS
  <2>1. j * Lanes \in Nat /\ i \in Nat
    BY <1>3 DEF Lane
  <2> QED
    BY <2>1
<1>5. \A j \in Nat, i, k \in Lane : ~(0 = j * Lanes + k /\ i < k)
  <2> SUFFICES ASSUME NEW j \in Nat, NEW i \in Lane, NEW k \in Lane, i < k
               PROVE  0 # j * Lanes + k
    OBVIOUS
  <2>1. j * Lanes \in Nat /\ k \in Nat /\ i \in Nat
    BY <1>3 DEF Lane
  <2> QED
    BY <2>1
<1>6. MemoryInv
  <2>1. \E q \in Nat : Len(out) = q * Rows
    <3> WITNESS 0 \in Nat
    <3> QED
      BY <1>3
  <2>2. Row \subseteq Nat
    BY SizeAssumption DEF Row
  <2>3. \A j \in Row, i \in Lane : ~((Len(out) + j) * Lanes + i < total_pkts_reg)
    BY <1>3, <1>4, <2>2
  <2>4. \A j \in 0 .. Len(out) - 1 : FALSE
    BY <1>3
  <2>5. total_pkts_reg - Len(out) * Lanes = 0
    BY <1>3
  <2>6. /\ total_pkts_reg - Len(out) * Lanes \in 0 .. Rows * Lanes
        /\ (total_pkts_reg - Len(out) * Lanes = Rows * Lanes) = FALSE
    BY <1>3, <2>5
  <2>7. \A j \in Nat, i, k \in Lane : ~(total_pkts_reg = j * Lanes + k /\ i < k)
    BY <1>3, <1>5
  <2> QED
    BY <1>3, <2>1, <2>3, <2>4, <2>6, <2>7, Zenon DEF MemoryInv
<1>7. received_packets = Unset
  BY DEF CollectorInit
<1> QED
  BY <1>1, <1>2, <1>6, <1>7 DEF CollectorInv

\* The stream and the sender's list grow by the same packet.
LEMMA SummariseStep ==
  ASSUME CollectorInv, Summarise
  PROVE  CollectorInv'
<1>1. PICK tx \in 0 .. Stamps - 1, time \in Times :
        /\ stream' = Append(stream, [tx |-> tx, rx |-> (tx + time) % Stamps])
        /\ rtts' = Append(rtts, time)
  BY Zenon DEF Summarise
<1> DEFINE x == [tx |-> tx, rx |-> (tx + time) % Stamps]
           n == total_pkts_reg
<1>2. x \in Summaries /\ Latency(x) = time % Latencies /\ x # Closing
  BY Wraps, ClosingAssumption
<1>3. /\ ~closed /\ closed' = closed /\ end_loop' = end_loop /\ total_pkts_reg' = n
      /\ local_mem' = local_mem /\ vector_word' = vector_word /\ move_data' = move_data
      /\ out' = out /\ received_packets' = received_packets
  BY DEF Summarise
<1>4. /\ stream \in Seq(Summaries \cup {Closing}) /\ rtts \in Seq(Times) /\ n \in Nat
      /\ CollectorTypes /\ StreamInv
  BY DEF CollectorInv, CollectorTypes
<1>5. ~end_loop /\ Closes = 0 /\ Closes' = 0
  BY <1>3, <1>4 DEF StreamInv, Closes
<1>6. received_packets = Unset /\ MemoryInv
  BY <1>5 DEF CollectorInv
<1> HIDE DEF x, n
<1>7. /\ stream' \in Seq(Summaries \cup {Closing}) /\ Len(stream') = Len(stream) + 1
      /\ \A i \in 1 .. Len(stream) : stream'[i] = stream[i]
      /\ stream'[Len(stream) + 1] = x
  BY <1>1, <1>2, <1>4 DEF x
<1>8. /\ rtts' \in Seq(Times) /\ Len(rtts') = Len(rtts) + 1
      /\ \A i \in 1 .. Len(rtts) : rtts'[i] = rtts[i]
      /\ rtts'[Len(rtts) + 1] = time
  BY <1>1, <1>4
<1>9. CollectorTypes'
  BY <1>3, <1>4, <1>7, <1>8 DEF CollectorTypes, n
<1>10. Len(rtts) = n + Len(stream) /\ Len(stream) \in Nat /\ Len(rtts) \in Nat
  BY <1>4, <1>5 DEF StreamInv, n
<1>11. ASSUME NEW i \in 1 .. Len(stream')
       PROVE  stream'[i] # Closing /\ Latency(stream'[i]) = rtts'[n + i] % Latencies
  <2>1. CASE i \in 1 .. Len(stream)
    <3>1. stream[i] # Closing /\ Latency(stream[i]) = rtts[n + i] % Latencies
      BY <1>4, <1>5, <2>1 DEF StreamInv, n
    <3>2. n + i \in 1 .. Len(rtts)
      BY <1>4, <1>10, <2>1
    <3> QED
      BY <1>7, <1>8, <2>1, <3>1, <3>2
  <2>2. CASE i = Len(stream) + 1
    <3>1. n + i = Len(rtts) + 1
      BY <1>4, <1>10, <2>2
    <3> QED
      BY <1>2, <1>7, <1>8, <2>2, <3>1
  <2> QED
    BY <1>7, <1>10, <2>1, <2>2
<1>12. StreamInv'
  <2>1. Len(rtts') + Closes' = total_pkts_reg' + Len(stream')
    BY <1>3, <1>4, <1>5, <1>7, <1>8, <1>10
  <2>2. Len(stream') - Closes' = Len(stream')
    BY <1>5, <1>7, <1>10
  <2>3. \A i \in 1 .. Len(stream') - Closes' :
          stream'[i] # Closing /\ Latency(stream'[i]) = rtts'[total_pkts_reg' + i] % Latencies
    BY <1>3, <1>11, <2>2
  <2>4. Closes' # 1 /\ ~end_loop'
    BY <1>3, <1>5
  <2> QED
    BY <2>1, <2>3, <2>4, Zenon DEF StreamInv, Latency
<1>13. \A k \in Nat : k < n => Time(k)' = Time(k)
  <2> SUFFICES ASSUME NEW k \in Nat, k < n PROVE Time(k)' = Time(k)
    OBVIOUS
  <2>1. k + 1 \in 1 .. Len(rtts)
    BY <1>4, <1>10
  <2> QED
    BY <1>8, <2>1 DEF Time
<1>14. MemoryInv'
  <2>1. /\ n \in Nat /\ Len(out) \in Nat /\ Lanes \in Nat /\ Rows \in Nat
        /\ Lane \subseteq Nat /\ Row \subseteq Nat /\ n - Len(out) * Lanes \in 0 .. Rows * Lanes
    <3>1. Len(out) \in Nat /\ n \in Nat
      BY <1>4 DEF CollectorTypes
    <3>2. n - Len(out) * Lanes \in 0 .. Rows * Lanes
      BY <1>6, Zenon DEF MemoryInv, n
    <3>3. Lanes \in Nat /\ Rows \in Nat
      BY SizeAssumption
    <3>4. Lane \subseteq Nat /\ Row \subseteq Nat
      BY <3>3 DEF Lane, Row
    <3> QED
      BY <3>1, <3>2, <3>3, <3>4
  <2>2. ASSUME NEW j \in 0 .. Len(out) - 1, NEW i \in Lane
        PROVE  out'[j + 1][i] = Time(j * Lanes + i)'
    <3>1. j * Lanes + i \in Nat /\ j * Lanes + i < Len(out) * Lanes
      BY <2>1, BeforeRow
    <3>2. Len(out) * Lanes <= n
      BY <2>1
    <3>3. j * Lanes + i < n
      BY <2>1, <3>1, <3>2
    <3> QED
      BY <1>3, <1>6, <1>13, <3>1, <3>3, Zenon DEF MemoryInv
  <2>3. ASSUME NEW j \in Row, NEW i \in Lane, (Len(out) + j) * Lanes + i < n
        PROVE  local_mem'[j][i] = Time((Len(out) + j) * Lanes + i)'
    <3>1. (Len(out) + j) * Lanes + i \in Nat
      BY <2>1
    <3> QED
      BY <1>3, <1>6, <1>13, <2>3, <3>1, Zenon DEF MemoryInv, n
  <2>4. ASSUME NEW j \in Nat, NEW i \in Lane, NEW k \in Lane, n = j * Lanes + k, i < k
        PROVE  vector_word'[i] = Time(j * Lanes + i)'
    <3>1. j * Lanes + i \in Nat /\ j * Lanes + i < n
      BY <2>1, <2>4
    <3> QED
      BY <1>3, <1>6, <1>13, <2>4, <3>1, Zenon DEF MemoryInv, n
  <2> QED
    BY <1>3, <1>6, <2>2, <2>3, <2>4, Zenon DEF MemoryInv, n
<1> QED
  BY <1>3, <1>6, <1>9, <1>12, <1>14, Zenon DEF CollectorInv

LEMMA CloseStep ==
  ASSUME CollectorInv, Close
  PROVE  CollectorInv'
<1> DEFINE n == total_pkts_reg
<1>1. /\ ~closed /\ closed' = TRUE /\ end_loop' = end_loop /\ total_pkts_reg' = n
      /\ local_mem' = local_mem /\ vector_word' = vector_word /\ move_data' = move_data
      /\ out' = out /\ received_packets' = received_packets /\ rtts' = rtts
      /\ stream' = Append(stream, Closing)
  BY DEF Close
<1>2. /\ stream \in Seq(Summaries \cup {Closing}) /\ rtts \in Seq(Times) /\ n \in Nat
      /\ CollectorTypes /\ StreamInv
  BY DEF CollectorInv, CollectorTypes
<1>3. ~end_loop /\ Closes = 0 /\ Closes' = 1
  BY <1>1, <1>2 DEF StreamInv, Closes
<1>4. received_packets = Unset /\ MemoryInv
  BY <1>3 DEF CollectorInv
<1> HIDE DEF n
<1>5. /\ stream' \in Seq(Summaries \cup {Closing}) /\ Len(stream') = Len(stream) + 1
      /\ \A i \in 1 .. Len(stream) : stream'[i] = stream[i]
      /\ stream'[Len(stream) + 1] = Closing /\ stream' # << >> /\ Len(stream) \in Nat
  BY <1>1, <1>2
<1>6. CollectorTypes'
  BY <1>1, <1>2, <1>5 DEF CollectorTypes, n
<1>7. StreamInv'
  <2>1. Len(stream') - Closes' = Len(stream) /\ Len(stream) - Closes = Len(stream)
    BY <1>3, <1>5
  <2>6. Len(rtts) + 0 = n + Len(stream) /\ Len(rtts) \in Nat
    BY <1>2, <1>3 DEF StreamInv, n
  <2>2. Len(rtts') + Closes' = total_pkts_reg' + Len(stream')
    BY <1>1, <1>2, <1>3, <1>5, <2>6
  <2>3. \A i \in 1 .. Len(stream) :
          stream[i] # Closing /\ Latency(stream[i]) = rtts[n + i] % Latencies
    BY <1>2, <2>1 DEF StreamInv, n
  <2>4. \A i \in 1 .. Len(stream') - Closes' :
          stream'[i] # Closing /\ Latency(stream'[i]) = rtts'[total_pkts_reg' + i] % Latencies
    BY <1>1, <1>5, <2>1, <2>3
  <2>5. stream'[Len(stream')] = Closing
    BY <1>5
  <2> QED
    BY <1>1, <1>3, <1>5, <2>2, <2>4, <2>5, Zenon DEF StreamInv, Latency
<1>8. MemoryInv'
  BY <1>1, <1>4, Zenon DEF MemoryInv, Time, n
<1> QED
  BY <1>1, <1>4, <1>6, <1>7, <1>8, Zenon DEF CollectorInv

LEMMA ClosingStep ==
  ASSUME CollectorInv, ReadClosing
  PROVE  CollectorInv'
<1> DEFINE n == total_pkts_reg
<1>1. /\ end_loop' = TRUE /\ closed' = closed /\ total_pkts_reg' = n /\ ~end_loop
      /\ local_mem' = local_mem /\ vector_word' = vector_word /\ move_data' = move_data
      /\ out' = out /\ received_packets' = received_packets /\ rtts' = rtts /\ ~move_data
      /\ stream' = Tail(stream) /\ stream # << >> /\ Head(stream) = Closing
  BY DEF ReadClosing
<1>2. /\ stream \in Seq(Summaries \cup {Closing}) /\ rtts \in Seq(Times) /\ n \in Nat
      /\ CollectorTypes /\ StreamInv /\ closed \in BOOLEAN
  BY DEF CollectorInv, CollectorTypes
<1>3. received_packets = Unset /\ MemoryInv
  BY <1>1 DEF CollectorInv
<1> HIDE DEF n
<1>4. Len(stream) \in Nat /\ Len(stream) > 0 /\ stream[1] = Closing
  BY <1>1, <1>2
<1>5. Closes = 1 /\ Len(stream) = 1 /\ closed
  <2>1. Closes \in {0, 1} /\ (Closes = 1 => closed)
    BY DEF Closes
  <2>2. ~(1 \in 1 .. Len(stream) - Closes)
    BY <1>2, <1>4 DEF StreamInv
  <2>3. Closes = 1
    BY <1>4, <2>1, <2>2
  <2>4. Len(stream) = 1
    BY <1>4, <2>2, <2>3
  <2> QED
    BY <2>1, <2>3, <2>4
<1>6. stream' = << >> /\ Len(stream') = 0
  BY <1>1, <1>2, <1>5
<1>7. Closes' = 0
  BY <1>1 DEF Closes
<1>8. CollectorTypes'
  BY <1>1, <1>2, <1>6 DEF CollectorTypes, n
<1>9. StreamInv'
  <2>3. Len(rtts) + 1 = n + 1 /\ Len(rtts) \in Nat
    BY <1>2, <1>5 DEF StreamInv, n
  <2>1. Len(rtts') + Closes' = total_pkts_reg' + Len(stream')
    <3>1. Len(rtts) = n
      BY <1>2, <2>3
    <3> QED
      BY <1>1, <1>6, <1>7, <3>1, Zenon
  <2>2. \A i \in 1 .. Len(stream') - Closes' : FALSE
    BY <1>6, <1>7
  <2>4. Closes' # 1
    BY <1>7
  <2> QED
    BY <1>1, <1>5, <1>6, <2>1, <2>2, <2>4, Zenon DEF StreamInv
<1>10. MemoryInv'
  BY <1>1, <1>3, Zenon DEF MemoryInv, Time, n
<1> QED
  BY <1>1, <1>3, <1>8, <1>9, <1>10, Zenon DEF CollectorInv

\* What moving the first rows of the local memory makes of global memory.
LEMMA Moved ==
  ASSUME CollectorTypes, NEW n \in 0 .. Rows, NEW moved, moved = out \o FirstRows(n)
  PROVE  /\ moved \in Seq(Vector) /\ Len(moved) = Len(out) + n
         /\ \A j \in 0 .. Len(out) + n - 1 :
              moved[j + 1] = IF j < Len(out) THEN out[j + 1] ELSE local_mem[j - Len(out)]
<1>1. out \in Seq(Vector) /\ Len(out) \in Nat /\ n \in Nat /\ Rows \in Nat
      /\ local_mem \in [Row -> Vector]
  BY SizeAssumption DEF CollectorTypes
<1>2. \A k \in 1 .. n : k - 1 \in Row
  BY <1>1 DEF Row
<1>3. /\ FirstRows(n) \in Seq(Vector) /\ Len(FirstRows(n)) = n
      /\ \A k \in 1 .. n : FirstRows(n)[k] = local_mem[k - 1]
  BY <1>1, <1>2 DEF FirstRows
<1>4. moved \in Seq(Vector) /\ Len(moved) = Len(out) + n
  BY <1>1, <1>3
<1>5. ASSUME NEW j \in 0 .. Len(out) + n - 1
      PROVE  moved[j + 1] = IF j < Len(out) THEN out[j + 1] ELSE local_mem[j - Len(out)]
  <2>1. CASE j < Len(out)
    BY <1>1, <1>3, <2>1
  <2>2. CASE ~(j < Len(out))
    <3>1. j + 1 - Len(out) \in 1 .. n /\ j + 1 - Len(out) - 1 = j - Len(out)
      BY <1>1, <2>2
    <3>2. moved[j + 1] = FirstRows(n)[j + 1 - Len(out)]
      BY <1>1, <1>3, <2>2
    <3> QED
      BY <1>3, <2>2, <3>1, <3>2
  <2> QED
    BY <2>1, <2>2
<1> QED
  BY <1>4, <1>5

LEMMA MoveStep ==
  ASSUME CollectorInv, MoveLocalMemory
  PROVE  CollectorInv'
<1> DEFINE n == total_pkts_reg
           o == Len(out)
<1>1. /\ ~end_loop /\ move_data = TRUE /\ move_data' = FALSE /\ out' = out \o FirstRows(Rows)
      /\ closed' = closed /\ end_loop' = end_loop /\ total_pkts_reg' = n /\ rtts' = rtts
      /\ local_mem' = local_mem /\ vector_word' = vector_word /\ stream' = stream
      /\ received_packets' = received_packets
  BY DEF MoveLocalMemory, CollectorInv, CollectorTypes
<1>2. CollectorTypes /\ StreamInv /\ MemoryInv /\ received_packets = Unset
  BY <1>1 DEF CollectorInv
<1>3. /\ n \in Nat /\ o \in Nat /\ Lanes \in Nat /\ Rows \in Nat /\ Rows > 0 /\ Lanes > 0
  BY <1>2, SizeAssumption DEF CollectorTypes
<1>4. n - o * Lanes = Rows * Lanes
  BY <1>1, <1>2 DEF MemoryInv
<1>5. /\ out' \in Seq(Vector) /\ Len(out') = o + Rows
      /\ \A j \in 0 .. o + Rows - 1 :
           out'[j + 1] = IF j < o THEN out[j + 1] ELSE local_mem[j - o]
  <2>1. Rows \in 0 .. Rows
    BY <1>3
  <2> QED
    BY <1>1, <1>2, <2>1, Moved
<1> HIDE DEF n, o
<1>6. n = (o + Rows) * Lanes /\ Rows * Lanes \in Nat /\ Rows * Lanes > 0
  <2>1. (o + Rows) * Lanes = o * Lanes + Rows * Lanes /\ o * Lanes \in Nat
        /\ Rows * Lanes \in Nat /\ Rows * Lanes > 0
    BY <1>3
  <2> QED
    BY <1>3, <1>4, <2>1
<1>7. CollectorTypes'
  BY <1>1, <1>2, <1>5 DEF CollectorTypes, n
<1>8. StreamInv'
  BY <1>1, <1>2, Zenon DEF StreamInv, Closes, n
<1>9. MemoryInv'
  <2>1. \E q \in Nat : Len(out') = q * Rows
    <3>1. PICK q \in Nat : o = q * Rows
      BY <1>2 DEF MemoryInv, o
    <3>2. Len(out') = (q + 1) * Rows /\ q + 1 \in Nat
      BY <1>3, <1>5, <3>1
    <3> QED
      BY <3>2
  <2>2. n - Len(out') * Lanes = 0
    BY <1>3, <1>5, <1>6
  <2>3. /\ n - Len(out') * Lanes \in 0 .. Rows * Lanes
        /\ (n - Len(out') * Lanes = Rows * Lanes) = FALSE
    BY <1>6, <2>2
  <2>4. ASSUME NEW j \in 0 .. Len(out') - 1, NEW i \in Lane
        PROVE  out'[j + 1][i] = Time(j * Lanes + i)
    <3>1. j \in 0 .. o + Rows - 1 /\ o + Rows \in Nat
      BY <1>3, <1>5
    <3>2. CASE j < o
      <4>1. out'[j + 1] = out[j + 1]
        BY <1>5, <3>1, <3>2, Zenon
      <4>2. j \in 0 .. o - 1
        BY <1>3, <3>1, <3>2
      <4> QED
        BY <1>2, <4>1, <4>2 DEF MemoryInv, o
    <3>3. CASE ~(j < o)
      <4>1. j - o \in Row /\ o + (j - o) = j /\ out'[j + 1] = local_mem[j - o]
        BY <1>3, <1>5, <3>1, <3>3 DEF Row
      <4>2. j * Lanes + i < n
        <5> DEFINE w == o + Rows
        <5>1. w \in Nat /\ j \in 0 .. w - 1 /\ w * Lanes = n
          BY <1>3, <1>6, <3>1
        <5> HIDE DEF w
        <5>2. j * Lanes + i < w * Lanes
          BY <5>1, BeforeRow
        <5> QED
          BY <5>1, <5>2
      <4>3. local_mem[j - o][i] = Time((o + (j - o)) * Lanes + i)
        BY <1>2, <4>1, <4>2 DEF MemoryInv, o, n
      <4> QED
        BY <4>1, <4>3
    <3> QED
      BY <3>2, <3>3
  <2>5. ASSUME NEW j \in Row, NEW i \in Lane
        PROVE  ~((Len(out') + j) * Lanes + i < n)
    <3>1. j * Lanes \in Nat /\ i \in Nat /\ j \in Nat
      BY <1>3 DEF Row, Lane
    <3>2. (Len(out') + j) * Lanes = n + j * Lanes
      BY <1>3, <1>5, <1>6, <3>1
    <3> QED
      BY <1>3, <3>1, <3>2
  <2>6. \A j \in Nat, i, k \in Lane :
          n = j * Lanes + k /\ i < k => vector_word[i] = Time(j * Lanes + i)
    BY <1>2 DEF MemoryInv, n
  <2> QED
    BY <1>1, <2>1, <2>3, <2>4, <2>5, <2>6, Zenon DEF MemoryInv, Time
<1> QED
  BY <1>1, <1>2, <1>7, <1>8, <1>9, Zenon DEF CollectorInv

LEMMA ReadStep ==
  ASSUME CollectorInv, ReadSummary
  PROVE  CollectorInv'
<1> DEFINE n == total_pkts_reg
           o == Len(out)
           t == Latency(Head(stream))
<1>1. /\ ~end_loop /\ ~move_data /\ stream # << >> /\ Head(stream) # Closing
      /\ stream' = Tail(stream) /\ n' = n + 1
      /\ vector_word' = [vector_word EXCEPT ![n % Lanes] = t]
      /\ local_mem' = [local_mem EXCEPT ![RowOf(n)] = vector_word']
      /\ move_data' = Full(n + 1)
      /\ closed' = closed /\ end_loop' = end_loop /\ rtts' = rtts /\ out' = out
      /\ received_packets' = received_packets
  BY Zenon DEF ReadSummary
<1>2. CollectorTypes /\ StreamInv /\ MemoryInv /\ received_packets = Unset
  BY <1>1 DEF CollectorInv
<1>3. /\ n \in Nat /\ o \in Nat /\ Lanes \in Nat /\ Rows \in Nat /\ Rows > 0 /\ Lanes > 0
      /\ stream \in Seq(Summaries \cup {Closing}) /\ rtts \in Seq(Times) /\ Latencies \in Nat
      /\ vector_word \in Vector /\ local_mem \in [Row -> Vector] /\ Latencies > 0
  BY <1>2, SizeAssumption DEF CollectorTypes
<1>4. PICK j \in Row, i \in Lane :
        n = (o + j) * Lanes + i /\ RowOf(n) = j /\ n % Lanes = i
  BY <1>1, <1>2, NextPlace, Zenon
<1>5. PICK q \in Nat : o = q * Rows
  BY <1>2 DEF MemoryInv
<1> HIDE DEF n, o, t
\* The stream.
<1>6. /\ Closes \in {0, 1} /\ Closes' = Closes /\ Len(stream) \in Nat /\ Len(stream) > 0
      /\ Len(rtts) \in Nat /\ Len(rtts) + Closes = n + Len(stream)
      /\ Head(stream) = stream[1]
  BY <1>1, <1>2, <1>3 DEF StreamInv, Closes, n
<1>7. Len(stream) - Closes >= 1
  <2>1. Closes = 1 => Len(stream) # 1
    BY <1>1, <1>2, <1>6 DEF StreamInv
  <2>2. CASE Closes = 1
    <3> DEFINE m == Len(stream)
    <3>1. m \in Nat /\ m # 0 /\ m # 1
      BY <1>6, <2>1, <2>2
    <3> HIDE DEF m
    <3>2. m - 1 >= 1
      BY <3>1
    <3> QED
      BY <2>2, <3>2, Zenon DEF m
  <2>3. CASE Closes = 0
    BY <1>6, <2>3
  <2> QED
    BY <1>6, <2>2, <2>3
<1>8. t = Time(n) /\ t \in 0 .. Latencies - 1
  <2>1. 1 \in 1 .. Len(stream) - Closes
    BY <1>6, <1>7
  <2>2. Latency(stream[1]) = rtts[n + 1] % Latencies
    BY <1>2, <2>1 DEF StreamInv, n
  <2>3. n + 1 \in 1 .. Len(rtts)
    BY <1>3, <1>6, <1>7
  <2>4. rtts[n + 1] \in Nat
    BY <1>3, <2>3, TimesAssumption
  <2> QED
    BY <1>3, <1>6, <2>2, <2>4 DEF Time, t
<1>9. StreamInv'
  <2>1. /\ stream' \in Seq(Summaries \cup {Closing}) /\ Len(stream') = Len(stream) - 1
        /\ \A k \in 1 .. Len(stream) - 1 : stream'[k] = stream[k + 1]
    BY <1>1, <1>3
  <2>2. Len(rtts') + Closes' = n' + Len(stream')
    BY <1>1, <1>3, <1>6, <2>1
  <2>3. ASSUME NEW k \in 1 .. Len(stream') - Closes'
        PROVE  stream'[k] # Closing /\ Latency(stream'[k]) = rtts'[n' + k] % Latencies
    <3>1. /\ k + 1 \in 1 .. Len(stream) - Closes /\ k \in 1 .. Len(stream) - 1
          /\ n + (k + 1) = n' + k
      BY <1>1, <1>3, <1>6, <2>1
    <3>2. /\ stream[k + 1] # Closing
          /\ Latency(stream[k + 1]) = rtts[n + (k + 1)] % Latencies
      BY <1>2, <3>1 DEF StreamInv, n
    <3> QED
      BY <1>1, <2>1, <3>1, <3>2
  <2>4. ASSUME Closes' = 1 PROVE stream' # << >> /\ stream'[Len(stream')] = Closing
    <3>1. Len(stream) - 1 \in 1 .. Len(stream) - 1 /\ Len(stream) - 1 + 1 = Len(stream)
      BY <1>6, <1>7, <2>4
    <3>2. stream[Len(stream)] = Closing
      BY <1>2, <1>6, <2>4 DEF StreamInv
    <3> QED
      BY <2>1, <3>1, <3>2
  <2> QED
    BY <1>1, <2>2, <2>3, <2>4, Zenon DEF StreamInv, Latency, n
\* The memory.
<1>10. /\ j \in Nat /\ i \in 0 .. Lanes - 1 /\ i \in Nat /\ j < Rows
       /\ Lane \subseteq Nat /\ Row \subseteq Nat
  BY <1>3, <1>4 DEF Row, Lane
<1>11. /\ vector_word' \in Vector /\ vector_word'[i] = t
       /\ \A k \in Lane : k # i => vector_word'[k] = vector_word[k]
  <2>1. vector_word' = [vector_word EXCEPT ![i] = t]
    BY <1>1, <1>4
  <2>2. t \in Cellular
    BY <1>8 DEF Cellular
  <2> QED
    BY <1>3, <1>4, <2>1, <2>2 DEF Vector
<1>12. /\ local_mem' \in [Row -> Vector] /\ local_mem'[j] = vector_word'
       /\ \A k \in Row : k # j => local_mem'[k] = local_mem[k]
  <2>1. local_mem' = [local_mem EXCEPT ![j] = vector_word']
    BY <1>1, <1>4
  <2> QED
    BY <1>3, <1>4, <1>11, <2>1
<1>13. \A k \in Lane : k <= i => vector_word'[k] = Time((o + j) * Lanes + k)
  <2> SUFFICES ASSUME NEW k \in Lane, k <= i
               PROVE  vector_word'[k] = Time((o + j) * Lanes + k)
    OBVIOUS
  <2>1. CASE k = i
    BY <1>4, <1>8, <1>11, <2>1
  <2>2. CASE k # i
    <3>1. k < i /\ o + j \in Nat
      BY <1>3, <1>10, <2>2
    <3>2. vector_word[k] = Time((o + j) * Lanes + k)
      BY <1>2, <1>4, <3>1 DEF MemoryInv, n
    <3> QED
      BY <1>11, <2>2, <3>2
  <2> QED
    BY <2>1, <2>2
<1>14. ASSUME NEW jj \in Row, NEW k \in Lane, (o + jj) * Lanes + k < n + 1
       PROVE  local_mem'[jj][k] = Time((o + jj) * Lanes + k)
  <2>1. CASE jj = j
    <3>1. k <= i
      <4>1. (o + j) * Lanes \in Nat
        BY <1>3, <1>10
      <4> QED
        BY <1>4, <1>10, <1>14, <2>1, <4>1
    <3> QED
      BY <1>12, <1>13, <2>1, <3>1
  <2>2. CASE jj # j
    <3>1. (o + jj) * Lanes + k # n
      <4>1. o + jj \in Nat /\ o + j \in Nat
        BY <1>3, <1>10
      <4>2. ((o + jj) * Lanes + k) \div Lanes = o + jj
        BY <4>1, PlaceOf
      <4>3. ((o + j) * Lanes + i) \div Lanes = o + j
        BY <4>1, PlaceOf
      <4>4. o + jj # o + j
        BY <1>3, <1>10, <2>2
      <4> QED
        BY <1>4, <4>2, <4>3, <4>4
    <3>2. (o + jj) * Lanes + k \in Int
      BY <1>3, <1>10
    <3>3. (o + jj) * Lanes + k < n
      BY <1>3, <1>14, <3>1, <3>2
    <3>4. local_mem[jj][k] = Time((o + jj) * Lanes + k)
      BY <1>2, <3>3 DEF MemoryInv, n, o
    <3> QED
      BY <1>12, <2>2, <3>4
  <2> QED
    BY <2>1, <2>2
<1>15. ASSUME NEW jj \in Nat, NEW k \in Lane, NEW l \in Lane,
              n + 1 = jj * Lanes + l, k < l
       PROVE  vector_word'[k] = Time(jj * Lanes + k)
  <2>1. l - 1 \in Lane /\ k <= l - 1 /\ k \in Nat /\ l \in Nat
    <3>1. k \in Nat /\ l \in 0 .. Lanes - 1
      BY <1>10 DEF Lane
    <3> QED
      BY <1>3, <1>15, <3>1 DEF Lane
  <2>2. jj * Lanes \in Nat
    BY <1>3
  <2>3. n = jj * Lanes + (l - 1)
    BY <1>3, <1>15, <2>1, <2>2
  <2>4. n \div Lanes = jj /\ n % Lanes = l - 1
    BY <2>1, <2>3, PlaceOf
  <2>5. n \div Lanes = o + j
    <3>1. o + j \in Nat
      BY <1>3, <1>10
    <3> QED
      BY <1>4, <3>1, PlaceOf
  <2> QED
    BY <1>4, <1>13, <2>1, <2>4, <2>5
<1>16. /\ n + 1 - o * Lanes \in 0 .. Rows * Lanes
       /\ Full(n + 1) = (n + 1 - o * Lanes = Rows * Lanes)
  <2>1. /\ o * Lanes \in Nat /\ Rows * Lanes \in Nat
    BY <1>3
  <2>2. n - o * Lanes \in 0 .. Rows * Lanes /\ n - o * Lanes # Rows * Lanes
    BY <1>1, <1>2, Zenon DEF MemoryInv, n, o
  <2> DEFINE r == n + 1 - o * Lanes
  <2>3. r \in 1 .. Rows * Lanes /\ n + 1 = o * Lanes + r
    BY <1>3, <2>1, <2>2
  <2> HIDE DEF r
  <2>4. Full(o * Lanes + r) = (r = Rows * Lanes)
    BY <1>5, <2>3, FullAt, Zenon
  <2> QED
    BY <2>1, <2>3, <2>4 DEF r
<1>17. MemoryInv'
  <2>1. \E p \in Nat : Len(out') = p * Rows
    BY <1>1, <1>5 DEF o
  <2>2. Len(out') = o /\ total_pkts_reg' = n + 1
    BY <1>1 DEF o, n
  <2>3. \A jj \in 0 .. o - 1, k \in Lane : out[jj + 1][k] = Time(jj * Lanes + k)
    BY <1>2 DEF MemoryInv, o
  <2>4. /\ n + 1 - o * Lanes \in 0 .. Rows * Lanes
        /\ move_data' = (n + 1 - o * Lanes = Rows * Lanes)
    BY <1>1, <1>16, Zenon
  <2>5. ~end_loop' /\ rtts' = rtts /\ out' = out
    BY <1>1
  <2>6. \A jj \in Row, k \in Lane : (o + jj) * Lanes + k < n + 1 =>
          local_mem'[jj][k] = Time((o + jj) * Lanes + k)
    BY <1>14
  <2>7. \A jj \in Nat, k, l \in Lane : n + 1 = jj * Lanes + l /\ k < l =>
          vector_word'[k] = Time(jj * Lanes + k)
    BY <1>15
  <2>8. \A k : Time(k)' = Time(k)
    BY <2>5 DEF Time
  <2>9. \A jj \in 0 .. Len(out') - 1, k \in Lane :
          out'[jj + 1][k] = Time(jj * Lanes + k)'
    BY <2>2, <2>3, <2>5, <2>8, Zenon
  <2>10. \A jj \in Row, k \in Lane :
           (LET p == (Len(out) + jj) * Lanes + k
            IN  p < total_pkts_reg => local_mem[jj][k] = Time(p))'
    BY <2>2, <2>6, <2>8, Zenon
  <2>11. \A jj \in Nat, k, l \in Lane :
           total_pkts_reg' = jj * Lanes + l /\ k < l =>
             vector_word'[k] = Time(jj * Lanes + k)'
    BY <2>2, <2>7, <2>8, Zenon
  <2>12. /\ total_pkts_reg' - Len(out') * Lanes \in 0 .. Rows * Lanes
         /\ move_data' = (total_pkts_reg' - Len(out') * Lanes = Rows * Lanes)
    <3>1. total_pkts_reg' - Len(out') * Lanes = n + 1 - o * Lanes
      BY <1>3, <2>2
    <3> QED
      BY <2>4, <3>1, Zenon
  <2> QED
    BY <2>1, <2>5, <2>9, <2>10, <2>11, <2>12, Zenon DEF MemoryInv
<1>18. CollectorTypes'
  <2>1. Full(n + 1) \in BOOLEAN /\ n + 1 \in Nat
    BY <1>3 DEF Full
  <2>2. stream' \in Seq(Summaries \cup {Closing})
    BY <1>1, <1>3
  <2> QED
    BY <1>1, <1>2, <1>11, <1>12, <2>1, <2>2 DEF CollectorTypes, n
<1> QED
  BY <1>1, <1>2, <1>9, <1>17, <1>18, Zenon DEF CollectorInv

\* The rest of the local memory: the call returns with all times in their places.
LEMMA RestStep ==
  ASSUME CollectorInv, MoveRest
  PROVE  CollectorInv'
<1> DEFINE n == total_pkts_reg
           o == Len(out)
           rest == Occupancy(n)
<1>1. /\ end_loop /\ received_packets = Unset /\ received_packets' = n
      /\ out' = out \o FirstRows(rest)
      /\ closed' = closed /\ end_loop' = end_loop /\ total_pkts_reg' = n /\ rtts' = rtts
      /\ local_mem' = local_mem /\ vector_word' = vector_word /\ stream' = stream
      /\ move_data' = move_data
  BY DEF MoveRest
<1>2. CollectorTypes /\ StreamInv /\ MemoryInv /\ ~move_data
  BY <1>1 DEF CollectorInv, MemoryInv
<1>3. /\ n \in Nat /\ o \in Nat /\ Lanes \in Nat /\ Rows \in Nat /\ Rows > 0 /\ Lanes > 0
      /\ rtts \in Seq(Times)
  BY <1>2, SizeAssumption DEF CollectorTypes
<1>4. PICK j \in Row, i \in Lane :
        n = (o + j) * Lanes + i /\ RowOf(n) = j /\ n % Lanes = i
  BY <1>2, NextPlace, Zenon
<1>5. Len(rtts) = n
  <2>1. Len(stream) = 0 /\ Closes = 0 /\ Len(rtts) \in Nat
    BY <1>1, <1>2, <1>3 DEF StreamInv, Closes
  <2>2. Len(rtts) + Closes = n + Len(stream)
    BY <1>2 DEF StreamInv
  <2> QED
    BY <1>3, <2>1, <2>2
<1>6. j \in Nat /\ j < Rows /\ i \in Nat /\ i < Lanes /\ o + j \in Nat
  BY <1>3, <1>4 DEF Row, Lane
<1>7. rest = j + (IF i # 0 THEN 1 ELSE 0)
  BY <1>4 DEF Occupancy
<1>8. rest \in 0 .. Rows
  BY <1>3, <1>6, <1>7
<1> HIDE DEF n, o, rest
<1>9. /\ out' \in Seq(Vector) /\ Len(out') = o + rest
      /\ \A k \in 0 .. o + rest - 1 :
           out'[k + 1] = IF k < o THEN out[k + 1] ELSE local_mem[k - o]
  BY <1>1, <1>2, <1>8, Moved DEF o
<1>10. n <= Len(out') * Lanes /\ Len(out') \in Nat
  <2>1. CASE i = 0
    BY <1>3, <1>4, <1>6, <1>7, <1>9, <2>1
  <2>2. CASE i # 0
    <3>1. Len(out') = o + j + 1
      BY <1>3, <1>6, <1>7, <1>9, <2>2
    <3>2. (o + j + 1) * Lanes = (o + j) * Lanes + Lanes /\ (o + j) * Lanes \in Nat
      BY <1>3, <1>6
    <3> QED
      BY <1>3, <1>4, <1>6, <3>1, <3>2
  <2> QED
    BY <2>1, <2>2
<1>11. Len(out') <= (n + Lanes - 1) \div Lanes
  <2>1. CASE i = 0
    <3>1. n + Lanes - 1 = (o + j) * Lanes + (Lanes - 1) /\ Lanes - 1 \in Lane
      BY <1>3, <1>4, <1>6, <2>1 DEF Lane
    <3>2. (n + Lanes - 1) \div Lanes = o + j
      BY <1>6, <3>1, PlaceOf
    <3> QED
      BY <1>3, <1>6, <1>7, <1>9, <2>1, <3>2
  <2>2. CASE i # 0
    <3>1. (o + j + 1) * Lanes = (o + j) * Lanes + Lanes /\ (o + j) * Lanes \in Nat
      BY <1>3, <1>6
    <3>2. n + Lanes - 1 = (o + j + 1) * Lanes + (i - 1) /\ i - 1 \in Lane /\ o + j + 1 \in Nat
      BY <1>3, <1>4, <1>6, <2>2, <3>1 DEF Lane
    <3>3. (n + Lanes - 1) \div Lanes = o + j + 1
      BY <3>2, PlaceOf
    <3> QED
      BY <1>3, <1>6, <1>7, <1>9, <2>2, <3>3
  <2> QED
    BY <2>1, <2>2
<1>12. ASSUME NEW k \in 1 .. n
       PROVE  k \in Cells' /\ Cell(k)' = rtts'[k] % Latencies
  <2>1. k \in 1 .. Len(out') * Lanes
    <3>1. Len(out') * Lanes \in Nat
      BY <1>3, <1>10
    <3> QED
      BY <1>3, <1>10, <3>1
  <2>2. k - 1 \in Nat /\ k - 1 < n
    BY <1>3
  <2>3. PICK jj \in Nat, l \in Lane : k - 1 = jj * Lanes + l
    BY <2>2, HasPlace
  <2>4. (k - 1) \div Lanes = jj /\ (k - 1) % Lanes = l
    BY <2>3, PlaceOf
  <2>5. jj < Len(out')
    <3>1. CASE jj >= Len(out')
      <4>1. jj * Lanes >= Len(out') * Lanes /\ jj * Lanes \in Nat /\ Len(out') * Lanes \in Nat
        BY <1>3, <1>10, <3>1
      <4>2. l \in Nat
        BY <1>3 DEF Lane
      <4> QED
        BY <2>1, <2>3, <4>1, <4>2
    <3> QED
      BY <1>10, <3>1
  <2>6. jj \in 0 .. o + rest - 1 /\ jj \in 0 .. Len(out') - 1
    BY <1>3, <1>8, <1>9, <2>5
  <2>7. out'[jj + 1][l] = Time(k - 1)
    <3>1. CASE jj < o
      <4>1. out'[jj + 1] = out[jj + 1] /\ jj \in 0 .. o - 1
        BY <1>3, <1>9, <2>6, <3>1
      <4> QED
        BY <1>2, <2>3, <4>1 DEF MemoryInv, o
    <3>2. CASE ~(jj < o)
      <4>1. jj - o \in Row /\ o + (jj - o) = jj /\ out'[jj + 1] = local_mem[jj - o]
        BY <1>3, <1>8, <1>9, <2>6, <3>2 DEF Row
      <4>2. local_mem[jj - o][l] = Time((o + (jj - o)) * Lanes + l)
        BY <1>2, <2>2, <2>3, <4>1 DEF MemoryInv, o, n
      <4> QED
        BY <2>3, <4>1, <4>2
    <3> QED
      BY <3>1, <3>2
  <2>8. k - 1 + 1 = k
    OBVIOUS
  <2> QED
    BY <1>1, <2>1, <2>4, <2>7, <2>8 DEF Cells, Cell, Time
<1>13. received_packets' # Unset
  BY <1>1, <1>3, ClosingAssumption
<1>14. AllCollected'
  <2>1. DOMAIN rtts' = 1 .. n /\ Len(rtts') = n
    BY <1>1, <1>3, <1>5
  <2> QED
    BY <1>1, <1>11, <1>12, <1>13, <2>1, Zenon DEF AllCollected
<1>15. CollectorTypes'
  BY <1>1, <1>2, <1>3, <1>9 DEF CollectorTypes, n
<1>16. StreamInv'
  BY <1>1, <1>2, Zenon DEF StreamInv, Closes, n
<1> QED
  BY <1>1, <1>13, <1>14, <1>15, <1>16, Zenon DEF CollectorInv

LEMMA CollectorInvariance == CollectorSpec => []CollectorInv
<1>1. CollectorInit => CollectorInv
  BY CollectorInitially
<1>2. CollectorInv /\ [CollectorNext]_collectorVars => CollectorInv'
  <2> SUFFICES ASSUME CollectorInv, [CollectorNext]_collectorVars PROVE CollectorInv'
    OBVIOUS
  <2>1. CASE UNCHANGED collectorVars
    BY <2>1, Zenon DEF collectorVars, CollectorInv, CollectorTypes, StreamInv, MemoryInv, Closes, Time,
       AllCollected, Cells, Cell
  <2>2. CASE CollectorNext
    <3>1. CASE Returned
      BY <2>1, <3>1 DEF Returned
    <3> QED
      BY <2>2, <3>1, SummariseStep, CloseStep, ClosingStep, MoveStep, ReadStep, RestStep, Zenon
         DEF CollectorNext, collector
  <2> QED
    BY <2>1, <2>2
<1> QED
  BY <1>1, <1>2, PTL DEF CollectorSpec

\* For any sizes of the vectors and the local memory and any pace of the summaries, global
\* memory is given the time of every packet, once and in order, before and after the call
\* has returned.
THEOREM TimesCollected == CollectorSpec => []AllCollected
<1>1. CollectorInv => AllCollected
  <2> SUFFICES ASSUME CollectorInv, received_packets = Unset PROVE AllCollected
    BY DEF CollectorInv
  <2> DEFINE n == total_pkts_reg
             o == Len(out)
  <2>1. CollectorTypes /\ StreamInv /\ MemoryInv
    BY DEF CollectorInv
  <2>2. /\ n \in Nat /\ o \in Nat /\ Lanes \in Nat /\ Rows \in Nat /\ Len(rtts) \in Nat
        /\ Len(stream) \in Nat /\ o * Lanes \in Nat /\ DOMAIN rtts = 1 .. Len(rtts)
        /\ n - o * Lanes \in 0 .. Rows * Lanes
    BY <2>1, SizeAssumption DEF CollectorTypes, MemoryInv
  <2>3. n <= Len(rtts)
    <3>1. Closes \in {0, 1} /\ (Closes = 1 => Len(stream) >= 1)
      BY <2>1, <2>2 DEF StreamInv, Closes, CollectorTypes
    <3>2. Len(rtts) + Closes = n + Len(stream)
      BY <2>1 DEF StreamInv
    <3> QED
      BY <2>2, <3>1, <3>2
  <2> HIDE DEF n, o
  <2>4. o * Lanes <= n
    BY <2>2
  <2>5. ASSUME NEW k \in 1 .. o * Lanes
        PROVE  k \in DOMAIN rtts /\ Cell(k) = rtts[k] % Latencies
    <3>1. k - 1 \in Nat /\ k - 1 < o * Lanes /\ k - 1 + 1 = k /\ k \in 1 .. Len(rtts)
      BY <2>2, <2>3, <2>4
    <3>2. PICK j \in Nat, i \in Lane : k - 1 = j * Lanes + i
      BY <3>1, HasPlace
    <3>3. (k - 1) \div Lanes = j /\ (k - 1) % Lanes = i
      BY <3>2, PlaceOf
    <3>4. j < o
      <4>1. CASE j >= o
        <5>1. j * Lanes >= o * Lanes /\ j * Lanes \in Nat /\ i \in Nat
          BY <2>2, <4>1 DEF Lane
        <5> QED
          BY <2>2, <3>1, <3>2, <5>1
      <4> QED
        BY <2>2, <4>1
    <3>5. out[j + 1][i] = Time(j * Lanes + i)
      <4>1. j \in 0 .. o - 1
        BY <2>2, <3>4
      <4> QED
        BY <2>1, <4>1 DEF MemoryInv, o
    <3> QED
      BY <2>2, <3>1, <3>2, <3>3, <3>5 DEF Cell, Time
  <2> QED
    BY <2>5 DEF AllCollected, Cells, o
<1> QED
  BY <1>1, CollectorInvariance, PTL
=============================================================================

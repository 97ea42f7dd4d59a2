------------------------- MODULE TrafficGenerator -------------------------
(***************************************************************************)
(* segment_generator.v: the state machine that produces packets and the one*)
(* that consumes them and writes one summary per packet, in one clock      *)
(* domain.  They hand over through ap_idle, summary_idle and summary_done. *)
(* axi4lite.v: the registers the host starts, resets and watches them by;  *)
(* its bus protocol is that of AxiLite, and a read or a write here is the  *)
(* edge at which it is performed.  A step is a clock edge.  The host, the  *)
(* network (which sends back what a latency run sends, and brings a peer's *)
(* packets otherwise) and the collector are external.                      *)
(*                                                                         *)
(* A beat keeps of its data the packet number and the number of packets;   *)
(* timestamps and tdest are left out.  A stream's register is a beat, or   *)
(* None while TVALID is low.                                               *)
(***************************************************************************)
EXTENDS Integers, Sequences, SequencesExt

CONSTANTS
  None,
  Modes,          \* modes the host uses: "producer", "latency", "loopback", "consumer"
  Packets, Beats, Gaps,   \* values of the configuration registers
  MAX_TIMEOUT,    \* 150000000: cycles without a packet that end a run
  MaxStarts,      \* bound: runs the host starts
  MaxResets,      \* bound: runs the host gives up
  MaxLost,        \* bound: packets the network loses
  NetDepth,       \* bound: beats under way
  MaxWaited       \* bound: how far waited counts, at least the longest gap

ASSUME ConfigAssumption ==
  /\ Packets \subseteq Nat \ {0} /\ Beats \subseteq Nat \ {0} /\ Gaps \subseteq Nat
  /\ Modes \subseteq {"producer", "latency", "loopback", "consumer"}

ASSUME TimeoutAssumption == MAX_TIMEOUT \in Nat \ {0}

ASSUME WaitedAssumption == MaxWaited \in Nat /\ \A g \in Gaps : g <= MaxWaited

\* What the data of a beat, and a summary, tell apart.
BeatData    == [id : Int, total : Nat, last : BOOLEAN]
SummaryData == [id : Int, last : BOOLEAN]

ASSUME NoneAssumption == None \notin BeatData /\ None \notin SummaryData

VARIABLES
  \* the host and the configuration registers
  running, starts, resets, ap_start, reset_fsm, regs,
  \* axi4lite.v's ap_start_1d and ap_done_1d: what a read of the status returns
  start_held, done_held,
  \* the main state machine; conf is what it has latched of the registers
  ap_start_1d, fsm_state, conf, packet_counter, number_beats_counter,
  time_between_packets_counter, producer, axis_switch, ap_done, ap_idle,
  \* the summary state machine
  fsm_summary_state, summary, summary_idle, summary_done, output_summary_mask,
  end_of_stream, ap_idle_1d, timeout_counter,
  \* network and collector
  net, n2k, lost, k2n_tready, summary_tready,
  \* for the properties: what this run has to send, what it has sent and taken, the
  \* summaries it has written and which packet each was made of, and the edges since it
  \* has loaded the end of a packet
  expected, sent, taken, summaries, about, waited

hostVars    == <<running, starts, resets, ap_start, reset_fsm, regs,
                 start_held, done_held>>
counterVars == <<packet_counter, number_beats_counter, time_between_packets_counter>>
mainVars    == <<ap_start_1d, fsm_state, conf, counterVars, producer, axis_switch,
                 ap_done, ap_idle>>
summaryVars == <<fsm_summary_state, summary, summary_idle, summary_done,
                 output_summary_mask, end_of_stream, ap_idle_1d, timeout_counter>>
netVars     == <<net, n2k, lost, k2n_tready, summary_tready>>
ghosts      == <<expected, sent, taken, summaries, about, waited>>
vars == <<hostVars, mainVars, summaryVars, netVars, ghosts>>

Config == [mode : Modes, packets : Packets, beats : Beats, tbp : Gaps]

Beat(id, total, last) == [id |-> id, total |-> total, last |-> last]

\* n packets of b beats, one after the other.
PacketsOf(n, b) == [k \in 1 .. n * b |-> Beat((k - 1) \div b, n, k % b = 0)]

Waiting(slot) == IF slot = None THEN << >> ELSE <<slot>>

Init ==
  /\ running = FALSE /\ starts = 0 /\ resets = 0
  /\ ap_start = FALSE /\ reset_fsm = FALSE /\ regs \in Config
  /\ start_held = FALSE /\ done_held = FALSE
  /\ ap_start_1d = FALSE /\ fsm_state = "GET_CONFIGURATION"
  /\ conf = [regs EXCEPT !.mode = "producer"]
  /\ packet_counter = 0 /\ number_beats_counter = 0
  /\ time_between_packets_counter = 0
  /\ producer = None /\ axis_switch = FALSE /\ ap_done = FALSE /\ ap_idle = TRUE
  /\ fsm_summary_state = "WAIT_UNTIL_MODE" /\ summary = None
  /\ summary_idle = TRUE /\ summary_done = FALSE /\ output_summary_mask = FALSE
  /\ end_of_stream = FALSE /\ ap_idle_1d = FALSE /\ timeout_counter = 0
  /\ net = << >> /\ n2k = None /\ lost = 0
  /\ k2n_tready = TRUE /\ summary_tready \in BOOLEAN
  /\ expected = << >> /\ sent = << >> /\ taken = << >>
  /\ summaries = << >> /\ about = << >> /\ waited = 0

----------------------------------------------------------------------------
(***************************************************************************)
(* Wires.                                                                  *)
(***************************************************************************)
k2n == IF axis_switch THEN n2k ELSE producer

\* Mutant: the receiver is always ready.
n2k_treadyAlways == IF axis_switch THEN k2n_tready ELSE TRUE

n2k_tready ==
  IF axis_switch THEN k2n_tready
  ELSE IF conf.mode \in {"latency", "consumer"} THEN summary_tready ELSE TRUE

axis_producer_free == k2n_tready \/ k2n = None
axis_summary_free == summary_tready \/ summary = None

\* The falling edge of the start pulse.
Started == ~ap_start /\ ap_start_1d

Begins == Started /\ ~reset_fsm /\ fsm_state = "GET_CONFIGURATION"

Sends == k2n # None /\ k2n_tready
Takes == n2k # None /\ n2k_tready

----------------------------------------------------------------------------
(***************************************************************************)
(* The main state machine.                                                 *)
(***************************************************************************)
\* The producer's register empties when the network takes the beat.
Drain == producer' = IF k2n_tready THEN None ELSE producer

Stay == UNCHANGED fsm_state
GoTo(s) == fsm_state' = s

GetConfiguration ==
  /\ fsm_state = "GET_CONFIGURATION"
  /\ ap_done' = FALSE
  /\ Drain
  /\ UNCHANGED number_beats_counter
  /\ IF Started
     THEN /\ conf' = regs
          /\ packet_counter' = 0 /\ time_between_packets_counter' = regs.tbp
          /\ ap_idle' = FALSE
          /\ axis_switch' = (regs.mode = "loopback")
          /\ GoTo(CASE regs.mode = "producer" -> "PRODUCE_PAYLOAD_HEADER"
                    [] regs.mode = "latency"  -> "PRODUCE_SMALL"
                    [] OTHER                  -> "FSM_SUMMARY_DONE")
     ELSE /\ ap_idle' = TRUE
          /\ Stay
          /\ UNCHANGED <<conf, packet_counter, time_between_packets_counter, axis_switch>>

Load(id, last) == producer' = Beat(id, conf.packets, last)

\* Mutant: the run ends a packet early.
LastPacketEarly(n) == n + 1 = conf.packets

LastPacket(n) == n = conf.packets

\* Mutant: the wait ends a cycle early.
GapOverEarly == time_between_packets_counter <= 1

GapOver == time_between_packets_counter = 0

\* Where to go after the last beat of a packet; over is the state for the end of
\* the run, gap the one that waits and next the one for the next packet.
AfterPacket(ended, over, gap, next) ==
  GoTo(IF ended THEN over ELSE IF conf.tbp # 0 THEN gap ELSE next)

ProduceHeader ==
  /\ fsm_state = "PRODUCE_PAYLOAD_HEADER"
  /\ IF axis_producer_free
     THEN /\ Load(packet_counter, conf.beats = 1)
          /\ packet_counter' = packet_counter + 1
          /\ time_between_packets_counter' = conf.tbp - 1
          /\ number_beats_counter' = conf.beats - 1
          /\ IF conf.beats = 1
             THEN AfterPacket(LastPacket(packet_counter + 1), "FSM_DONE",
                              "WAIT_N_CYCLES", "PRODUCE_PAYLOAD_HEADER")
             ELSE GoTo("PRODUCE_PAYLOAD_REMAINING")
     ELSE Drain /\ Stay /\ UNCHANGED counterVars
  /\ UNCHANGED <<conf, axis_switch, ap_done, ap_idle>>

\* The data stay those of the header, only TVALID and TLAST are driven.
ProduceRemaining ==
  /\ fsm_state = "PRODUCE_PAYLOAD_REMAINING"
  /\ IF axis_producer_free
     THEN /\ Load(packet_counter - 1, number_beats_counter = 1)
          /\ time_between_packets_counter' = conf.tbp - 1
          /\ number_beats_counter' = number_beats_counter - 1
          /\ IF number_beats_counter = 1
             THEN AfterPacket(LastPacket(packet_counter), "FSM_DONE",
                              "WAIT_N_CYCLES", "PRODUCE_PAYLOAD_HEADER")
             ELSE Stay
          /\ UNCHANGED packet_counter
     ELSE Drain /\ Stay /\ UNCHANGED counterVars
  /\ UNCHANGED <<conf, axis_switch, ap_done, ap_idle>>

WaitNCycles ==
  /\ fsm_state \in {"WAIT_N_CYCLES", "WAIT_N_CYCLES_LATENCY"}
  /\ time_between_packets_counter' = time_between_packets_counter - 1
  /\ Drain
  /\ IF GapOver
     THEN GoTo(IF fsm_state = "WAIT_N_CYCLES" THEN "PRODUCE_PAYLOAD_HEADER"
                                              ELSE "PRODUCE_SMALL")
     ELSE Stay
  /\ UNCHANGED <<conf, packet_counter, number_beats_counter, axis_switch, ap_done, ap_idle>>

ProduceSmall ==
  /\ fsm_state = "PRODUCE_SMALL"
  /\ IF axis_producer_free
     THEN /\ Load(packet_counter, TRUE)
          /\ packet_counter' = packet_counter + 1
          /\ time_between_packets_counter' = conf.tbp - 1
          /\ AfterPacket(LastPacket(packet_counter + 1), "FSM_SUMMARY_DONE",
                         "WAIT_N_CYCLES_LATENCY", "PRODUCE_SMALL")
          /\ UNCHANGED number_beats_counter
     ELSE Drain /\ Stay /\ UNCHANGED counterVars
  /\ UNCHANGED <<conf, axis_switch, ap_done, ap_idle>>

FsmDone ==
  /\ fsm_state = "FSM_DONE"
  /\ ap_done' = TRUE /\ GoTo("GET_CONFIGURATION")
  /\ Drain
  /\ UNCHANGED <<conf, counterVars, axis_switch, ap_idle>>

\* The other state machine shows its end for one cycle only.
FsmSummaryDone ==
  /\ fsm_state = "FSM_SUMMARY_DONE"
  /\ IF ~summary_idle /\ summary_done
     THEN ap_done' = TRUE /\ GoTo("GET_CONFIGURATION")
     ELSE Stay /\ UNCHANGED ap_done
  /\ Drain
  /\ UNCHANGED <<conf, counterVars, axis_switch, ap_idle>>

\* axis_switch and what is latched, the mode apart, stay.
MainReset ==
  /\ ap_done' = FALSE /\ ap_idle' = TRUE /\ producer' = None /\ packet_counter' = 0
  /\ conf' = [conf EXCEPT !.mode = "producer"]
  /\ GoTo("GET_CONFIGURATION")
  /\ UNCHANGED <<number_beats_counter, time_between_packets_counter, axis_switch>>

Main ==
  /\ ap_start_1d' = ap_start
  /\ IF reset_fsm THEN MainReset
     ELSE \/ GetConfiguration \/ ProduceHeader \/ ProduceRemaining \/ WaitNCycles
          \/ ProduceSmall \/ FsmDone \/ FsmSummaryDone

----------------------------------------------------------------------------
(***************************************************************************)
(* The summary state machine.                                              *)
(***************************************************************************)
DrainSummary == summary' = IF summary_tready THEN None ELSE summary

SummaryGoTo(s) == fsm_summary_state' = s

WaitUntilMode ==
  /\ fsm_summary_state = "WAIT_UNTIL_MODE"
  /\ DrainSummary
  /\ IF ~ap_idle /\ ap_idle_1d /\ conf.mode \in {"latency", "consumer"}
     THEN /\ output_summary_mask' = (conf.mode # "consumer")
          /\ summary_idle' = FALSE /\ summary_done' = FALSE
          /\ end_of_stream' = FALSE /\ timeout_counter' = 0
          /\ SummaryGoTo("WAIT_PACKET")
     ELSE /\ summary_idle' = TRUE
          /\ UNCHANGED <<fsm_summary_state, summary_done, output_summary_mask,
                         end_of_stream, timeout_counter>>

timed_out == timeout_counter = MAX_TIMEOUT

\* The header of a packet becomes a summary; the rest of the packet is skipped.
WaitPacket ==
  /\ fsm_summary_state = "WAIT_PACKET"
  /\ IF end_of_stream \/ timed_out
     THEN /\ SummaryGoTo("SUMMARY_DONE") /\ DrainSummary
          /\ UNCHANGED <<end_of_stream, timeout_counter>>
     ELSE IF axis_summary_free /\ n2k # None
     THEN /\ timeout_counter' = 0
          /\ summary' = IF output_summary_mask
                        THEN [id |-> n2k.id, last |-> FALSE]
                        ELSE None
          /\ end_of_stream' = (end_of_stream \/ n2k.id = n2k.total - 1)
          /\ IF n2k.last THEN UNCHANGED fsm_summary_state ELSE SummaryGoTo("CONSUME_PACKET")
     ELSE /\ timeout_counter' = timeout_counter + 1
          /\ DrainSummary
          /\ UNCHANGED <<fsm_summary_state, end_of_stream>>
  /\ UNCHANGED <<summary_idle, summary_done, output_summary_mask>>

ConsumePacket ==
  /\ fsm_summary_state = "CONSUME_PACKET"
  /\ IF Takes /\ n2k.last THEN SummaryGoTo("WAIT_PACKET") ELSE UNCHANGED fsm_summary_state
  /\ DrainSummary
  /\ UNCHANGED <<summary_idle, summary_done, output_summary_mask, end_of_stream, timeout_counter>>

\* Mutant: the end is shown a cycle later, with summary_idle.
ShowEndIdle == summary_done' = TRUE /\ summary_idle' = TRUE

ShowEnd == summary_done' = TRUE /\ UNCHANGED summary_idle

\* Mutant: the closing summary overwrites one that still waits.
CanCloseBusy == TRUE

CanClose == axis_summary_free

SummaryDone ==
  /\ fsm_summary_state = "SUMMARY_DONE"
  /\ IF CanClose
     THEN /\ summary' = IF output_summary_mask THEN [id |-> 0, last |-> TRUE] ELSE None
          /\ ShowEnd
          /\ SummaryGoTo("WAIT_UNTIL_MODE")
     ELSE DrainSummary /\ UNCHANGED <<summary_done, summary_idle, fsm_summary_state>>
  /\ UNCHANGED <<output_summary_mask, end_of_stream, timeout_counter>>

SummaryReset ==
  /\ summary' = None /\ summary_idle' = TRUE /\ summary_done' = FALSE
  /\ output_summary_mask' = FALSE /\ ap_idle_1d' = FALSE
  /\ SummaryGoTo("WAIT_UNTIL_MODE")
  /\ UNCHANGED <<end_of_stream, timeout_counter>>

Summary ==
  IF reset_fsm THEN SummaryReset
  ELSE /\ ap_idle_1d' = ap_idle
       /\ WaitUntilMode \/ WaitPacket \/ ConsumePacket \/ SummaryDone

----------------------------------------------------------------------------
(***************************************************************************)
(* The surroundings.                                                       *)
(***************************************************************************)
\* The host configures and starts a run when the last one is over, it has seen so
\* and nothing is left on the wire; only a producer run may start while the last beat
\* of the run before still waits.
Start ==
  /\ ~running /\ ~reset_fsm /\ ~ap_done /\ ~done_held
  /\ starts < MaxStarts /\ n2k = None /\ net = << >>
  /\ regs' \in Config /\ (producer # None => regs'.mode = "producer")
  /\ ap_start' = TRUE /\ running' = TRUE /\ starts' = starts + 1
  /\ UNCHANGED <<resets, reset_fsm>>

\* It gives a run up by writing 1, and later 0, to reset_fsm, which does not clear
\* itself.
GiveUp ==
  /\ running /\ resets < MaxResets
  /\ reset_fsm' = TRUE /\ resets' = resets + 1
  /\ running' = FALSE /\ ap_start' = FALSE
  /\ UNCHANGED <<starts, regs>>

\* The start pulse clears itself.
Wait ==
  /\ ap_start' = FALSE
  /\ running' = (running /\ ~ap_done)
  /\ reset_fsm' \in IF reset_fsm THEN BOOLEAN ELSE {FALSE}
  /\ UNCHANGED <<starts, resets, regs>>

Host == Start \/ GiveUp \/ Wait

\* Mutant: ap_start falls when the host looks.
HoldStartUntilRead(reads) == start_held' = (~ap_done /\ ~reads /\ (ap_start \/ start_held))

HoldStart(reads) == start_held' = (~ap_done /\ (ap_start \/ start_held))

HoldDone(reads) == done_held' = (~reads /\ (ap_done \/ done_held))

\* The host may read the status in any cycle.
Registers == \E reads \in BOOLEAN : HoldStart(reads) /\ HoldDone(reads)

\* What reaches the network in this cycle: what a latency run sends, if it is not
\* lost, and the packets of a peer in mode "producer" when a run that receives begins.
Network ==
  \E lose \in IF lost < MaxLost THEN BOOLEAN ELSE {FALSE},
     deliver \in IF net # << >> /\ (n2k = None \/ n2k_tready) THEN BOOLEAN ELSE {FALSE} :
    LET echo == Sends /\ conf.mode = "latency" /\ ~axis_switch
        fresh == IF echo THEN IF lose THEN << >> ELSE <<k2n>>
                 ELSE IF Begins /\ regs.mode \in {"consumer", "loopback"}
                 THEN PacketsOf(regs.packets, regs.beats)
                 ELSE << >>
    IN  /\ net' = (IF deliver THEN Tail(net) ELSE net) \o fresh
        /\ n2k' = IF deliver THEN Head(net) ELSE IF n2k_tready THEN None ELSE n2k
        /\ lost' = IF echo /\ lose THEN lost + 1 ELSE lost
        /\ k2n_tready' \in IF Len(net') < NetDepth THEN BOOLEAN ELSE {FALSE}
        /\ summary_tready' \in BOOLEAN

\* The state loads a beat into the producer's register at this edge.
Loads ==
  /\ fsm_state \in {"PRODUCE_PAYLOAD_HEADER", "PRODUCE_PAYLOAD_REMAINING", "PRODUCE_SMALL"}
  /\ axis_producer_free /\ ~reset_fsm

Observe ==
  /\ expected' = IF ~Begins THEN expected
                 ELSE Waiting(producer') \o
                      (CASE regs.mode = "producer" -> PacketsOf(regs.packets, regs.beats)
                         [] regs.mode = "latency"  -> PacketsOf(regs.packets, 1)
                         [] OTHER -> << >>)
  /\ sent' = IF Begins THEN << >> ELSE IF Sends THEN Append(sent, k2n) ELSE sent
  /\ taken' = IF Begins THEN << >> ELSE IF Takes THEN Append(taken, n2k) ELSE taken
  /\ IF Begins THEN summaries' = << >> /\ about' = << >>
     ELSE IF axis_summary_free /\ summary' # None
     THEN /\ summaries' = Append(summaries, summary')
          /\ about' = Append(about, Len(taken) + 1)
     ELSE UNCHANGED <<summaries, about>>
  /\ waited' = IF Loads /\ producer'.last THEN 0
               ELSE IF waited < MaxWaited THEN waited + 1 ELSE waited

Clock == Main /\ Summary /\ Host /\ Registers /\ Network /\ Observe

Next == Clock

Spec == Init /\ [][Next]_vars

\* The network and the collector take again and again and the network delivers what
\* is under way.
FairSpec ==
  /\ Spec /\ WF_vars(Clock)
  /\ []<>k2n_tready /\ []<>summary_tready /\ []<>(net = << >>)

----------------------------------------------------------------------------
(***************************************************************************)
(* Properties.                                                             *)
(***************************************************************************)
\* A run sends its packets, each of its beats once and in order, after what the run
\* before may have left in the register; ap_done says that all of them have been handed
\* to the register, whatever the network's back pressure.  (segment_generator.v:167-262)
ProducedInOrder ==
  ~axis_switch =>
    /\ IsPrefix(sent \o Waiting(producer), expected)
    /\ ap_done => sent \o Waiting(producer) = expected

\* The first beat of a packet is loaded into the producer's register at least
\* time_between_packets cycles after the last beat of the packet before it; under back
\* pressure the two may leave the register closer together.
\* (segment_generator.v:205, 236, Benchmark_kernel/README.md:61)
GapKept ==
  [][Loads /\ packet_counter' > packet_counter /\ packet_counter > 0 => waited >= conf.tbp]_vars

\* The summaries so far without the closing one.
Opening == IF summaries # << >> /\ Last(summaries).last THEN Front(summaries) ELSE summaries

\* The packets this run has been offered by the network, and how many of them its
\* summaries are about.
Offered == taken \o Waiting(n2k)
Covered == IF Opening = << >> THEN 0 ELSE about[Len(Opening)]

\* In a latency run every packet taken from the network has been summarised, unless the
\* run has timed out; the summaries come in the order of the packets, each is that of
\* the packet it was made of, no packet is passed over, and nothing else precedes the
\* closing one.  A packet is summarised at most twice: a second time when the collector
\* was not ready at the first.  (segment_generator.v:116, 339-346,
\* Benchmark_kernel/README.md:49, 79)
SummaryPerPacket ==
  conf.mode = "latency" =>
    /\ \A i \in 1 .. Len(Opening) :
         /\ ~Opening[i].last
         /\ about[i] \in 1 .. Len(Offered) /\ Opening[i].id = Offered[about[i]].id
         /\ about[i] - (IF i = 1 THEN 0 ELSE about[i - 1]) \in IF i = 1 THEN {1} ELSE {0, 1}
         /\ i > 2 => about[i] > about[i - 2]
    /\ ~timed_out => Len(taken) <= Covered

\* Expected to be violated: the collector is given a summary for each packet, and so
\* not two of the same.  (Benchmark_kernel/README.md:79, "for each incoming packet")
NoSummaryTwice ==
  conf.mode = "latency" =>
    \A i, j \in 1 .. Len(Opening) : i < j => Opening[i].id # Opening[j].id

\* When a latency run is done the collector has been given exactly one closing
\* summary, after all the others: it ends its loop on it.  (Benchmark_kernel/README.md:49)
ClosedOnce ==
  ap_done /\ conf.mode = "latency" =>
    /\ summaries # << >> /\ Last(summaries).last
    /\ \A i \in 1 .. Len(summaries) - 1 : ~summaries[i].last

\* While a run lasts the status shows ap_start and not the end of an earlier run.
\* (axi4lite.v:457, "Hold high ap_start until ap_done is asserted")
StatusHonest ==
  fsm_state # "GET_CONFIGURATION" => start_held /\ ~done_held

\* The summary machine shows its end, because it has timed out, in a cycle in which the
\* main one still sends: it will not be seen.
EndMissed ==
  /\ conf.mode = "latency" /\ fsm_state \in {"PRODUCE_SMALL", "WAIT_N_CYCLES_LATENCY"}
  /\ summary_done /\ ~summary_idle /\ timed_out

\* Every run but a loopback one that is started ends, packets lost or not, or it is a
\* latency run that has timed out before it had sent its packets: then the end is missed.
\* (segment_generator.v:269-274, 336, 352)
Completes == ap_start /\ regs.mode # "loopback" ~> ~running \/ EndMissed
=============================================================================

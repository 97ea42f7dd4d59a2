--------------------------- MODULE PatternKernel ---------------------------
(***************************************************************************)
(* The project kernel krnl_proj: two processes of a DATAFLOW region,       *)
(* process_and_stream (the producer) and collect_and_output (the           *)
(* collector), joined by one bounded FIFO per byte lane.                   *)
(*                                                                         *)
(* The producer reads 64-byte beats from n2k, hands their byte pairs to the*)
(* scanner and writes the matches of even bytes to lane 0, of odd bytes to *)
(* lane 1; after each beat it writes a marker to both lanes.  The collector*)
(* drains lane 0 up to its marker, then lane 1, packs the matches Slots to *)
(* a beat, flushes a partial beat at the end of each input beat and sends a*)
(* closing beat with TLAST at the end of each packet.                      *)
(*                                                                         *)
(* The identifiers the scanner returns are chosen freely (module Scanner   *)
(* says what they are), the other side of n2k is the initial content of the*)
(* stream, the other side of k2n is action TakeBeat.                       *)
(***************************************************************************)
EXTENDS Integers, Sequences, FiniteSets

CONSTANTS
  BeatPairs,    \* byte pairs of a beat (DATA_WIDTH_BYTES / 2)
  Depth,        \* depth of each m_fifo
  Slots,        \* matches in an output beat
  RuleId,       \* identifiers the scanner can return
  MaxPackets,   \* bound: largest num_packets the host passes
  MaxBeats,     \* bound: longest packet, in beats
  OutDepth      \* beats k2n holds before the receiver must take one

ASSUME KernelAssumption ==
  /\ BeatPairs \in Nat \ {0}
  /\ Depth \in Nat \ {0}
  /\ Slots \in Nat \ {0}
  /\ RuleId \subseteq Nat \ {0}
  /\ MaxPackets \in Nat
  /\ MaxBeats \in Nat \ {0}
  /\ OutDepth \in Nat \ {0}

Lane == {0, 1}

VARIABLES
  num_packets,  \* argument of both processes
  n2k,          \* input stream: the TLAST of the beats still to be read
  fifo,         \* m_fifo: one queue per lane
  k2n,          \* output stream: beats sent and not yet taken
  \* the producer
  pPc,          \* where it is
  pPkt,         \* pkt_idx
  pBase,        \* packet_byte_idx, in beats
  pPair,        \* i / 2
  pLast,        \* is_last
  ids,          \* what the scanner returned for the current pair
  \* the collector
  cPc,
  cPkt,         \* pkt_idx
  lane,         \* l
  packetDone,   \* packet_done
  count,
  reg,          \* r0 .. r3 as a function on 0 .. Slots - 1
  \* history variables, read by no guard
  pBeat,        \* beats the producer has finished
  cBeat,        \* beats the collector has finished
  found,        \* match events the producer has written
  reported,     \* match events that have left in a counted slot
  closed        \* packets whose closing beat has left

prodVars  == <<pPc, pPkt, pBase, pPair, pLast, ids>>
collVars  == <<cPc, cPkt, lane, packetDone, count, reg>>
ghostVars == <<pBeat, cBeat, found, reported, closed>>
vars == <<num_packets, n2k, fifo, k2n, prodVars, collVars, ghostVars>>

----------------------------------------------------------------------------
(***************************************************************************)
(* Data.  A match_event carries two more fields that no guard reads: the   *)
(* packet and the beat it was written in.                                  *)
(***************************************************************************)
\* Mutant: byte_index counted from the other end of the beat.
EventReversed(l) ==
  [control    |-> 0, id |-> ids[l], lane |-> l,
   byte_index |-> pBase * 2 * BeatPairs + 2 * (BeatPairs - 1 - pPair) + l,
   pkt |-> pPkt, beat |-> pBeat]

Event(l) ==
  [control    |-> 0, id |-> ids[l], lane |-> l,
   byte_index |-> pBase * 2 * BeatPairs + 2 * pPair + l,
   pkt |-> pPkt, beat |-> pBeat]

\* Mutant: TLAST is not passed on.
MarkerNeverLast ==
  [control |-> 1, id |-> 0, lane |-> 0,
   byte_index |-> 0, pkt |-> pPkt, beat |-> pBeat]

Marker ==
  [control |-> IF pLast THEN 2 ELSE 1, id |-> 0, lane |-> 0,
   byte_index |-> 0, pkt |-> pPkt, beat |-> pBeat]

IsMarker(e) == e.control # 0

\* Content of a register that was never assigned (the locals r0 .. r3 have no
\* initial value).
Unset == [control |-> 0, id |-> 0, lane |-> 0, byte_index |-> 0,
          pkt |-> -1, beat |-> -1]

Room(l) == Len(fifo[l]) < Depth

\* The input: num packets of 1 .. MaxBeats beats, TLAST on the last of each.
InputStreams(num) ==
  {s \in UNION {[1 .. n -> BOOLEAN] : n \in 0 .. num * MaxBeats} :
     /\ Cardinality({k \in DOMAIN s : s[k]}) = num
     /\ s = <<>> \/ s[Len(s)]
     /\ \A k \in 1 .. Len(s) - MaxBeats + 1 :
          \E j \in k .. k + MaxBeats - 1 : s[j]}

ScannerResult == [Lane -> RuleId \cup {0}]
NoMatch       == [l \in Lane |-> 0]

Init ==
  /\ num_packets \in 0 .. MaxPackets
  /\ n2k \in InputStreams(num_packets)
  /\ fifo = [l \in Lane |-> <<>>]
  /\ k2n = <<>>
  /\ pPc = "read" /\ pPkt = 0 /\ pBase = 0 /\ pPair = 0 /\ pLast = FALSE
  /\ ids = NoMatch
  /\ cPc = "packet" /\ cPkt = 0 /\ lane = 0 /\ packetDone = FALSE /\ count = 0
  /\ reg = [s \in 0 .. Slots - 1 |-> Unset]
  /\ pBeat = 0 /\ cBeat = 0 /\ found = {} /\ reported = {} /\ closed = 0

----------------------------------------------------------------------------
(***************************************************************************)
(* process_and_stream                                                      *)
(***************************************************************************)
\* n2k.read() and the first byte pair of the beat.  The first pair of a packet
\* resets the scanner, which then matches nothing.
ReadBeat ==
  /\ pPc = "read" /\ pPkt < num_packets /\ n2k # <<>>
  /\ pLast' = Head(n2k)
  /\ n2k'   = Tail(n2k)
  /\ pPair' = 0
  /\ ids'   \in IF pBase = 0 THEN {NoMatch} ELSE ScannerResult
  /\ pPc'   = "ev0"
  /\ UNCHANGED <<num_packets, fifo, k2n, pPkt, pBase, collVars, ghostVars>>

\* if (ids[l] != 0) m_stream[l].write(ev): blocks while the FIFO is full.
WriteIfMatch(l) ==
  IF ids[l] = 0
  THEN UNCHANGED <<fifo, found>>
  ELSE /\ Room(l)
       /\ fifo'  = [fifo EXCEPT ![l] = Append(@, Event(l))]
       /\ found' = found \cup {Event(l)}

WriteEvent0 ==
  /\ pPc = "ev0"
  /\ WriteIfMatch(0)
  /\ pPc' = "ev1"
  /\ UNCHANGED <<num_packets, n2k, k2n, pPkt, pBase, pPair, pLast, ids,
                 collVars, pBeat, cBeat, reported, closed>>

\* Mutant: markers only at the end of the packet.
WriteEvent1NoBeatMarkers ==
  /\ pPc = "ev1"
  /\ WriteIfMatch(1)
  /\ IF pPair + 1 < BeatPairs
     THEN /\ pPc' = "ev0" /\ pPair' = pPair + 1 /\ ids' \in ScannerResult
          /\ UNCHANGED <<pBase, pBeat>>
     ELSE /\ pPc' = IF pLast THEN "mark0" ELSE "read"
          /\ pBase' = IF pLast THEN pBase ELSE pBase + 1
          /\ pBeat' = IF pLast THEN pBeat ELSE pBeat + 1
          /\ UNCHANGED <<pPair, ids>>
  /\ UNCHANGED <<num_packets, n2k, k2n, pPkt, pLast,
                 collVars, cBeat, reported, closed>>

\* The odd byte, then the next pair of the beat or the markers.
WriteEvent1 ==
  /\ pPc = "ev1"
  /\ WriteIfMatch(1)
  /\ IF pPair + 1 < BeatPairs
     THEN /\ pPc' = "ev0"
          /\ pPair' = pPair + 1
          /\ ids' \in ScannerResult
     ELSE pPc' = "mark0" /\ UNCHANGED <<pPair, ids>>
  /\ UNCHANGED <<num_packets, n2k, k2n, pPkt, pBase, pLast,
                 collVars, pBeat, cBeat, reported, closed>>

WriteMarker0 ==
  /\ pPc = "mark0" /\ Room(0)
  /\ fifo' = [fifo EXCEPT ![0] = Append(@, Marker)]
  /\ pPc'  = "mark1"
  /\ UNCHANGED <<num_packets, n2k, k2n, pPkt, pBase, pPair, pLast, ids,
                 collVars, ghostVars>>

\* The second marker ends the beat, and the packet if TLAST was set.
WriteMarker1 ==
  /\ pPc = "mark1" /\ Room(1)
  /\ fifo'  = [fifo EXCEPT ![1] = Append(@, Marker)]
  /\ pPkt'  = IF pLast THEN pPkt + 1 ELSE pPkt
  /\ pBase' = IF pLast THEN 0 ELSE pBase + 1
  /\ pBeat' = pBeat + 1
  /\ pPc'   = "read"
  /\ UNCHANGED <<num_packets, n2k, k2n, pPair, pLast, ids, collVars,
                 cBeat, found, reported, closed>>

Producer ==
  ReadBeat \/ WriteEvent0 \/ WriteEvent1 \/ WriteMarker0 \/ WriteMarker1

----------------------------------------------------------------------------
(***************************************************************************)
(* collect_and_output                                                      *)
(***************************************************************************)
\* packet_loop: one more packet.
StartPacket ==
  /\ cPc = "packet" /\ cPkt < num_packets
  /\ cPc' = "drain" /\ packetDone' = FALSE /\ lane' = 0
  /\ UNCHANGED <<num_packets, n2k, fifo, k2n, prodVars, cPkt, count, reg,
                 ghostVars>>

\* m_stream[l].read() returns a match.
DrainMatch ==
  /\ cPc = "drain" /\ fifo[lane] # <<>> /\ ~IsMarker(Head(fifo[lane]))
  /\ fifo'  = [fifo EXCEPT ![lane] = Tail(@)]
  /\ reg'   = [reg EXCEPT ![count] = Head(fifo[lane])]
  /\ count' = count + 1
  /\ cPc'   = IF count + 1 = Slots THEN "emit" ELSE "drain"
  /\ UNCHANGED <<num_packets, n2k, k2n, prodVars, cPkt, lane, packetDone,
                 ghostVars>>

\* Mutant: what is left is flushed at the end of the packet only.
DrainMarkerFlushAtEnd ==
  /\ cPc = "drain" /\ fifo[lane] # <<>> /\ IsMarker(Head(fifo[lane]))
  /\ fifo' = [fifo EXCEPT ![lane] = Tail(@)]
  /\ packetDone' = (packetDone \/ Head(fifo[lane]).control = 2)
  /\ IF lane = 0
     THEN lane' = 1 /\ UNCHANGED <<cPc, cBeat>>
     ELSE /\ lane'  = 0
          /\ cBeat' = cBeat + 1
          /\ cPc'   = IF ~packetDone' THEN "drain"
                     ELSE IF count > 0 THEN "flush" ELSE "close"
  /\ UNCHANGED <<num_packets, n2k, k2n, prodVars, cPkt, count, reg,
                 pBeat, found, reported, closed>>

\* Mutant: the marker of lane 0 that ends the packet also ends the lane loop.
DrainMarkerCloseEarly ==
  /\ cPc = "drain" /\ fifo[lane] # <<>> /\ IsMarker(Head(fifo[lane]))
  /\ fifo' = [fifo EXCEPT ![lane] = Tail(@)]
  /\ packetDone' = (packetDone \/ Head(fifo[lane]).control = 2)
  /\ IF lane = 0 /\ ~packetDone'
     THEN lane' = 1 /\ UNCHANGED <<cPc, cBeat>>
     ELSE /\ lane'  = 0
          /\ cBeat' = cBeat + 1
          /\ cPc'   = IF count > 0 THEN "flush"
                     ELSE IF packetDone' THEN "close" ELSE "drain"
  /\ UNCHANGED <<num_packets, n2k, k2n, prodVars, cPkt, count, reg,
                 pBeat, found, reported, closed>>

\* ... or a marker: on lane 0 go on with lane 1, on lane 1 the beat is over.
DrainMarker ==
  /\ cPc = "drain" /\ fifo[lane] # <<>> /\ IsMarker(Head(fifo[lane]))
  /\ fifo' = [fifo EXCEPT ![lane] = Tail(@)]
  /\ packetDone' = (packetDone \/ Head(fifo[lane]).control = 2)
  /\ IF lane = 0
     THEN lane' = 1 /\ UNCHANGED <<cPc, cBeat>>
     ELSE /\ lane'  = 0
          /\ cBeat' = cBeat + 1
          /\ cPc'   = CASE count > 0                   -> "flush"
                        [] count = 0 /\ packetDone'    -> "close"
                        [] count = 0 /\ ~packetDone'   -> "drain"
  /\ UNCHANGED <<num_packets, n2k, k2n, prodVars, cPkt, count, reg,
                 pBeat, found, reported, closed>>

\* k2n.write(o): all Slots registers go out, whatever count is.
SendRegisters ==
  /\ Len(k2n) < OutDepth
  /\ k2n'      = Append(k2n, [last |-> FALSE, slots |-> reg])
  /\ reported' = reported \cup {reg[s] : s \in 0 .. count - 1}
  /\ count'    = 0

EmitFull ==
  /\ cPc = "emit"
  /\ SendRegisters
  /\ cPc' = "drain"
  /\ UNCHANGED <<num_packets, n2k, fifo, prodVars, cPkt, lane, packetDone, reg,
                 pBeat, cBeat, found, closed>>

FlushPartial ==
  /\ cPc = "flush"
  /\ SendRegisters
  /\ cPc' = IF packetDone THEN "close" ELSE "drain"
  /\ UNCHANGED <<num_packets, n2k, fifo, prodVars, cPkt, lane, packetDone, reg,
                 pBeat, cBeat, found, closed>>

\* k2n.write(end_pkt): data 0xEE, TLAST.
ClosePacket ==
  /\ cPc = "close" /\ Len(k2n) < OutDepth
  /\ k2n'    = Append(k2n, [last |-> TRUE, slots |-> <<>>])
  /\ cPkt'   = cPkt + 1
  /\ closed' = closed + 1
  /\ cPc'    = "packet"
  /\ UNCHANGED <<num_packets, n2k, fifo, prodVars, lane, packetDone, count, reg,
                 pBeat, cBeat, found, reported>>

Collector ==
  StartPacket \/ DrainMatch \/ DrainMarker \/ EmitFull \/ FlushPartial
    \/ ClosePacket

----------------------------------------------------------------------------
\* The receiver of k2n takes a beat (TVALID and TREADY).
TakeBeat ==
  /\ k2n # <<>>
  /\ k2n' = Tail(k2n)
  /\ UNCHANGED <<num_packets, n2k, fifo, prodVars, collVars, ghostVars>>

\* Both processes have returned and the output is delivered.
Finished ==
  /\ pPc = "read"   /\ pPkt = num_packets
  /\ cPc = "packet" /\ cPkt = num_packets
  /\ k2n = <<>>

Idle == Finished /\ UNCHANGED vars

Next == Producer \/ Collector \/ TakeBeat \/ Idle

Spec == Init /\ [][Next]_vars

\* Hardware processes never pause while they can proceed, and the receiver
\* always takes the next beat.
FairSpec ==
  Spec /\ WF_vars(Producer) /\ WF_vars(Collector) /\ WF_vars(TakeBeat)

----------------------------------------------------------------------------
(***************************************************************************)
(* Properties                                                              *)
(***************************************************************************)
EventOrMarker ==
  [control : 0 .. 2, id : Nat, lane : Lane, byte_index : Nat,
   pkt : Nat, beat : Nat]

Register == EventOrMarker \cup {Unset}

OutputBeat ==
  [last : {FALSE}, slots : [0 .. Slots - 1 -> Register]]
    \cup {[last |-> TRUE, slots |-> <<>>]}

\* Lanes and output stream keep to their depth, the byte pair and the register
\* count to their range, and every element is a match or a marker.
TypeOK ==
  /\ num_packets \in Nat
  /\ n2k \in Seq(BOOLEAN)
  /\ fifo \in [Lane -> Seq(EventOrMarker)]
  /\ \A l \in Lane : Len(fifo[l]) <= Depth
  /\ k2n \in Seq(OutputBeat) /\ Len(k2n) <= OutDepth
  /\ pPc \in {"read", "ev0", "ev1", "mark0", "mark1"}
  /\ pPkt \in 0 .. num_packets /\ pBase \in Nat
  /\ pPair \in 0 .. BeatPairs - 1 /\ pLast \in BOOLEAN
  /\ ids \in ScannerResult
  /\ cPc \in {"packet", "drain", "emit", "flush", "close"}
  /\ cPkt \in 0 .. num_packets /\ lane \in Lane /\ packetDone \in BOOLEAN
  /\ count \in 0 .. Slots
  /\ reg \in [0 .. Slots - 1 -> Register]
  /\ pBeat \in Nat /\ cBeat \in Nat /\ closed \in Nat

\* A process of the region is stuck on a FIFO.
ProducerBlocked ==
  \/ pPc = "ev0"   /\ ids[0] # 0 /\ ~Room(0)
  \/ pPc = "ev1"   /\ ids[1] # 0 /\ ~Room(1)
  \/ pPc = "mark0" /\ ~Room(0)
  \/ pPc = "mark1" /\ ~Room(1)

CollectorStarved == cPc = "drain" /\ fifo[lane] = <<>>

\* The two processes never wait for each other: when the producer waits for
\* room in one lane, the collector is not waiting for an element of the other.
\* Needs Depth >= BeatPairs (1024 against 32); the co-simulation that would
\* detect such a deadlock runs with its detection disabled (krnl_proj.cfg).
NoStall == ~(ProducerBlocked /\ CollectorStarved)

\* The collector never mixes input beats: what it holds and what it is about to
\* read belong to the beat it is collecting (the one it has just finished, while
\* it flushes), although the producer may be several beats ahead in both lanes.
OneBeatAtATime ==
  /\ \A s \in 0 .. count - 1 :
       reg[s].beat = IF cPc = "flush" THEN cBeat - 1 ELSE cBeat
  /\ cPc = "drain" /\ fifo[lane] # <<>> => Head(fifo[lane]).beat = cBeat

\* Matches leave in the order the host relies on: by beat, within a beat all
\* even-byte matches before all odd-byte ones, by increasing byte_index.
Precedes(e, f) ==
  \/ e.beat < f.beat
  \/ e.beat = f.beat /\ e.lane < f.lane
  \/ e.beat = f.beat /\ e.lane = f.lane /\ e.byte_index < f.byte_index

ReportedInOrder ==
  [][\A e \in reported, f \in reported' \ reported : Precedes(e, f)]_reported

\* The kernel implements the promise of module PacketReport: every match once,
\* with its packet, before the packet's closing beat.
Report == INSTANCE PacketReport WITH
  Match <- [control : {0}, id : RuleId, lane : Lane,
            byte_index : 0 .. 2 * BeatPairs * MaxBeats - 1,
            pkt : 0 .. MaxPackets - 1, beat : 0 .. MaxPackets * MaxBeats - 1]

ReportSpec == Report!Spec

\* Every invocation with a complete input comes to its end and everything it
\* found has been reported by then.
Completes == <>[](Finished /\ reported = found /\ closed = num_packets)
=============================================================================

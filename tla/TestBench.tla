----------------------------- MODULE TestBench -----------------------------
(***************************************************************************)
(* The co-simulation of the project kernel, tb_proj.cpp: run_test feeds a  *)
(* buffer through MM2S_Simulator, krnl_proj and S2MM_Simulator, parses the *)
(* events and gives a verdict.  In C simulation everything runs in one     *)
(* thread over unbounded streams: all packets are sent, then all are       *)
(* scanned, then the matches are collected, the report is received, and    *)
(* the buffer it was received in is parsed.                                *)
(*                                                                         *)
(* The scanner is module Scanner, one step per call.  krnl_proj looks at   *)
(* all bytes of a beat, whatever its TKEEP says, so a last beat that is not*)
(* full is scanned with the zeros that fill it.                            *)
(***************************************************************************)
EXTENDS Scanner

CONSTANTS
  BeatBytes,      \* DATA_WIDTH_BYTES
  PacketBytes,    \* MAX_PACKET_BYTES
  Slots,          \* events in a report beat
  Zero,           \* the byte 0
  Background,     \* SAFE_BACKGROUND
  EndMark,        \* 0xEE, an identifier that parse_events drops
  RandomData,     \* buffers of the stress test
  PlacedSize,     \* size of the buffer a pattern is placed in
  NoEvent,        \* a slot that parse_events takes for none
  Garbage         \* events that a register nobody assigned may read as

RulePlaces == UNION {{<<g, r>> : r \in DOMAIN Rules[g]} : g \in Group}

PatternAt(x) == Rules[x[1]][x[2]].pat
IdAt(x)      == Rules[x[1]][x[2]].id

(***************************************************************************)
(* Beats are whole calls of the scanner, packets whole beats and the       *)
(* buffers that main fills itself (256 and 512 bytes) whole beats too.  No *)
(* two rules share an identifier and the background is in no pattern       *)
(* (module RuleLookup checks both of the tables).  Garbage may be the event*)
(* of any identifier, a rule's too, at any place; only the properties tell *)
(* it from a match, by a packet that no match has.                         *)
(***************************************************************************)
ASSUME TestBenchAssumption ==
  /\ {BeatBytes, PacketBytes, Slots, PlacedSize} \subseteq Nat \ {0}
  /\ BeatBytes % DCAM_P = 0
  /\ PacketBytes % BeatBytes = 0 /\ PlacedSize % BeatBytes = 0
  /\ {Zero, Background} \subseteq Byte
  /\ RandomData \subseteq Seq(Byte) \ {<<>>}
  /\ \A x \in RulePlaces : \A k \in DOMAIN PatternAt(x) : PatternAt(x)[k] # Background
  /\ \A x, y \in RulePlaces : IdAt(x) = IdAt(y) => x = y
  /\ Garbage \subseteq [id : Nat, byte_index : Nat, lane : Lane, packet : {-1}]
  /\ NoEvent \notin [id : Nat, byte_index : Nat, lane : Lane, packet : Nat \cup {-1}]

\* What a register that nobody assigned may read as.
Unassigned == {NoEvent} \cup Garbage

VARIABLES
  test,          \* the arguments of run_test
  phase,         \* what run_test is doing
  bytes_sent,    \* bytes of the packets that are sent
  beat_offset,   \* bytes of the beats of the present packet that are sent
  sent,          \* packets sent
  n2k,           \* beats that wait for the kernel
  pair,          \* calls of the scanner in the present beat
  packet_byte_idx,
  lanes,         \* events of the present beat, by lane
  m_stream,      \* the beats that are scanned: their events, and if a packet ends
  reg, count,    \* r0 to r3, and how many of them hold an event that is not sent
  k2n,           \* report beats
  received,
  output_buffer, \* slots that are not yet parsed
  aligned,       \* the slots of the buffer start where parse_events looks for them
  events,
  pass,
  at_position,   \* the expected event is reported as found at the right place
  reported       \* history variable: the matches of the scanner

sendVars    == <<bytes_sent, beat_offset, sent>>
scanVars    == <<pair, packet_byte_idx, lanes, reported>>
collectVars == <<reg, count>>
receiveVars == <<received, aligned>>
judgeVars   == <<pass, at_position>>

testBenchVars == <<test, phase, sendVars, n2k, scanVars, m_stream, collectVars, k2n,
                   receiveVars, output_buffer, events, judgeVars>>

----------------------------------------------------------------------------
(***************************************************************************)
(* What main gives to run_test: a buffer of background, any buffer, or the *)
(* pattern of a rule in the background, with or without a position to find *)
(* it at.  find_good_test_pattern takes the first rule of the table with a *)
(* suitable length; here every rule may be that one.                       *)
(***************************************************************************)
None == -1

Silence == [k \in 1 .. PlacedSize |-> Background]

Placed(pat, pos) ==
  [k \in 1 .. PlacedSize |-> IF k - pos \in DOMAIN pat THEN pat[k - pos]
                             ELSE Background]

BlindTests ==
  {[data |-> data, expected_id |-> None, rule |-> <<0, 0>>, pos |-> None,
    withPos |-> FALSE] : data \in RandomData \cup {Silence}}

PatternTests ==
  {[data |-> Placed(PatternAt(x), pos), expected_id |-> IdAt(x), rule |-> x, pos |-> pos,
    withPos |-> w] : x \in RulePlaces, pos \in 0 .. PlacedSize - 1, w \in BOOLEAN}

\* data_pat[pos + i] stays inside the buffer.
Tests == BlindTests \cup {t \in PatternTests :
                            t.pos + Len(PatternAt(t.rule)) <= PlacedSize}

\* Mutant: the position after the pattern is expected.
ExpectedPosPast(t) == t.pos + Len(PatternAt(t.rule))

ExpectedPos(t) == t.pos + Len(PatternAt(t.rule)) - 1

TestBenchInit ==
  /\ Init
  /\ test \in Tests
  /\ phase = "send" /\ bytes_sent = 0 /\ beat_offset = 0 /\ sent = 0 /\ n2k = <<>>
  /\ pair = 0 /\ packet_byte_idx = 0
  /\ lanes = [p \in Lane |-> <<>>] /\ m_stream = <<>> /\ reported = {}
  /\ reg \in [1 .. Slots -> Unassigned] /\ count = 0 /\ k2n = <<>>
  /\ received = 0 /\ output_buffer = <<>> /\ aligned = TRUE
  /\ events = <<>> /\ pass = FALSE /\ at_position = FALSE

----------------------------------------------------------------------------
\* The buffer and the zeros past its end, counted from 0.
Padded(i) == IF i < Len(test.data) THEN test.data[i + 1] ELSE Zero

\* b == beats - 1.
IsLastBeat ==
  \/ beat_offset + BeatBytes >= PacketBytes
  \/ bytes_sent + beat_offset + BeatBytes >= Len(test.data)

\* One turn of the loops of MM2S_Simulator::send_data.  The beat carries its place in
\* the data, its packet and its offset there, for the properties only.
SendBeat ==
  /\ phase = "send"
  /\ n2k' = Append(n2k,
       [bytes  |-> [k \in 1 .. BeatBytes |-> Padded(bytes_sent + beat_offset + k - 1)],
        last   |-> IsLastBeat, packet |-> sent, offset |-> beat_offset])
  /\ IF IsLastBeat
     THEN /\ beat_offset' = 0 /\ sent' = sent + 1
          /\ bytes_sent' = IF Len(test.data) - bytes_sent > PacketBytes
                           THEN bytes_sent + PacketBytes ELSE Len(test.data)
     ELSE /\ beat_offset' = beat_offset + BeatBytes
          /\ UNCHANGED <<sent, bytes_sent>>
  /\ phase' = IF bytes_sent' < Len(test.data) THEN "send" ELSE "scan"
  /\ UNCHANGED <<vars, test, scanVars, m_stream, collectVars, k2n, receiveVars,
                 output_buffer, events, judgeVars>>

----------------------------------------------------------------------------
\* Mutant: the position within the beat.
EventInBeat(p) == [id |-> outIds'[p], byte_index |-> DCAM_P * pair + p, lane |-> p,
                   packet |-> Head(n2k).packet]

\* The packet of an event is not sent: the properties tell events apart by it.
EventAt(p) == [id |-> outIds'[p], byte_index |-> packet_byte_idx + DCAM_P * pair + p,
               lane |-> p, packet |-> Head(n2k).packet]

\* A lane with the match of this call, if there is one.
WithMatch(p) == IF outIds'[p] = 0 THEN lanes[p] ELSE Append(lanes[p], EventAt(p))

Bytes == SubSeq(Head(n2k).bytes, DCAM_P * pair + 1, DCAM_P * pair + DCAM_P)

\* One turn of byte_loop: the first call of a packet resets the scanner.
ScanPair ==
  /\ phase = "scan" /\ n2k # <<>>
  /\ IF packet_byte_idx = 0 /\ pair = 0 THEN FirstBytes(Bytes) ELSE LaterBytes(Bytes)
  /\ reported' = reported \cup {EventAt(p) : p \in {q \in Lane : outIds'[q] # 0}}
  /\ IF DCAM_P * (pair + 1) < BeatBytes
     THEN /\ pair' = pair + 1
          /\ lanes' = [p \in Lane |-> WithMatch(p)]
          /\ UNCHANGED <<n2k, packet_byte_idx, m_stream>>
     ELSE /\ pair' = 0
          /\ lanes' = [p \in Lane |-> <<>>]
          /\ m_stream' = Append(m_stream, [matches |-> WithMatch(0) \o WithMatch(1),
                                           last |-> Head(n2k).last])
          /\ n2k' = Tail(n2k)
          /\ packet_byte_idx' = IF Head(n2k).last THEN 0 ELSE packet_byte_idx + BeatBytes
  /\ UNCHANGED <<test, phase, sendVars, collectVars, k2n, receiveVars, output_buffer,
                 events, judgeVars>>

EndOfScan ==
  /\ phase = "scan" /\ n2k = <<>> /\ phase' = "collect"
  /\ UNCHANGED <<vars, test, sendVars, n2k, scanVars, m_stream, collectVars, k2n,
                 receiveVars, output_buffer, events, judgeVars>>

----------------------------------------------------------------------------
(***************************************************************************)
(* collect_and_output reads the matches of a beat, lane by lane, into four *)
(* registers, and sends all of them when they are full and at the end of a *)
(* beat.  A register that was never assigned reads as any value: as one    *)
(* that parse_events drops or as an event, be it of the expected rule.     *)
(* TKEEP of the closing beat is never assigned either: its bytes are       *)
(* received, or not, or so many of them that the parser no longer finds the*)
(* events that follow.                                                     *)
(***************************************************************************)
\* Mutant: the registers are sent one match late.
FullLate(n) == n > Slots

Full(n) == n = Slots

Report(registers) == [last |-> FALSE, torn |-> FALSE, slots |-> registers]

CloseBeats ==
  {[last |-> TRUE, torn |-> FALSE, slots |-> [s \in 1 .. Slots |-> NoEvent]],
   [last |-> TRUE, torn |-> FALSE, slots |-> <<>>],
   [last |-> TRUE, torn |-> TRUE,  slots |-> <<>>]}

ReadMatch ==
  /\ phase = "collect" /\ m_stream # <<>> /\ Head(m_stream).matches # <<>>
  /\ reg' = [reg EXCEPT ![count + 1] = Head(Head(m_stream).matches)]
  /\ IF Full(count + 1) THEN count' = 0 /\ k2n' = Append(k2n, Report(reg'))
                        ELSE count' = count + 1 /\ UNCHANGED k2n
  /\ m_stream' = [m_stream EXCEPT ![1].matches = Tail(@)]
  /\ UNCHANGED <<vars, test, phase, sendVars, n2k, scanVars, receiveVars, output_buffer,
                 events, judgeVars>>

\* Both markers of a beat are read: what is left is flushed, and a packet is closed.
EndOfBeat ==
  /\ phase = "collect" /\ m_stream # <<>> /\ Head(m_stream).matches = <<>>
  /\ LET flushed == IF count > 0 THEN Append(k2n, Report(reg)) ELSE k2n
     IN  IF Head(m_stream).last
         THEN \E close \in CloseBeats : k2n' = Append(flushed, close)
         ELSE k2n' = flushed
  /\ count' = 0 /\ m_stream' = Tail(m_stream)
  /\ UNCHANGED <<vars, test, phase, sendVars, n2k, scanVars, reg, receiveVars,
                 output_buffer, events, judgeVars>>

EndOfCollect ==
  /\ phase = "collect" /\ m_stream = <<>> /\ phase' = "receive"
  /\ UNCHANGED <<vars, test, sendVars, n2k, scanVars, m_stream, collectVars, k2n,
                 receiveVars, output_buffer, events, judgeVars>>

----------------------------------------------------------------------------
\* The slots of a beat as parse_events will find them in the buffer.
SlotsRead(slots) ==
  IF aligned THEN {slots} ELSE {[s \in DOMAIN slots |-> x] : x \in Unassigned}

\* S2MM_Simulator::receive_data, until it has seen the packets that were sent or
\* nothing comes any more.
Receive ==
  /\ phase = "receive"
  /\ IF received < sent /\ k2n # <<>>
     THEN /\ \E slots \in SlotsRead(Head(k2n).slots) :
               output_buffer' = output_buffer \o slots
          /\ received' = received + (IF Head(k2n).last THEN 1 ELSE 0)
          /\ aligned' = (aligned /\ ~Head(k2n).torn)
          /\ k2n' = Tail(k2n)
          /\ UNCHANGED phase
     ELSE phase' = "parse" /\ UNCHANGED <<k2n, receiveVars, output_buffer>>
  /\ UNCHANGED <<vars, test, sendVars, n2k, scanVars, m_stream, collectVars, events,
                 judgeVars>>

\* parse_events: 0 is no event, and neither is 0xEE.
IsEvent(slot) == slot # NoEvent /\ slot.id # EndMark

Parse ==
  /\ phase = "parse"
  /\ IF output_buffer # <<>>
     THEN /\ events' = IF IsEvent(Head(output_buffer))
                       THEN Append(events, Head(output_buffer)) ELSE events
          /\ output_buffer' = Tail(output_buffer)
          /\ UNCHANGED phase
     ELSE phase' = "judge" /\ UNCHANGED <<output_buffer, events>>
  /\ UNCHANGED <<vars, test, sendVars, n2k, scanVars, m_stream, collectVars, k2n,
                 receiveVars, judgeVars>>

----------------------------------------------------------------------------
\* The window of positions in which the expected event may lie.
InWindow(event) ==
  test.withPos => /\ event.byte_index >= ExpectedPos(test)
                  /\ event.byte_index <= ExpectedPos(test) + Len(PatternAt(test.rule))

OfExpected == {k \in DOMAIN events : events[k].id = test.expected_id}

\* The first event of the expected rule, the only one that is looked at.
FirstOfExpected == CHOOSE k \in OfExpected : \A j \in OfExpected : k <= j

\* An event at a wrong position is reported as such, but passes.
Judge ==
  /\ phase = "judge" /\ phase' = "done"
  /\ pass' = (sent = received /\ (test.expected_id # None => OfExpected # {}))
  /\ at_position' = /\ test.expected_id # None /\ OfExpected # {}
                    /\ InWindow(events[FirstOfExpected])
  /\ UNCHANGED <<vars, test, sendVars, n2k, scanVars, m_stream, collectVars, k2n,
                 receiveVars, output_buffer, events>>

Done == phase = "done" /\ UNCHANGED <<vars, testBenchVars>>

TestBenchNext ==
  \/ SendBeat \/ ScanPair \/ EndOfScan \/ ReadMatch \/ EndOfBeat \/ EndOfCollect
  \/ Receive \/ Parse \/ Judge \/ Done

TestBenchSpec == TestBenchInit /\ [][TestBenchNext]_<<vars, testBenchVars>>

----------------------------------------------------------------------------
(***************************************************************************)
(* Properties                                                              *)
(***************************************************************************)
Beat(e) == e.byte_index \div BeatBytes

\* The order in which the matches leave: by packet, beat, lane and position.
Before(e, f) ==
  \/ e.packet < f.packet
  \/ /\ e.packet = f.packet
     /\ \/ Beat(e) < Beat(f)
        \/ /\ Beat(e) = Beat(f)
           /\ \/ e.lane < f.lane
              \/ e.lane = f.lane /\ e.byte_index < f.byte_index

\* The parser finds all slots where they are: no closing beat has torn them, or there
\* is only one packet, whose closing beat comes last.
Legible == aligned \/ sent = 1

\* Every match of the scanner that the parser does not drop is parsed, and for the
\* first time in its turn: only earlier matches and garbage come before it.  The
\* slots that a flush sends beyond its count repeat matches, or are garbage, but add
\* and hide none (krnl_proj.cpp:129, tb_proj.cpp:264).
EventsParsed ==
  phase \in {"judge", "done"} =>
    /\ \A k \in DOMAIN events : events[k] \in reported \cup Garbage
    /\ Legible => \A e \in reported : IsEvent(e) =>
         \E k \in DOMAIN events :
           /\ events[k] = e
           /\ \A j \in 1 .. k - 1 : events[j] \in Garbage \/ Before(events[j], e)

PatternOf(id) == PatternAt(CHOOSE x \in RulePlaces : IdAt(x) = id)

\* verify_pattern_in_data.
Verified(event) ==
  LET pat == PatternOf(event.id)
  IN  \E offset \in -2 .. 2 :
        LET at == event.byte_index + offset - Len(pat) + 1
        IN  /\ at >= 0 /\ at + Len(pat) <= Len(test.data)
            /\ \A k \in DOMAIN pat : test.data[at + k] = pat[k]

\* A match is flagged as a false positive only if its pattern really is not in the
\* data there.  Holds of the first packet, up to the end of the data: byte_index
\* counts within a packet, and the zeros that fill the last beat are scanned.
FlagsHonest ==
  phase = "done" /\ Len(test.data) <= PacketBytes =>
    \A k \in DOMAIN events :
      events[k] \notin Garbage /\ events[k].byte_index < Len(test.data) =>
        Verified(events[k])

\* The occurrences in the data that the scanner can see: inside one packet and not
\* in its first two bytes.
SeenInData(x, end) ==
  LET pat   == PatternAt(x)
      start == end - Len(pat) + 1
  IN  /\ \E n \in 0 .. end : /\ n * PacketBytes + DCAM_P <= start
                            /\ end < (n + 1) * PacketBytes
      /\ \A k \in DOMAIN pat : test.data[start + k] = pat[k]

Outranks(x, y) == x[1] < y[1] \/ (x[1] = y[1] /\ x[2] > y[2])

LastPlace == test.pos + Len(PatternAt(test.rule)) - 1

\* The pattern of the expected rule was placed where the scanner can see it, no rule of
\* higher priority ends at its last byte and its identifier is not the one that
\* parse_events drops.
Deserved ==
  /\ SeenInData(test.rule, LastPlace)
  /\ \A x \in RulePlaces : SeenInData(x, LastPlace) => ~Outranks(x, test.rule)
  /\ test.expected_id # EndMark

\* What was left in a register is taken for an event of the expected rule.
Misled == \E k \in OfExpected : events[k] \in Garbage

\* run_test with an expected rule passes if it deserves to, and without deserving only
\* on what an unassigned register happens to hold; and it says that the position is
\* right exactly if it passes on a match and none is asked for or the match lies in the
\* first packet (tb_proj.cpp:386-428, krnl_proj.cpp:71).
VerdictHonest ==
  phase = "done" /\ test.expected_id # None /\ Legible =>
    /\ Deserved => pass
    /\ pass => Deserved \/ Misled
    /\ ~Misled => (at_position <=> pass /\ (test.withPos => LastPlace < PacketBytes))
=============================================================================

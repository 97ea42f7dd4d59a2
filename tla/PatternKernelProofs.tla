------------------------ MODULE PatternKernelProofs ------------------------
(***************************************************************************)
(* Theorems about module PatternKernel for every value of its constants:   *)
(* the two processes do not stall each other, do not mix beats, report in  *)
(* order and implement PacketReport.                                       *)
(***************************************************************************)
EXTENDS PatternKernel, FiniteSetTheorems, TLAPS

(***************************************************************************)
(* What a lane holds.  c is the first beat whose marker the collector has  *)
(* not read from the lane, p the first beat whose marker the producer has  *)
(* not written to it, d the number of byte pairs of beat p whose result    *)
(* the producer has passed on.                                             *)
(***************************************************************************)
LaneOK(s, c, p, d) ==
  /\ c <= p
  /\ \A k \in 1 .. Len(s) : /\ c <= s[k].beat /\ s[k].beat <= p
                            /\ IsMarker(s[k]) => s[k].beat < p
  /\ \A j, k \in 1 .. Len(s) :
       j < k => /\ s[j].beat <= s[k].beat
                /\ IsMarker(s[j]) => s[j].beat < s[k].beat
  /\ \A b \in c .. p - 1 :
       \E k \in 1 .. Len(s) : IsMarker(s[k]) /\ s[k].beat = b
  /\ \A k \in 1 .. Len(s) : s[k].beat = p => Len(s) - k + 1 <= d

Written(l)   == IF l = 0 /\ pPc = "mark1" THEN pBeat + 1 ELSE pBeat
Collected(l) == IF l = 0 /\ lane = 1 THEN cBeat + 1 ELSE cBeat

PairsPassed(l) ==
  CASE pPc = "read"  -> 0
    [] pPc = "ev0"   -> pPair
    [] pPc = "ev1"   -> IF l = 0 THEN pPair + 1 ELSE pPair
    [] pPc = "mark0" -> pPair + 1
    [] pPc = "mark1" -> IF l = 0 THEN 0 ELSE pPair + 1

LanesOK ==
  \A l \in Lane : LaneOK(fifo[l], Collected(l), Written(l), PairsPassed(l))

\* The control flow facts TypeOK needs to be inductive.
ControlOK ==
  /\ pPc # "read" => pPkt < num_packets
  /\ cPc # "packet" => cPkt < num_packets
  /\ cPc = "drain" => count < Slots
  /\ cPc \in {"packet", "close"} => count = 0
  /\ cPc \notin {"drain", "emit"} => lane = 0

----------------------------------------------------------------------------
(***************************************************************************)
(* The operations on one lane keep it well formed.                         *)
(***************************************************************************)

LEMMA LaneBeats ==
  ASSUME NEW s \in Seq(EventOrMarker)
  PROVE  \A k \in 1 .. Len(s) : s[k] \in EventOrMarker /\ s[k].beat \in Nat
<1>1. \A k \in 1 .. Len(s) : s[k] \in EventOrMarker
  OBVIOUS
<1>2. \A e \in EventOrMarker : e.beat \in Nat
  BY DEF EventOrMarker
<1>3. QED
  BY <1>1, <1>2

\* The producer passes on a byte pair without a match: the lane is unchanged
\* and its bound on the current beat grows.
LEMMA LaneSkip ==
  ASSUME NEW s \in Seq(EventOrMarker), NEW c \in Nat, NEW p \in Nat, NEW d \in Nat,
         LaneOK(s, c, p, d)
  PROVE  LaneOK(s, c, p, d + 1)
<1>1. Len(s) \in Nat
  OBVIOUS
<1>2. \A k \in 1 .. Len(s) : s[k].beat = p => Len(s) - k + 1 <= d + 1
  BY <1>1 DEF LaneOK
<1>3. QED
  BY <1>2 DEF LaneOK

\* The producer writes a match of its current beat.
LEMMA LaneAppendMatch ==
  ASSUME NEW s \in Seq(EventOrMarker), NEW c \in Nat, NEW p \in Nat, NEW d \in Nat,
         NEW e \in EventOrMarker,
         LaneOK(s, c, p, d), ~IsMarker(e), e.beat = p
  PROVE  LaneOK(Append(s, e), c, p, d + 1)
<1> DEFINE t == Append(s, e)
<1>1. /\ t \in Seq(EventOrMarker) /\ Len(t) = Len(s) + 1
      /\ \A k \in 1 .. Len(s) : t[k] = s[k]
      /\ t[Len(s) + 1] = e /\ Len(s) \in Nat
  OBVIOUS
<1>2. \A k \in 1 .. Len(t) : k \in 1 .. Len(s) \/ k = Len(s) + 1
  BY <1>1
<1>3. \A k \in 1 .. Len(s) : s[k].beat \in Nat
  BY LaneBeats
<1> HIDE DEF t
<1>4. \A k \in 1 .. Len(t) : /\ c <= t[k].beat /\ t[k].beat <= p
                             /\ IsMarker(t[k]) => t[k].beat < p
  BY <1>1, <1>2 DEF LaneOK
<1>5. \A j, k \in 1 .. Len(t) :
        j < k => /\ t[j].beat <= t[k].beat
                 /\ IsMarker(t[j]) => t[j].beat < t[k].beat
  BY <1>1, <1>2, <1>3 DEF LaneOK
<1>6. \A b \in c .. p - 1 :
        \E k \in 1 .. Len(t) : IsMarker(t[k]) /\ t[k].beat = b
  BY <1>1 DEF LaneOK
<1>7. \A k \in 1 .. Len(t) : t[k].beat = p => Len(t) - k + 1 <= d + 1
  BY <1>1, <1>2 DEF LaneOK
<1>8. c <= p
  BY DEF LaneOK
<1>9. LaneOK(t, c, p, d + 1)
  BY <1>4, <1>5, <1>6, <1>7, <1>8 DEF LaneOK
<1>10. QED
  BY <1>9 DEF t

\* The producer writes the marker of its current beat.
LEMMA LaneAppendMarker ==
  ASSUME NEW s \in Seq(EventOrMarker), NEW c \in Nat, NEW p \in Nat, NEW d \in Nat,
         NEW e \in EventOrMarker,
         LaneOK(s, c, p, d), IsMarker(e), e.beat = p
  PROVE  LaneOK(Append(s, e), c, p + 1, 0)
<1> DEFINE t == Append(s, e)
<1>1. /\ t \in Seq(EventOrMarker) /\ Len(t) = Len(s) + 1
      /\ \A k \in 1 .. Len(s) : t[k] = s[k]
      /\ t[Len(s) + 1] = e /\ Len(s) \in Nat
  OBVIOUS
<1>2. \A k \in 1 .. Len(t) : k \in 1 .. Len(s) \/ k = Len(s) + 1
  BY <1>1
<1>3. \A k \in 1 .. Len(s) : s[k].beat \in Nat
  BY LaneBeats
<1> HIDE DEF t
<1>4. \A k \in 1 .. Len(t) : /\ c <= t[k].beat /\ t[k].beat <= p
  BY <1>1, <1>2 DEF LaneOK
<1>5. \A j, k \in 1 .. Len(t) :
        j < k => /\ t[j].beat <= t[k].beat
                 /\ IsMarker(t[j]) => t[j].beat < t[k].beat
  BY <1>1, <1>2, <1>3 DEF LaneOK
<1>6. ASSUME NEW b \in c .. (p + 1) - 1
      PROVE  \E k \in 1 .. Len(t) : IsMarker(t[k]) /\ t[k].beat = b
  <2>1. CASE b = p
    BY <2>1, <1>1
  <2>2. CASE b # p
    <3>1. b \in c .. p - 1
      BY <2>2
    <3>2. PICK k \in 1 .. Len(s) : IsMarker(s[k]) /\ s[k].beat = b
      BY <3>1 DEF LaneOK
    <3>3. QED
      BY <3>2, <1>1
  <2>3. QED
    BY <2>1, <2>2
<1>7. \A k \in 1 .. Len(t) : t[k].beat < p + 1 /\ t[k].beat # p + 1
  BY <1>1, <1>2, <1>3, <1>4
<1>8. c <= p + 1
  BY DEF LaneOK
<1>9. \A k \in 1 .. Len(t) : t[k].beat \in Nat
  BY <1>1, <1>2, <1>3
<1>10. LaneOK(t, c, p + 1, 0)
  BY <1>4, <1>5, <1>6, <1>7, <1>8, <1>9 DEF LaneOK
<1>11. QED
  BY <1>10 DEF t

\* The first element of a lane belongs to the beat the collector is at, and a
\* marker at the head is that beat's.
LEMMA LaneHead ==
  ASSUME NEW s \in Seq(EventOrMarker), NEW c \in Nat, NEW p \in Nat, NEW d \in Nat,
         LaneOK(s, c, p, d), s # <<>>
  PROVE  Head(s).beat = c /\ (IsMarker(Head(s)) => c < p)
<1>1. Len(s) \in Nat \ {0} /\ Head(s) = s[1]
  OBVIOUS
<1>2. \A k \in 1 .. Len(s) : s[k].beat \in Nat
  BY LaneBeats
<1>3. CASE c = p
  BY <1>1, <1>2, <1>3 DEF LaneOK
<1>4. CASE c < p
  <2>1. PICK k \in 1 .. Len(s) : IsMarker(s[k]) /\ s[k].beat = c
    BY <1>4 DEF LaneOK
  <2>2. QED
    BY <2>1, <1>1, <1>2, <1>4 DEF LaneOK
<1>5. QED
  BY <1>3, <1>4 DEF LaneOK

\* The collector reads a match.
LEMMA LaneTailMatch ==
  ASSUME NEW s \in Seq(EventOrMarker), NEW c \in Nat, NEW p \in Nat, NEW d \in Nat,
         LaneOK(s, c, p, d), s # <<>>, ~IsMarker(Head(s))
  PROVE  LaneOK(Tail(s), c, p, d)
<1> DEFINE t == Tail(s)
<1>1. /\ Len(s) \in Nat \ {0} /\ Len(t) = Len(s) - 1 /\ Head(s) = s[1]
      /\ \A k \in 1 .. Len(t) : t[k] = s[k + 1] /\ k + 1 \in 1 .. Len(s)
  OBVIOUS
<1> HIDE DEF t
<1>2. \A k \in 1 .. Len(t) : /\ c <= t[k].beat /\ t[k].beat <= p
                             /\ IsMarker(t[k]) => t[k].beat < p
  BY <1>1 DEF LaneOK
<1>3. ASSUME NEW j \in 1 .. Len(t), NEW k \in 1 .. Len(t), j < k
      PROVE  /\ t[j].beat <= t[k].beat
             /\ IsMarker(t[j]) => t[j].beat < t[k].beat
  <2>1. /\ j + 1 \in 1 .. Len(s) /\ k + 1 \in 1 .. Len(s) /\ j + 1 < k + 1
        /\ t[j] = s[j + 1] /\ t[k] = s[k + 1]
    BY <1>1, <1>3
  <2>2. QED
    BY <2>1 DEF LaneOK
<1>4. ASSUME NEW b \in c .. p - 1
      PROVE  \E k \in 1 .. Len(t) : IsMarker(t[k]) /\ t[k].beat = b
  <2>1. PICK k \in 1 .. Len(s) : IsMarker(s[k]) /\ s[k].beat = b
    BY DEF LaneOK
  <2>2. k # 1
    BY <2>1, <1>1
  <2>3. k - 1 \in 1 .. Len(t) /\ t[k - 1] = s[k]
    BY <2>2, <1>1
  <2>4. QED
    BY <2>1, <2>3
<1>5. \A k \in 1 .. Len(t) : t[k].beat = p => Len(t) - k + 1 <= d
  <2>1. \A k \in 1 .. Len(t) : t[k].beat = p => Len(s) - (k + 1) + 1 <= d
    BY <1>1 DEF LaneOK
  <2>2. QED
    BY <2>1, <1>1
<1>6. LaneOK(t, c, p, d)
  BY <1>2, <1>3, <1>4, <1>5 DEF LaneOK
<1>7. QED
  BY <1>6 DEF t

\* The collector reads a marker and moves on to the next beat of the lane.
LEMMA LaneTailMarker ==
  ASSUME NEW s \in Seq(EventOrMarker), NEW c \in Nat, NEW p \in Nat, NEW d \in Nat,
         LaneOK(s, c, p, d), s # <<>>, IsMarker(Head(s))
  PROVE  LaneOK(Tail(s), c + 1, p, d)
<1> DEFINE t == Tail(s)
<1>1. /\ Len(s) \in Nat \ {0} /\ Len(t) = Len(s) - 1 /\ Head(s) = s[1]
      /\ \A k \in 1 .. Len(t) : t[k] = s[k + 1] /\ k + 1 \in 1 .. Len(s)
  OBVIOUS
<1>2. s[1].beat = c /\ c < p /\ IsMarker(s[1])
  BY LaneHead, <1>1
<1>3. \A k \in 1 .. Len(s) : s[k].beat \in Nat
  BY LaneBeats
<1> HIDE DEF t
<1>4. ASSUME NEW k \in 1 .. Len(t)
      PROVE  /\ c + 1 <= t[k].beat /\ t[k].beat <= p
             /\ IsMarker(t[k]) => t[k].beat < p
  <2>1. /\ 1 \in 1 .. Len(s) /\ k + 1 \in 1 .. Len(s) /\ 1 < k + 1
        /\ t[k] = s[k + 1]
    BY <1>1
  <2>2. s[1].beat < s[k + 1].beat
    BY <2>1, <1>2 DEF LaneOK
  <2>3. s[k + 1].beat <= p /\ (IsMarker(s[k + 1]) => s[k + 1].beat < p)
    BY <2>1 DEF LaneOK
  <2>4. QED
    BY <2>1, <2>2, <2>3, <1>2, <1>3
<1>5. ASSUME NEW j \in 1 .. Len(t), NEW k \in 1 .. Len(t), j < k
      PROVE  /\ t[j].beat <= t[k].beat
             /\ IsMarker(t[j]) => t[j].beat < t[k].beat
  <2>1. /\ j + 1 \in 1 .. Len(s) /\ k + 1 \in 1 .. Len(s) /\ j + 1 < k + 1
        /\ t[j] = s[j + 1] /\ t[k] = s[k + 1]
    BY <1>1, <1>5
  <2>2. QED
    BY <2>1 DEF LaneOK
<1>6. ASSUME NEW b \in c + 1 .. p - 1
      PROVE  \E k \in 1 .. Len(t) : IsMarker(t[k]) /\ t[k].beat = b
  <2>1. PICK k \in 1 .. Len(s) : IsMarker(s[k]) /\ s[k].beat = b
    BY DEF LaneOK
  <2>2. k # 1
    BY <2>1, <1>2
  <2>3. k - 1 \in 1 .. Len(t) /\ t[k - 1] = s[k]
    BY <2>2, <1>1
  <2>4. QED
    BY <2>1, <2>3
<1>7. \A k \in 1 .. Len(t) : t[k].beat = p => Len(t) - k + 1 <= d
  <2>1. \A k \in 1 .. Len(t) : t[k].beat = p => Len(s) - (k + 1) + 1 <= d
    BY <1>1 DEF LaneOK
  <2>2. QED
    BY <2>1, <1>1
<1>8. LaneOK(t, c + 1, p, d)
  BY <1>2, <1>4, <1>5, <1>6, <1>7 DEF LaneOK
<1>9. QED
  BY <1>8 DEF t

----------------------------------------------------------------------------
(***************************************************************************)
(* Type correctness.                                                       *)
(***************************************************************************)
TypeInv == TypeOK /\ ControlOK

LEMMA EventType ==
  ASSUME TypeOK, NEW l \in Lane, ids[l] # 0
  PROVE  Event(l) \in EventOrMarker /\ ~IsMarker(Event(l)) /\ Event(l).beat = pBeat
<1>1. ids[l] \in Nat
  BY KernelAssumption DEF TypeOK, ScannerResult
<1>2. \A m, n \in Nat : m * 2 * n \in Nat
  OBVIOUS
<1>3. pBase * 2 * BeatPairs \in Nat
  BY <1>2, KernelAssumption DEF TypeOK
<1>4. l \in Nat /\ pPair \in Nat /\ pPkt \in Nat /\ pBeat \in Nat
  BY DEF TypeOK, Lane
<1>5. pBase * 2 * BeatPairs + 2 * pPair + l \in Nat
  BY <1>3, <1>4
<1>6. QED
  BY <1>1, <1>4, <1>5 DEF Event, EventOrMarker, IsMarker

LEMMA MarkerType ==
  ASSUME TypeOK
  PROVE  Marker \in EventOrMarker /\ IsMarker(Marker) /\ Marker.beat = pBeat
BY DEF TypeOK, Marker, EventOrMarker, IsMarker, Lane

FifosOK(f) ==
  /\ f \in [Lane -> Seq(EventOrMarker)]
  /\ \A l \in Lane : Len(f[l]) <= Depth

LEMMA FifoWrite ==
  ASSUME NEW f, FifosOK(f), NEW l \in Lane, Len(f[l]) < Depth, NEW e \in EventOrMarker
  PROVE  FifosOK([f EXCEPT ![l] = Append(@, e)])
<1> DEFINE g == [f EXCEPT ![l] = Append(@, e)]
<1>1. Append(f[l], e) \in Seq(EventOrMarker) /\ Len(Append(f[l], e)) = Len(f[l]) + 1
      /\ Len(f[l]) \in Nat
  BY DEF FifosOK
<1>2. g \in [Lane -> Seq(EventOrMarker)] /\ \A m \in Lane : m # l => g[m] = f[m]
      /\ g[l] = Append(f[l], e)
  BY <1>1 DEF FifosOK
<1>3. \A m \in Lane : Len(g[m]) <= Depth
  BY <1>1, <1>2, KernelAssumption DEF FifosOK
<1>4. QED
  BY <1>2, <1>3 DEF FifosOK

LEMMA FifoRead ==
  ASSUME NEW f, FifosOK(f), NEW l \in Lane, f[l] # <<>>
  PROVE  FifosOK([f EXCEPT ![l] = Tail(@)]) /\ Head(f[l]) \in EventOrMarker
<1> DEFINE g == [f EXCEPT ![l] = Tail(@)]
<1>1. Tail(f[l]) \in Seq(EventOrMarker) /\ Len(Tail(f[l])) = Len(f[l]) - 1
      /\ Len(f[l]) \in Nat /\ Head(f[l]) \in EventOrMarker
  BY DEF FifosOK
<1>2. g \in [Lane -> Seq(EventOrMarker)] /\ \A m \in Lane : m # l => g[m] = f[m]
      /\ g[l] = Tail(f[l])
  BY <1>1 DEF FifosOK
<1>3. \A m \in Lane : Len(g[m]) <= Depth
  BY <1>1, <1>2, KernelAssumption DEF FifosOK
<1>4. QED
  BY <1>1, <1>2, <1>3 DEF FifosOK

LEMMA TypeInit == Init => TypeInv
<1> SUFFICES ASSUME Init PROVE TypeInv
  OBVIOUS
<1>1. n2k \in Seq(BOOLEAN)
  BY DEF Init, InputStreams
<1>2. Unset \in Register
  BY DEF Register
<1>3. FifosOK(fifo)
  BY KernelAssumption DEF Init, FifosOK
<1>4. k2n \in Seq(OutputBeat) /\ Len(k2n) <= OutDepth
  BY KernelAssumption DEF Init
<1>5. ids \in ScannerResult /\ reg \in [0 .. Slots - 1 -> Register]
  BY <1>2 DEF Init, ScannerResult, NoMatch
<1>6. pPair \in 0 .. BeatPairs - 1 /\ count \in 0 .. Slots /\ (cPc = "drain" => count < Slots)
  BY KernelAssumption DEF Init
<1>7. num_packets \in Nat
  BY KernelAssumption DEF Init
<1>8. TypeOK
  <2>1. pLast \in BOOLEAN /\ packetDone \in BOOLEAN
    BY DEF Init
  <2>2. pPkt \in 0 .. num_packets /\ cPkt \in 0 .. num_packets
    BY <1>7 DEF Init
  <2>3. QED
    BY <1>1, <1>3, <1>4, <1>5, <1>6, <1>7, <2>1, <2>2 DEF Init, TypeOK, Lane, FifosOK
<1>9. ControlOK
  BY KernelAssumption DEF Init, ControlOK
<1>10. QED
  BY <1>8, <1>9 DEF TypeInv

LEMMA TypeStep == TypeInv /\ [Next]_vars => TypeInv'
<1> SUFFICES ASSUME TypeInv, [Next]_vars PROVE TypeInv'
  OBVIOUS
<1> USE KernelAssumption DEF TypeInv, ControlOK, prodVars, collVars, ghostVars
<1>0. FifosOK(fifo)
  BY DEF TypeOK, FifosOK
<1>1. CASE ReadBeat
  BY <1>1 DEF TypeOK, ReadBeat, ScannerResult, NoMatch
<1>2. CASE WriteEvent0
  <2>1. FifosOK(fifo')
    <3>1. CASE ids[0] = 0
      BY <1>0, <1>2, <3>1 DEF WriteEvent0, WriteIfMatch
    <3>2. CASE ids[0] # 0
      <4>1. Event(0) \in EventOrMarker
        BY <3>2, EventType DEF Lane
      <4>2. fifo' = [fifo EXCEPT ![0] = Append(@, Event(0))] /\ Len(fifo[0]) < Depth
        BY <1>2, <3>2 DEF WriteEvent0, WriteIfMatch, Room
      <4>3. QED
        BY <1>0, <4>1, <4>2, FifoWrite DEF Lane
    <3>3. QED
      BY <3>1, <3>2
  <2>2. QED
    BY <1>2, <2>1 DEF FifosOK, TypeOK, WriteEvent0
<1>3. CASE WriteEvent1
  <2>1. FifosOK(fifo')
    <3>1. CASE ids[1] = 0
      BY <1>0, <1>3, <3>1 DEF WriteEvent1, WriteIfMatch
    <3>2. CASE ids[1] # 0
      <4>1. Event(1) \in EventOrMarker
        BY <3>2, EventType DEF Lane
      <4>2. fifo' = [fifo EXCEPT ![1] = Append(@, Event(1))] /\ Len(fifo[1]) < Depth
        BY <1>3, <3>2 DEF WriteEvent1, WriteIfMatch, Room
      <4>3. QED
        BY <1>0, <4>1, <4>2, FifoWrite DEF Lane
    <3>3. QED
      BY <3>1, <3>2
  <2>2. QED
    BY <1>3, <2>1 DEF FifosOK, TypeOK, WriteEvent1, ScannerResult
<1>4. CASE WriteMarker0
  <2>1. FifosOK(fifo')
    BY <1>0, <1>4, MarkerType, FifoWrite DEF WriteMarker0, Room, Lane
  <2>2. QED
    BY <1>4, <2>1 DEF FifosOK, TypeOK, WriteMarker0
<1>5. CASE WriteMarker1
  <2>1. FifosOK(fifo')
    BY <1>0, <1>5, MarkerType, FifoWrite DEF WriteMarker1, Room, Lane
  <2>2. QED
    BY <1>5, <2>1 DEF FifosOK, TypeOK, WriteMarker1
<1>6. CASE StartPacket
  <2>1. count = 0 /\ cPc' = "drain" /\ lane' = 0 /\ packetDone' = FALSE
    BY <1>6 DEF StartPacket
  <2>2. TypeOK'
    BY <1>6, <2>1 DEF TypeOK, StartPacket, Lane
  <2>3. ControlOK'
    BY <1>6, <2>1 DEF StartPacket
  <2>4. QED
    BY <2>2, <2>3
<1>7. CASE DrainMatch
  <2>1. FifosOK(fifo') /\ Head(fifo[lane]) \in EventOrMarker
    BY <1>0, <1>7, FifoRead DEF TypeOK, DrainMatch
  <2>2. reg' \in [0 .. Slots - 1 -> Register]
    BY <1>7, <2>1 DEF TypeOK, DrainMatch, Register
  <2>3. QED
    BY <1>7, <2>1, <2>2 DEF FifosOK, TypeOK, DrainMatch
<1>8. CASE DrainMarker
  <2>2. FifosOK(fifo')
    BY <1>0, <1>8, FifoRead DEF TypeOK, DrainMarker
  <2>3. packetDone' \in BOOLEAN
    BY <1>8 DEF DrainMarker
  <2>4. cPc' \in {"drain", "flush", "close"} /\ (cPc' = "close" => count = 0)
        /\ (cPc' # "drain" => lane' = 0)
    <3>1. CASE lane = 0
      BY <1>8, <3>1 DEF DrainMarker
    <3>2. CASE lane # 0
      <4>1. lane' = 0 /\ count' = count /\ packetDone' \in BOOLEAN
        BY <1>8, <3>2 DEF DrainMarker
      <4>2. CASE count > 0
        BY <1>8, <3>2, <4>1, <4>2 DEF DrainMarker
      <4>3. CASE count = 0
        BY <1>8, <3>2, <4>1, <4>3 DEF DrainMarker
      <4>4. QED
        BY <4>2, <4>3 DEF TypeOK
    <3>3. QED
      BY <3>1, <3>2
  <2>5. lane' \in Lane /\ cBeat' \in Nat
    <3>1. CASE lane = 0
      BY <1>8, <3>1 DEF TypeOK, DrainMarker, Lane
    <3>2. CASE lane # 0
      <4>1. lane' = 0 /\ cBeat' = cBeat + 1
        BY <1>8, <3>2 DEF DrainMarker
      <4>2. QED
        BY <4>1 DEF TypeOK, Lane
    <3>3. QED
      BY <3>1, <3>2
  <2>6. TypeOK'
    BY <1>8, <2>2, <2>3, <2>4, <2>5 DEF FifosOK, TypeOK, DrainMarker
  <2>7. ControlOK'
    BY <1>8, <2>4 DEF DrainMarker
  <2>8. QED
    BY <2>6, <2>7
<1>9. ASSUME SendRegisters
      PROVE  k2n' \in Seq(OutputBeat) /\ Len(k2n') <= OutDepth /\ count' = 0
  BY <1>9 DEF TypeOK, SendRegisters, OutputBeat
<1>10. CASE EmitFull
  BY <1>9, <1>10 DEF TypeOK, EmitFull
<1>11. CASE FlushPartial
  BY <1>9, <1>11 DEF TypeOK, FlushPartial
<1>12. CASE ClosePacket
  <2>1. k2n' \in Seq(OutputBeat) /\ Len(k2n') <= OutDepth
    BY <1>12 DEF TypeOK, ClosePacket, OutputBeat
  <2>2. QED
    BY <1>12, <2>1 DEF TypeOK, ClosePacket
<1>13. CASE TakeBeat
  BY <1>13 DEF TypeOK, TakeBeat
<1>14. CASE UNCHANGED vars
  BY <1>14 DEF TypeOK, vars, ScannerResult
<1>15. QED
  BY <1>1, <1>2, <1>3, <1>4, <1>5, <1>6, <1>7, <1>8, <1>10, <1>11, <1>12, <1>13,
     <1>14 DEF Next, Producer, Collector, Idle

\* Every variable keeps its type; in particular neither lane ever holds more
\* than Depth elements and the registers are never indexed beyond the last one
\* (krnl_proj.cpp: the count == 4 test after every match).
THEOREM TypeCorrect == Spec => []TypeOK
<1>1. Spec => []TypeInv
  BY TypeInit, TypeStep, PTL DEF Spec
<1>2. TypeInv => TypeOK
  BY DEF TypeInv
<1>3. QED
  BY <1>1, <1>2, PTL

----------------------------------------------------------------------------
(***************************************************************************)
(* The lanes stay well formed.                                             *)
(***************************************************************************)
LEMMA LanesInit == Init => LanesOK
BY KernelAssumption
   DEF Init, LanesOK, LaneOK, Written, Collected, PairsPassed, Lane

LEMMA CountersNat ==
  TypeOK => \A l \in Lane : /\ Collected(l) \in Nat /\ Written(l) \in Nat
                            /\ PairsPassed(l) \in Nat
BY DEF TypeOK, Collected, Written, PairsPassed, Lane

\* Steps that change no lane and no counter of a lane.
LEMMA LanesFrame ==
  ASSUME LanesOK, UNCHANGED <<fifo, pPc, pPair, pBeat, cBeat, lane>>
  PROVE  LanesOK'
BY DEF LanesOK, Written, Collected, PairsPassed

\* The producer hands on the result of a pair for lane l.
LEMMA LanesWriteIfMatch ==
  ASSUME TypeOK, LanesOK, NEW l \in Lane, WriteIfMatch(l), Written(l) = pBeat
  PROVE  /\ LaneOK(fifo'[l], Collected(l), Written(l), PairsPassed(l) + 1)
         /\ \A m \in Lane : m # l => fifo'[m] = fifo[m]
<1>1. LaneOK(fifo[l], Collected(l), Written(l), PairsPassed(l))
      /\ fifo[l] \in Seq(EventOrMarker)
  BY DEF LanesOK, TypeOK
<1>2. CASE ids[l] = 0
  <2>1. fifo' = fifo
    BY <1>2 DEF WriteIfMatch
  <2>2. QED
    BY <1>1, <2>1, CountersNat, LaneSkip
<1>3. CASE ids[l] # 0
  <2>1. fifo' = [fifo EXCEPT ![l] = Append(@, Event(l))]
    BY <1>3 DEF WriteIfMatch
  <2>2. fifo'[l] = Append(fifo[l], Event(l)) /\ \A m \in Lane : m # l => fifo'[m] = fifo[m]
    BY <2>1 DEF TypeOK
  <2>3. Event(l) \in EventOrMarker /\ ~IsMarker(Event(l)) /\ Event(l).beat = Written(l)
    BY <1>3, EventType
  <2>4. QED
    BY <1>1, <2>2, <2>3, CountersNat, LaneAppendMatch
<1>4. QED
  BY <1>2, <1>3

LEMMA LanesStep == TypeInv /\ LanesOK /\ [Next]_vars => LanesOK'
<1> SUFFICES ASSUME TypeInv, LanesOK, [Next]_vars PROVE LanesOK'
  OBVIOUS
<1> USE DEF prodVars, collVars, ghostVars
<1>a. TypeOK /\ \A l \in Lane : /\ Collected(l) \in Nat /\ Written(l) \in Nat
                               /\ PairsPassed(l) \in Nat /\ fifo[l] \in Seq(EventOrMarker)
                               /\ LaneOK(fifo[l], Collected(l), Written(l), PairsPassed(l))
  BY CountersNat DEF TypeInv, TypeOK, LanesOK
<1>b. Lane = {0, 1} /\ 0 \in Lane /\ 1 \in Lane
  BY DEF Lane
<1>1. CASE ReadBeat
  <2>1. \A l \in Lane : Written(l)' = Written(l) /\ Collected(l)' = Collected(l)
                        /\ PairsPassed(l)' = PairsPassed(l) /\ fifo'[l] = fifo[l]
    BY <1>1 DEF ReadBeat, Written, Collected, PairsPassed
  <2>2. QED
    BY <1>a, <2>1 DEF LanesOK
<1>2. CASE WriteEvent0
  <2>1. Written(0) = pBeat /\ WriteIfMatch(0)
    BY <1>2 DEF WriteEvent0, Written
  <2>2. LaneOK(fifo'[0], Collected(0), Written(0), PairsPassed(0) + 1) /\ fifo'[1] = fifo[1]
    BY <1>a, <1>b, <2>1, LanesWriteIfMatch
  <2>3. \A l \in Lane : Written(l)' = Written(l) /\ Collected(l)' = Collected(l)
    BY <1>2 DEF WriteEvent0, Written, Collected
  <2>4. PairsPassed(0)' = PairsPassed(0) + 1 /\ PairsPassed(1)' = PairsPassed(1)
    BY <1>2 DEF WriteEvent0, PairsPassed
  <2>5. QED
    BY <1>a, <1>b, <2>2, <2>3, <2>4 DEF LanesOK
<1>3. CASE WriteEvent1
  <2>1. Written(1) = pBeat /\ WriteIfMatch(1)
    BY <1>3 DEF WriteEvent1, Written
  <2>2. LaneOK(fifo'[1], Collected(1), Written(1), PairsPassed(1) + 1) /\ fifo'[0] = fifo[0]
    BY <1>a, <1>b, <2>1, LanesWriteIfMatch
  <2>3. \A l \in Lane : Written(l)' = Written(l) /\ Collected(l)' = Collected(l)
    BY <1>3 DEF WriteEvent1, Written, Collected
  <2>4. PairsPassed(1)' = PairsPassed(1) + 1 /\ PairsPassed(0)' = PairsPassed(0)
    BY <1>3 DEF WriteEvent1, PairsPassed
  <2>5. QED
    BY <1>a, <1>b, <2>2, <2>3, <2>4 DEF LanesOK
<1>4. CASE WriteMarker0
  <2>1. fifo' = [fifo EXCEPT ![0] = Append(@, Marker)]
    BY <1>4 DEF WriteMarker0
  <2>2. fifo'[0] = Append(fifo[0], Marker) /\ fifo'[1] = fifo[1]
    BY <1>b, <2>1 DEF TypeInv, TypeOK
  <2>3. Written(0) = pBeat /\ Written(0)' = pBeat + 1 /\ PairsPassed(0)' = 0
    BY <1>4 DEF WriteMarker0, Written, PairsPassed
  <2>4. Written(1)' = Written(1) /\ PairsPassed(1)' = PairsPassed(1)
        /\ \A l \in Lane : Collected(l)' = Collected(l)
    BY <1>4 DEF WriteMarker0, Written, PairsPassed, Collected
  <2>5. LaneOK(Append(fifo[0], Marker), Collected(0), Written(0) + 1, 0)
    BY <1>a, <1>b, <2>3, MarkerType, LaneAppendMarker
  <2>6. QED
    BY <1>a, <1>b, <2>2, <2>3, <2>4, <2>5 DEF LanesOK
<1>5. CASE WriteMarker1
  <2>1. fifo' = [fifo EXCEPT ![1] = Append(@, Marker)]
    BY <1>5 DEF WriteMarker1
  <2>2. fifo'[1] = Append(fifo[1], Marker) /\ fifo'[0] = fifo[0]
    BY <1>b, <2>1 DEF TypeInv, TypeOK
  <2>3. Written(1) = pBeat /\ Written(1)' = pBeat + 1 /\ PairsPassed(1)' = 0
    BY <1>5 DEF WriteMarker1, Written, PairsPassed
  <2>4. Written(0)' = Written(0) /\ PairsPassed(0)' = PairsPassed(0)
        /\ \A l \in Lane : Collected(l)' = Collected(l)
    BY <1>5 DEF WriteMarker1, Written, PairsPassed, Collected
  <2>5. LaneOK(Append(fifo[1], Marker), Collected(1), Written(1) + 1, 0)
    BY <1>a, <1>b, <2>3, MarkerType, LaneAppendMarker
  <2>6. QED
    BY <1>a, <1>b, <2>2, <2>3, <2>4, <2>5 DEF LanesOK
<1>6. CASE StartPacket
  BY <1>6, LanesFrame DEF StartPacket, TypeInv, ControlOK
<1>7. CASE DrainMatch
  <2>1. lane \in Lane /\ fifo[lane] # <<>> /\ ~IsMarker(Head(fifo[lane]))
        /\ fifo' = [fifo EXCEPT ![lane] = Tail(@)]
    BY <1>7 DEF DrainMatch, TypeInv, TypeOK
  <2>2. fifo'[lane] = Tail(fifo[lane]) /\ \A m \in Lane : m # lane => fifo'[m] = fifo[m]
    BY <2>1 DEF TypeInv, TypeOK
  <2>3. \A l \in Lane : Written(l)' = Written(l) /\ Collected(l)' = Collected(l)
                        /\ PairsPassed(l)' = PairsPassed(l)
    BY <1>7 DEF DrainMatch, Written, Collected, PairsPassed
  <2>4. LaneOK(Tail(fifo[lane]), Collected(lane), Written(lane), PairsPassed(lane))
    BY <1>a, <2>1, LaneTailMatch
  <2>5. QED
    BY <1>a, <2>2, <2>3, <2>4 DEF LanesOK
<1>8. CASE DrainMarker
  <2>0. PICK l \in Lane : l = lane
    BY DEF TypeInv, TypeOK
  <2>1. fifo[l] # <<>> /\ IsMarker(Head(fifo[l])) /\ fifo' = [fifo EXCEPT ![l] = Tail(@)]
    BY <1>8, <2>0 DEF DrainMarker
  <2>2. fifo'[l] = Tail(fifo[l]) /\ \A m \in Lane : m # l => fifo'[m] = fifo[m]
    BY <2>1 DEF TypeInv, TypeOK
  <2>3. \A m \in Lane : Written(m)' = Written(m) /\ PairsPassed(m)' = PairsPassed(m)
    BY <1>8 DEF DrainMarker, Written, PairsPassed
  <2>4. Collected(l)' = Collected(l) + 1
        /\ \A m \in Lane : m # l => Collected(m)' = Collected(m)
    <3>1. CASE l = 0
      <4>1. lane' = 1 /\ cBeat' = cBeat
        BY <1>8, <2>0, <3>1 DEF DrainMarker
      <4>2. QED
        BY <2>0, <3>1, <4>1 DEF Collected, Lane
    <3>2. CASE l = 1
      <4>1. lane' = 0 /\ cBeat' = cBeat + 1
        BY <1>8, <2>0, <3>2 DEF DrainMarker
      <4>2. QED
        BY <2>0, <3>2, <4>1 DEF Collected, Lane
    <3>3. QED
      BY <3>1, <3>2 DEF Lane
  <2>5. LaneOK(Tail(fifo[l]), Collected(l) + 1, Written(l), PairsPassed(l))
    BY <1>a, <2>1, LaneTailMarker
  <2>6. QED
    BY <1>a, <2>2, <2>3, <2>4, <2>5 DEF LanesOK
<1>9. CASE EmitFull \/ FlushPartial \/ ClosePacket \/ TakeBeat \/ UNCHANGED vars
  BY <1>9, LanesFrame DEF EmitFull, FlushPartial, ClosePacket, TakeBeat, vars
<1>10. QED
  BY <1>1, <1>2, <1>3, <1>4, <1>5, <1>6, <1>7, <1>8, <1>9
     DEF Next, Producer, Collector, Idle

LEMMA LanesInvariant == Spec => [](TypeInv /\ LanesOK)
BY TypeInit, TypeStep, LanesInit, LanesStep, PTL DEF Spec

----------------------------------------------------------------------------
(***************************************************************************)
(* Freedom from deadlock between the two processes.                        *)
(***************************************************************************)
LEMMA NoStallFromLanes ==
  ASSUME Depth >= BeatPairs, TypeInv, LanesOK
  PROVE  NoStall
<1> SUFFICES ASSUME ProducerBlocked, CollectorStarved PROVE FALSE
  BY DEF NoStall
<1> USE DEF TypeInv
<1>1. PICK l \in Lane : /\ Len(fifo[l]) >= Depth
                        /\ IF l = 0 THEN pPc \in {"ev0", "mark0"}
                                    ELSE pPc \in {"ev1", "mark1"}
  BY KernelAssumption DEF ProducerBlocked, Room, Lane, TypeOK
<1>2. fifo[l] \in Seq(EventOrMarker) /\ Len(fifo[l]) >= 1 /\ fifo[l] # <<>>
      /\ Len(fifo[l]) \in Nat
  BY <1>1, KernelAssumption DEF TypeOK
<1>3. lane \in Lane /\ lane # l /\ fifo[lane] = <<>> /\ Len(fifo[lane]) = 0
  BY <1>2 DEF CollectorStarved, TypeOK
<1>4. \A m \in Lane : LaneOK(fifo[m], Collected(m), Written(m), PairsPassed(m))
                      /\ Collected(m) \in Nat /\ Written(m) \in Nat /\ PairsPassed(m) \in Nat
  BY CountersNat DEF LanesOK
\* The starved lane has no marker, so its two counters agree ...
<1>5. Collected(lane) = Written(lane)
  <2>1. Collected(lane) <= Written(lane)
        /\ \A b \in Collected(lane) .. Written(lane) - 1 : \E k \in 1 .. Len(fifo[lane]) : TRUE
    BY <1>3, <1>4 DEF LaneOK
  <2>2. QED
    BY <2>1, <1>3, <1>4
\* ... while the full one spans at least one beat that is not collected.
<1>6. fifo[l][1].beat \in Nat /\ Collected(l) <= fifo[l][1].beat
      /\ fifo[l][1].beat <= Written(l)
  <2>1. 1 \in 1 .. Len(fifo[l])
    BY <1>2
  <2>2. QED
    BY <1>2, <1>4, <2>1, LaneBeats DEF LaneOK
<1>7. CASE l = 0
  <2>1. lane = 1
    BY <1>3, <1>7 DEF Lane
  <2>2. Collected(1) = cBeat /\ Written(1) = pBeat /\ Collected(0) = cBeat + 1
        /\ Written(0) = pBeat
    BY <1>1, <1>7, <2>1 DEF Collected, Written
  <2>3. QED
    BY <1>5, <1>6, <1>7, <2>1, <2>2 DEF TypeOK
<1>8. CASE l = 1
  <2>1. lane = 0
    BY <1>3, <1>8 DEF Lane
  <2>2. Collected(1) = cBeat /\ Written(1) = pBeat /\ Collected(0) = cBeat
        /\ Written(0) = IF pPc = "mark1" THEN pBeat + 1 ELSE pBeat
    BY <2>1 DEF Collected, Written
  <2>3. pPc = "ev1" /\ cBeat = pBeat /\ fifo[1][1].beat = Written(1)
    BY <1>1, <1>5, <1>6, <1>8, <2>1, <2>2 DEF TypeOK
  <2>4. PairsPassed(1) = pPair
    BY <2>3 DEF PairsPassed
  <2>5. Len(fifo[1]) - 1 + 1 <= PairsPassed(1)
    BY <1>2, <1>4, <1>8, <2>3 DEF LaneOK, Lane
  <2>6. QED
    BY <1>1, <1>2, <1>8, <2>4, <2>5, KernelAssumption DEF TypeOK
<1>9. QED
  BY <1>7, <1>8 DEF Lane

\* The DATAFLOW region cannot lock up on its FIFOs whatever the input and
\* whatever the scanner finds, provided a lane can hold the matches of one beat:
\* krnl_proj.cpp uses 1024 entries for at most 32 matches per lane and beat.
THEOREM StallFree == ASSUME Depth >= BeatPairs PROVE Spec => []NoStall
BY LanesInvariant, NoStallFromLanes, PTL

----------------------------------------------------------------------------
(***************************************************************************)
(* An output beat never mixes the matches of two input beats.              *)
(***************************************************************************)
BatchOK ==
  \A s \in 0 .. count - 1 :
    reg[s].beat = IF cPc = "flush" THEN cBeat - 1 ELSE cBeat

LEMMA HeadIsCurrent ==
  ASSUME TypeInv, LanesOK, fifo[lane] # <<>>
  PROVE  Head(fifo[lane]).beat = cBeat
<1>1. lane \in Lane /\ fifo[lane] \in Seq(EventOrMarker)
  BY DEF TypeInv, TypeOK
<1>2. Head(fifo[lane]).beat = Collected(lane)
  BY <1>1, CountersNat, LaneHead DEF LanesOK, TypeInv
<1>3. Collected(lane) = cBeat
  BY <1>1 DEF Collected, Lane
<1>4. QED
  BY <1>2, <1>3

LEMMA BatchStep == TypeInv /\ LanesOK /\ BatchOK /\ [Next]_vars => BatchOK'
<1> SUFFICES ASSUME TypeInv, LanesOK, BatchOK, [Next]_vars PROVE BatchOK'
  OBVIOUS
<1> USE DEF collVars, ghostVars
<1>1. CASE Producer
  BY <1>1 DEF BatchOK, Producer, ReadBeat, WriteEvent0, WriteEvent1, WriteMarker0, WriteMarker1
<1>2. CASE StartPacket \/ ClosePacket
  BY <1>2 DEF TypeInv, ControlOK, BatchOK, StartPacket, ClosePacket
<1>3. CASE DrainMatch
  <2>1. reg' = [reg EXCEPT ![count] = Head(fifo[lane])] /\ count' = count + 1
        /\ cPc # "flush" /\ cPc' # "flush" /\ cBeat' = cBeat /\ fifo[lane] # <<>>
    BY <1>3 DEF DrainMatch
  <2>2. count \in Nat /\ count \in 0 .. Slots - 1
    BY <1>3, KernelAssumption DEF TypeInv, TypeOK, ControlOK, DrainMatch
  <2>3. reg'[count].beat = cBeat /\ \A s \in 0 .. count - 1 : reg'[s] = reg[s]
    BY <2>1, <2>2, HeadIsCurrent DEF TypeInv, TypeOK
  <2>4. QED
    BY <2>1, <2>2, <2>3 DEF BatchOK
<1>4. CASE DrainMarker
  <2>1. CASE lane = 0
    BY <1>4, <2>1 DEF DrainMarker, BatchOK
  <2>2. CASE lane # 0
    <3>1. cBeat' = cBeat + 1 /\ count' = count /\ reg' = reg /\ cPc = "drain"
          /\ (count > 0 => cPc' = "flush")
      BY <1>4, <2>2 DEF DrainMarker
    <3>2. cBeat \in Nat /\ count \in Nat
      BY KernelAssumption DEF TypeInv, TypeOK
    <3>3. QED
      BY <3>1, <3>2 DEF BatchOK
  <2>3. QED
    BY <2>1, <2>2
<1>5. CASE EmitFull \/ FlushPartial
  BY <1>5 DEF EmitFull, FlushPartial, SendRegisters, BatchOK
<1>6. CASE TakeBeat \/ UNCHANGED vars
  BY <1>6 DEF TakeBeat, vars, BatchOK
<1>7. QED
  BY <1>1, <1>2, <1>3, <1>4, <1>5, <1>6 DEF Next, Collector, Idle

\* Whatever the producer's lead, the collector reads and packs the matches of
\* one input beat at a time (krnl_proj.cpp:83-139).
THEOREM BeatsNotMixed == Spec => []OneBeatAtATime
<1>1. Init => BatchOK
  BY DEF Init, BatchOK
<1>2. TypeInv /\ LanesOK /\ BatchOK => OneBeatAtATime
  BY HeadIsCurrent DEF OneBeatAtATime, BatchOK
<1>3. QED
  BY <1>1, <1>2, LanesInvariant, BatchStep, PTL DEF Spec

----------------------------------------------------------------------------
(***************************************************************************)
(* The input: no packet is longer than MaxBeats, read in part or not yet.  *)
(***************************************************************************)
\* No TLAST before place k, from place i on.
NoneLast(s, i, k) == \A j \in i .. k - 1 : ~s[j]

\* Beats of the current packet that have been read.
BeatsRead == IF pPc = "read" THEN pBase ELSE pBase + 1

InputInv ==
  /\ num_packets <= MaxPackets
  /\ \A i, k \in 1 .. Len(n2k) : i <= k /\ NoneLast(n2k, i, k) => k - i + 1 <= MaxBeats
  /\ pPc = "read" \/ ~pLast =>
       \A k \in 1 .. Len(n2k) : NoneLast(n2k, 1, k) => BeatsRead + k <= MaxBeats
  /\ pPc # "read" => BeatsRead <= MaxBeats
  /\ pBeat <= pPkt * MaxBeats + pBase

LEMMA InputInit == Init => InputInv
<1> SUFFICES ASSUME Init PROVE InputInv
  OBVIOUS
<1> USE KernelAssumption
<1>1. n2k \in InputStreams(num_packets) /\ num_packets \in 0 .. MaxPackets
  BY DEF Init
<1>2. PICK n \in 0 .. num_packets * MaxBeats : n2k \in [1 .. n -> BOOLEAN]
  BY <1>1, Zenon DEF InputStreams
<1>3. n \in Nat
  <2>1. num_packets * MaxBeats \in Int
    BY <1>1
  <2>2. QED
    BY <2>1
<1>4. Len(n2k) = n
  BY <1>2, <1>3
<1>5. \A k \in 1 .. Len(n2k) - MaxBeats + 1 : \E j \in k .. k + MaxBeats - 1 : n2k[j]
  BY <1>1, Zenon DEF InputStreams
<1>6. ASSUME NEW i \in 1 .. Len(n2k), NEW k \in 1 .. Len(n2k), i <= k, NoneLast(n2k, i, k),
             k - i + 1 > MaxBeats
      PROVE  FALSE
  <2>1. i \in 1 .. Len(n2k) - MaxBeats + 1
    BY <1>3, <1>4, <1>6
  <2>2. PICK j \in i .. i + MaxBeats - 1 : n2k[j]
    BY <1>5, <2>1
  <2>3. j \in i .. k - 1
    BY <1>3, <1>4, <1>6
  <2>4. QED
    BY <1>6, <2>2, <2>3 DEF NoneLast
<1>7. \A i, k \in 1 .. Len(n2k) : i <= k /\ NoneLast(n2k, i, k) => k - i + 1 <= MaxBeats
  BY <1>3, <1>4, <1>6
<1>8. pPc = "read" /\ pBase = 0 /\ pBeat = 0 /\ pPkt = 0
  BY DEF Init
<1>9. ASSUME NEW k \in 1 .. Len(n2k), NoneLast(n2k, 1, k) PROVE BeatsRead + k <= MaxBeats
  <2>1. k - 1 + 1 <= MaxBeats
    BY <1>3, <1>4, <1>7, <1>9
  <2>2. QED
    BY <1>3, <1>4, <1>8, <2>1 DEF BeatsRead
<1>10. QED
  BY <1>1, <1>7, <1>8, <1>9 DEF InputInv

LEMMA InputStep == TypeInv /\ InputInv /\ [Next]_vars => InputInv'
<1> SUFFICES ASSUME TypeInv, InputInv, [Next]_vars PROVE InputInv'
  OBVIOUS
<1> USE KernelAssumption DEF prodVars, collVars, ghostVars
<1>t. /\ n2k \in Seq(BOOLEAN) /\ pBase \in Nat /\ pPkt \in Nat /\ pBeat \in Nat
      /\ pLast \in BOOLEAN /\ num_packets \in Nat
  BY DEF TypeInv, TypeOK
<1>1. CASE ReadBeat
  <2>1. /\ n2k # << >> /\ n2k' = Tail(n2k) /\ pLast' = Head(n2k) /\ pPc = "read" /\ pPc' = "ev0"
        /\ UNCHANGED <<num_packets, pBase, pPkt, pBeat>>
    BY <1>1 DEF ReadBeat
  <2>2. /\ Len(n2k) \in Nat \ {0} /\ Len(n2k') = Len(n2k) - 1 /\ Head(n2k) = n2k[1]
        /\ \A k \in 1 .. Len(n2k') : n2k'[k] = n2k[k + 1] /\ k + 1 \in 1 .. Len(n2k)
    BY <2>1, <1>t
  <2>3. ASSUME NEW i \in 1 .. Len(n2k'), NEW k \in 1 .. Len(n2k'), NoneLast(n2k', i, k)
        PROVE  NoneLast(n2k, i + 1, k + 1)
    <3>1. SUFFICES ASSUME NEW j \in i + 1 .. k PROVE ~n2k[j]
      BY <2>2 DEF NoneLast
    <3>2. j - 1 \in i .. k - 1 /\ j - 1 \in 1 .. Len(n2k') /\ n2k'[j - 1] = n2k[j]
      BY <2>2
    <3>3. QED
      BY <2>3, <3>2 DEF NoneLast
  <2>4. ASSUME NEW i \in 1 .. Len(n2k'), NEW k \in 1 .. Len(n2k'), i <= k, NoneLast(n2k', i, k)
        PROVE  k - i + 1 <= MaxBeats
    <3>1. (k + 1) - (i + 1) + 1 <= MaxBeats
      <4>1. i + 1 \in 1 .. Len(n2k) /\ k + 1 \in 1 .. Len(n2k) /\ i + 1 <= k + 1
        BY <2>2, <2>4
      <4>2. QED
        BY <2>3, <2>4, <4>1 DEF InputInv
    <3>2. QED
      BY <2>2, <3>1
  <2>5. BeatsRead' = pBase + 1 /\ BeatsRead = pBase
    BY <2>1 DEF BeatsRead
  <2>6. ASSUME NEW k \in 1 .. Len(n2k'), ~pLast', NoneLast(n2k', 1, k)
        PROVE  BeatsRead' + k <= MaxBeats
    <3>1. 1 \in 1 .. Len(n2k') /\ k + 1 \in 1 .. Len(n2k)
      BY <2>2
    <3>2. NoneLast(n2k, 2, k + 1)
      BY <2>3, <2>6, <3>1
    <3>3. NoneLast(n2k, 1, k + 1)
      <4>1. \A j \in 1 .. (k + 1) - 1 : j = 1 \/ j \in 2 .. (k + 1) - 1
        BY <2>2
      <4>2. QED
        BY <2>1, <2>2, <2>6, <3>2, <4>1 DEF NoneLast
    <3>4. BeatsRead + (k + 1) <= MaxBeats
      BY <2>1, <3>1, <3>3 DEF InputInv
    <3>5. QED
      BY <2>2, <2>5, <3>4, <1>t
  <2>7. BeatsRead' <= MaxBeats
    <3>1. 1 \in 1 .. Len(n2k) /\ NoneLast(n2k, 1, 1)
      BY <2>2 DEF NoneLast
    <3>2. BeatsRead + 1 <= MaxBeats
      BY <2>1, <3>1 DEF InputInv
    <3>3. QED
      BY <2>5, <3>2
  <2>8. QED
    BY <2>1, <2>4, <2>6, <2>7 DEF InputInv
<1>2. CASE WriteMarker1
  <2>1. /\ pPc = "mark1" /\ pPc' = "read" /\ pPkt' = IF pLast THEN pPkt + 1 ELSE pPkt
        /\ pBase' = IF pLast THEN 0 ELSE pBase + 1
        /\ pBeat' = pBeat + 1 /\ UNCHANGED <<num_packets, n2k>>
    BY <1>2 DEF WriteMarker1
  <2>2. BeatsRead = pBase + 1 /\ BeatsRead <= MaxBeats /\ BeatsRead' = pBase'
        /\ pBeat <= pPkt * MaxBeats + pBase
    BY <2>1 DEF BeatsRead, InputInv
  <2>3. CASE pLast
    <3>1. pBeat' <= pPkt' * MaxBeats + pBase'
      <4>1. (pPkt + 1) * MaxBeats = pPkt * MaxBeats + MaxBeats /\ pPkt * MaxBeats \in Nat
        BY <1>t
      <4>2. pPkt' = pPkt + 1 /\ pBase' = 0
        BY <2>1, <2>3
      <4>3. QED
        BY <2>1, <2>2, <4>1, <4>2, <1>t
    <3>2. ASSUME NEW k \in 1 .. Len(n2k), NoneLast(n2k, 1, k) PROVE 0 + k <= MaxBeats
      <4>1. 1 \in 1 .. Len(n2k) /\ 1 <= k /\ Len(n2k) \in Nat
        BY <1>t
      <4>2. k - 1 + 1 <= MaxBeats
        BY <3>2, <4>1 DEF InputInv
      <4>3. QED
        BY <4>1, <4>2
    <3>3. QED
      BY <2>1, <2>2, <2>3, <3>1, <3>2 DEF InputInv
  <2>4. CASE ~pLast
    <3>1. pBeat' <= pPkt' * MaxBeats + pBase'
      <4>1. pPkt * MaxBeats \in Nat /\ pPkt' = pPkt /\ pBase' = pBase + 1
        BY <1>t, <2>1, <2>4
      <4>2. QED
        BY <2>1, <2>2, <4>1, <1>t
    <3>2. BeatsRead' = BeatsRead
      BY <2>1, <2>2, <2>4
    <3>3. QED
      BY <2>1, <2>2, <2>4, <3>1, <3>2 DEF InputInv
  <2>5. QED
    BY <2>3, <2>4
<1>3. CASE UNCHANGED <<num_packets, n2k, pLast, pBase, pPkt, pBeat>>
           /\ (pPc = "read" <=> pPc' = "read")
  <2>1. BeatsRead' = BeatsRead
    BY <1>3 DEF BeatsRead
  <2>2. QED
    BY <1>3, <2>1 DEF InputInv
<1>4. CASE WriteEvent0 \/ WriteEvent1 \/ WriteMarker0
  <2>1. pPc' # "read" /\ pPc # "read" /\ UNCHANGED <<num_packets, n2k, pLast, pBase, pPkt, pBeat>>
    BY <1>4 DEF WriteEvent0, WriteEvent1, WriteMarker0
  <2>2. QED
    BY <1>3, <2>1
<1>5. CASE Collector \/ TakeBeat \/ UNCHANGED vars
  BY <1>3, <1>5 DEF Collector, StartPacket, DrainMatch, DrainMarker, EmitFull, FlushPartial,
                    ClosePacket, TakeBeat, vars
<1>6. QED
  BY <1>1, <1>2, <1>4, <1>5 DEF Next, Producer, Idle
----------------------------------------------------------------------------
(***************************************************************************)
(* The matches: where they are, and in which order.                        *)
(***************************************************************************)
Match == [control : {0}, id : RuleId, lane : Lane,
          byte_index : 0 .. 2 * BeatPairs * MaxBeats - 1,
          pkt : 0 .. MaxPackets - 1, beat : 0 .. MaxPackets * MaxBeats - 1]

\* The matches in a lane, in the registers, and those the collector has read.
Matches(s) == {s[k] : k \in {j \in 1 .. Len(s) : ~IsMarker(s[j])}}
Held       == {reg[s] : s \in 0 .. count - 1}
Drained    == reported \cup Held

\* A bound on the byte_index of the matches of the current beat written to lane l.
NextByte(l) == pBase * 2 * BeatPairs + 2 * PairsPassed(l)

\* What has been found is in a lane, in a register or reported, and lies behind
\* the place the producer is at.
FoundInv ==
  /\ found = Drained \cup Matches(fifo[0]) \cup Matches(fifo[1])
  /\ found \subseteq Match
  /\ \A l \in Lane : \A e \in Matches(fifo[l]) : e.lane = l
  /\ \A e \in found : /\ e.beat <= pBeat
                      /\ e.beat = Written(e.lane) => e.byte_index < NextByte(e.lane)

\* Within a beat and a lane, matches are in the order of their bytes.
InByteOrder(s) ==
  \A j, k \in 1 .. Len(s) :
    j < k /\ ~IsMarker(s[j]) /\ ~IsMarker(s[k]) /\ s[j].beat = s[k].beat
      => s[j].byte_index < s[k].byte_index

OrderInv ==
  /\ \A l \in Lane : InByteOrder(fifo[l])
  /\ \A e \in Drained : \A m \in Matches(fifo[e.lane]) :
       e.beat = m.beat => e.byte_index < m.byte_index
  /\ \A e \in Drained : e.beat <= cBeat /\ (e.lane = 1 /\ lane = 0 => e.beat < cBeat)
  /\ \A e \in reported : \A f \in Held : Precedes(e, f)

LEMMA MatchesAppend ==
  ASSUME NEW s \in Seq(EventOrMarker), NEW e \in EventOrMarker
  PROVE  Matches(Append(s, e)) = IF IsMarker(e) THEN Matches(s) ELSE Matches(s) \cup {e}
<1> DEFINE t == Append(s, e)
<1>1. /\ Len(t) = Len(s) + 1 /\ Len(s) \in Nat
      /\ \A k \in 1 .. Len(s) : t[k] = s[k]
      /\ t[Len(s) + 1] = e
  OBVIOUS
<1>2. \A k \in 1 .. Len(t) : k \in 1 .. Len(s) \/ k = Len(s) + 1
  BY <1>1
<1>3. \A k \in 1 .. Len(s) : k \in 1 .. Len(t)
  BY <1>1
<1>4. Len(s) + 1 \in 1 .. Len(t)
  BY <1>1
<1> HIDE DEF t
<1>5. Matches(t) = IF IsMarker(e) THEN Matches(s) ELSE Matches(s) \cup {e}
  BY <1>1, <1>2, <1>3, <1>4 DEF Matches
<1>6. QED
  BY <1>5 DEF t

LEMMA MatchesTail ==
  ASSUME NEW s \in Seq(EventOrMarker), s # << >>
  PROVE  Matches(s) = IF IsMarker(Head(s)) THEN Matches(Tail(s)) ELSE Matches(Tail(s)) \cup {Head(s)}
<1> DEFINE t == Tail(s)
<1>1. /\ Len(s) \in Nat \ {0} /\ Len(t) = Len(s) - 1 /\ Head(s) = s[1]
      /\ \A k \in 1 .. Len(t) : t[k] = s[k + 1] /\ k + 1 \in 1 .. Len(s)
  OBVIOUS
<1>2. \A k \in 1 .. Len(s) : k = 1 \/ (k - 1 \in 1 .. Len(t) /\ t[k - 1] = s[k])
  BY <1>1
<1>3. 1 \in 1 .. Len(s)
  BY <1>1
<1> HIDE DEF t
<1>4. Matches(s) = IF IsMarker(Head(s)) THEN Matches(t) ELSE Matches(t) \cup {Head(s)}
  BY <1>1, <1>2, <1>3 DEF Matches
<1>5. QED
  BY <1>4 DEF t

LEMMA OrderAppend ==
  ASSUME NEW s \in Seq(EventOrMarker), NEW e \in EventOrMarker, InByteOrder(s),
         ~IsMarker(e) => \A m \in Matches(s) : m.beat = e.beat => m.byte_index < e.byte_index
  PROVE  InByteOrder(Append(s, e))
<1> DEFINE t == Append(s, e)
<1>1. /\ Len(t) = Len(s) + 1 /\ Len(s) \in Nat
      /\ \A k \in 1 .. Len(s) : t[k] = s[k]
      /\ t[Len(s) + 1] = e
  OBVIOUS
<1> HIDE DEF t
<1>2. SUFFICES ASSUME NEW j \in 1 .. Len(t), NEW k \in 1 .. Len(t), j < k,
                      ~IsMarker(t[j]), ~IsMarker(t[k]), t[j].beat = t[k].beat
               PROVE  t[j].byte_index < t[k].byte_index
  BY Zenon DEF InByteOrder, t
<1>3. j \in 1 .. Len(s) /\ t[j] = s[j]
  BY <1>1, <1>2
<1>4. CASE k \in 1 .. Len(s)
  BY <1>1, <1>2, <1>3, <1>4 DEF InByteOrder
<1>5. CASE k = Len(s) + 1
  <2>1. s[j] \in Matches(s)
    BY <1>2, <1>3 DEF Matches
  <2>2. QED
    BY <1>1, <1>2, <1>3, <1>5, <2>1
<1>6. QED
  BY <1>1, <1>4, <1>5

LEMMA OrderTail ==
  ASSUME NEW s \in Seq(EventOrMarker), s # << >>, InByteOrder(s)
  PROVE  /\ InByteOrder(Tail(s))
         /\ ~IsMarker(Head(s)) =>
              \A m \in Matches(Tail(s)) : Head(s).beat = m.beat => Head(s).byte_index < m.byte_index
<1> DEFINE t == Tail(s)
<1>1. /\ Len(s) \in Nat \ {0} /\ Len(t) = Len(s) - 1 /\ Head(s) = s[1]
      /\ \A k \in 1 .. Len(t) : t[k] = s[k + 1] /\ k + 1 \in 1 .. Len(s)
  OBVIOUS
<1> HIDE DEF t
<1>2. InByteOrder(t)
  <2>1. SUFFICES ASSUME NEW j \in 1 .. Len(t), NEW k \in 1 .. Len(t), j < k,
                        ~IsMarker(t[j]), ~IsMarker(t[k]), t[j].beat = t[k].beat
                 PROVE  t[j].byte_index < t[k].byte_index
    BY Zenon DEF InByteOrder
  <2>2. t[j] = s[j + 1] /\ t[k] = s[k + 1] /\ j + 1 \in 1 .. Len(s) /\ k + 1 \in 1 .. Len(s)
        /\ j + 1 < k + 1
    BY <1>1, <2>1
  <2>3. QED
    BY <2>1, <2>2 DEF InByteOrder
<1>3. ASSUME ~IsMarker(Head(s)), NEW m \in Matches(t), Head(s).beat = m.beat
      PROVE  Head(s).byte_index < m.byte_index
  <2>1. PICK k \in 1 .. Len(t) : ~IsMarker(t[k]) /\ m = t[k]
    BY DEF Matches
  <2>2. 1 \in 1 .. Len(s) /\ k + 1 \in 1 .. Len(s) /\ 1 < k + 1 /\ m = s[k + 1]
    BY <1>1, <2>1
  <2>3. QED
    BY <1>1, <1>3, <2>1, <2>2 DEF InByteOrder
<1>4. QED
  BY <1>2, <1>3, Zenon DEF t

----------------------------------------------------------------------------
(***************************************************************************)
(* The producer's steps.                                                   *)
(***************************************************************************)
LEMMA EventInMatch ==
  ASSUME TypeInv, InputInv, NEW l \in Lane, pPc # "read", ids[l] # 0
  PROVE  /\ Event(l) \in Match
         /\ Event(l).lane = l /\ Event(l).beat = pBeat
         /\ Event(l).byte_index = pBase * 2 * BeatPairs + 2 * pPair + l
         /\ ~IsMarker(Event(l)) /\ Event(l) \in EventOrMarker
<1> USE KernelAssumption
<1>1. /\ pBase \in Nat /\ pBase + 1 <= MaxBeats /\ pPair \in 0 .. BeatPairs - 1
      /\ pPkt \in Nat /\ pPkt < num_packets /\ num_packets <= MaxPackets /\ num_packets \in Nat
      /\ pBeat \in Nat /\ pBeat <= pPkt * MaxBeats + pBase
      /\ ids[l] \in RuleId
  BY DEF TypeInv, TypeOK, ControlOK, InputInv, BeatsRead, ScannerResult
<1>2. pBase * 2 * BeatPairs + 2 * pPair + l \in 0 .. 2 * BeatPairs * MaxBeats - 1
  <2>1. \A a, b, c \in Nat : a + 1 <= b => a * 2 * c + 2 * c <= 2 * c * b
    <3>1. SUFFICES ASSUME NEW a \in Nat, NEW b \in Nat, NEW c \in Nat, a + 1 <= b
                   PROVE  a * 2 * c + 2 * c <= 2 * c * b
      OBVIOUS
    <3>2. PICK d \in Nat : b = a + 1 + d
      <4>1. b - a - 1 \in Nat /\ b = a + 1 + (b - a - 1)
        BY <3>1
      <4>2. QED
        BY <4>1
    <3>3. 2 * c * b = a * 2 * c + 2 * c + 2 * c * d /\ 2 * c * d \in Nat /\ a * 2 * c \in Nat
      BY <3>2
    <3>4. QED
      BY <3>3
  <2>2. pBase * 2 * BeatPairs + 2 * BeatPairs <= 2 * BeatPairs * MaxBeats
    BY <1>1, <2>1
  <2>3. pBase * 2 * BeatPairs \in Nat /\ 2 * BeatPairs * MaxBeats \in Nat
    BY <1>1
  <2>4. 2 * pPair + l < 2 * BeatPairs /\ 2 * pPair + l \in Nat
    BY <1>1 DEF Lane
  <2> DEFINE x == pBase * 2 * BeatPairs
             y == 2 * BeatPairs * MaxBeats
  <2> HIDE DEF x, y
  <2>5. x \in Nat /\ y \in Nat /\ x + 2 * BeatPairs <= y
    BY <2>2, <2>3 DEF x, y
  <2>6. x + (2 * pPair + l) \in 0 .. y - 1
    BY <2>4, <2>5
  <2>7. x + (2 * pPair + l) = x + 2 * pPair + l
    BY <1>1, <2>5 DEF Lane
  <2>8. QED
    BY <2>6, <2>7, Zenon DEF x, y
<1>3. pBeat \in 0 .. MaxPackets * MaxBeats - 1 /\ pPkt \in 0 .. MaxPackets - 1
  <2>1. PICK d \in Nat : MaxPackets = pPkt + 1 + d
    <3>1. MaxPackets - pPkt - 1 \in Nat /\ MaxPackets = pPkt + 1 + (MaxPackets - pPkt - 1)
      BY <1>1
    <3>2. QED
      BY <3>1
  <2>2. MaxPackets * MaxBeats = pPkt * MaxBeats + MaxBeats + d * MaxBeats
        /\ d * MaxBeats \in Nat /\ pPkt * MaxBeats \in Nat
    BY <1>1, <2>1
  <2>3. QED
    BY <1>1, <2>1, <2>2
<1>4. Event(l) \in Match
  BY <1>1, <1>2, <1>3, Zenon DEF Event, Match
<1>5. QED
  BY <1>4, EventType DEF Event, IsMarker, TypeInv

LEMMA SearchWrite ==
  ASSUME TypeInv, InputInv, FoundInv, OrderInv,
         NEW l \in Lane, WriteIfMatch(l), pPc # "read",
         Written(l) = pBeat, PairsPassed(l) = pPair,
         UNCHANGED <<reported, reg, count, lane, cBeat, pBase, pBeat>>,
         \A m \in Lane : /\ Written(m)' = Written(m)
                         /\ PairsPassed(m)' = IF m = l THEN PairsPassed(m) + 1 ELSE PairsPassed(m)
  PROVE  FoundInv' /\ OrderInv'
<1> USE KernelAssumption
<1>1. Drained' = Drained /\ Held' = Held
  BY DEF Drained, Held
<1>2. Lane = {0, 1} /\ fifo \in [Lane -> Seq(EventOrMarker)] /\ pBase \in Nat /\ pPair \in Nat
      /\ pBeat \in Nat /\ TypeOK
  BY DEF Lane, TypeInv, TypeOK
<1>3. \A m \in Lane : PairsPassed(m) \in Nat
  BY <1>2, CountersNat
<1>4. \A m \in Lane : NextByte(m) <= NextByte(m)' /\ NextByte(m) \in Nat
  <2>1. pBase * 2 * BeatPairs \in Nat
    BY <1>2
  <2>2. QED
    BY <1>3, <2>1 DEF NextByte
<1>5. \A e \in found : e \in Match /\ e.lane \in Lane /\ e.byte_index \in Nat /\ e.beat \in Nat
  BY DEF FoundInv, Match
<1>6. \A e \in found : e.beat <= pBeat /\ (e.beat = Written(e.lane)' => e.byte_index < NextByte(e.lane)')
  <2>1. SUFFICES ASSUME NEW e \in found, e.beat = Written(e.lane)' PROVE e.byte_index < NextByte(e.lane)'
    BY DEF FoundInv
  <2>2. PICK m \in Lane : m = e.lane
    BY <1>5
  <2>3. e.byte_index < NextByte(m)
    BY <2>1, <2>2 DEF FoundInv
  <2>4. NextByte(m)' \in Nat
    <3>1. PairsPassed(m)' \in Nat /\ pBase * 2 * BeatPairs \in Nat
      BY <1>2, <1>3
    <3>2. QED
      BY <3>1 DEF NextByte
  <2>5. QED
    BY <1>4, <1>5, <2>2, <2>3, <2>4
<1>7. CASE ids[l] = 0
  <2>1. fifo' = fifo /\ found' = found
    BY <1>7 DEF WriteIfMatch
  <2>2. FoundInv'
    BY <1>1, <1>6, <2>1 DEF FoundInv
  <2>3. OrderInv'
    BY <1>1, <2>1 DEF OrderInv
  <2>4. QED
    BY <2>2, <2>3
<1>8. CASE ids[l] # 0
  <2>0. PICK v : v = Event(l)
    OBVIOUS
  <2>1. /\ v \in Match /\ v.lane = l /\ v.beat = pBeat /\ ~IsMarker(v) /\ v \in EventOrMarker
        /\ v.byte_index = pBase * 2 * BeatPairs + 2 * pPair + l
    BY <1>8, <2>0, EventInMatch
  <2>2. fifo' = [fifo EXCEPT ![l] = Append(@, v)] /\ found' = found \cup {v}
    BY <1>8, <2>0 DEF WriteIfMatch
  <2>3. fifo'[l] = Append(fifo[l], v) /\ \A m \in Lane : m # l => fifo'[m] = fifo[m]
    BY <1>2, <2>2
  <2>4. Matches(fifo'[l]) = Matches(fifo[l]) \cup {v}
        /\ \A m \in Lane : m # l => Matches(fifo'[m]) = Matches(fifo[m])
    BY <1>2, <2>1, <2>3, MatchesAppend
  <2>5. NextByte(l) <= v.byte_index /\ v.byte_index < NextByte(l)' /\ v.byte_index \in Nat
    <3>1. pBase * 2 * BeatPairs \in Nat
      BY <1>2
    <3>2. NextByte(l) = pBase * 2 * BeatPairs + 2 * pPair
          /\ NextByte(l)' = pBase * 2 * BeatPairs + 2 * (pPair + 1)
      BY DEF NextByte
    <3> DEFINE x == pBase * 2 * BeatPairs
    <3>3. x \in Nat /\ NextByte(l) = x + 2 * pPair /\ NextByte(l)' = x + 2 * (pPair + 1)
          /\ v.byte_index = x + 2 * pPair + l
      BY <2>1, <3>1, <3>2
    <3> HIDE DEF x
    <3>4. QED
      BY <1>2, <3>3
  <2>6. \A e \in found : e.lane = l /\ e.beat = v.beat => e.byte_index < v.byte_index
    <3>1. SUFFICES ASSUME NEW e \in found, e.lane = l, e.beat = v.beat PROVE e.byte_index < v.byte_index
      OBVIOUS
    <3>2. e.byte_index < NextByte(l)
      BY <2>1, <3>1 DEF FoundInv
    <3>3. QED
      BY <1>4, <1>5, <2>5, <3>2
  <2>7. FoundInv'
    <3>1. found' = Drained' \cup Matches(fifo'[0]) \cup Matches(fifo'[1])
      <4>1. found = Drained \cup Matches(fifo[0]) \cup Matches(fifo[1])
        BY DEF FoundInv
      <4>2. CASE l = 0
        BY <1>1, <1>2, <2>2, <2>4, <4>1, <4>2
      <4>3. CASE l = 1
        BY <1>1, <1>2, <2>2, <2>4, <4>1, <4>3
      <4>4. QED
        BY <1>2, <4>2, <4>3
    <3>2. \A m \in Lane : \A e \in Matches(fifo'[m]) : e.lane = m
      BY <2>1, <2>4 DEF FoundInv
    <3>3. \A e \in found' : /\ e.beat <= pBeat'
                            /\ e.beat = Written(e.lane)' => e.byte_index < NextByte(e.lane)'
      <4>1. v.beat <= pBeat' /\ v.byte_index < NextByte(v.lane)'
        BY <1>2, <2>1, <2>5
      <4>2. QED
        BY <1>6, <2>2, <4>1
    <3>4. found' \subseteq Match
      BY <2>1, <2>2 DEF FoundInv
    <3>5. QED
      BY <3>1, <3>2, <3>3, <3>4 DEF FoundInv
  <2>8. OrderInv'
    <3>1. \A m \in Lane : Matches(fifo[m]) \subseteq found /\ \A e \in Matches(fifo[m]) : e.lane = m
      BY <1>2 DEF FoundInv
    <3>2. Drained \subseteq found
      BY DEF FoundInv
    <3>3. \A m \in Lane : InByteOrder(fifo'[m])
      <4>1. InByteOrder(Append(fifo[l], v))
        <5>1. \A m \in Matches(fifo[l]) : m.beat = v.beat => m.byte_index < v.byte_index
          BY <2>6, <3>1
        <5>2. InByteOrder(fifo[l]) /\ fifo[l] \in Seq(EventOrMarker)
          BY <1>2 DEF OrderInv
        <5>3. QED
          BY <2>1, <5>1, <5>2, OrderAppend
      <4>2. QED
        BY <2>3, <4>1 DEF OrderInv
    <3>4. \A e \in Drained : \A m \in Matches(fifo'[e.lane]) : e.beat = m.beat => e.byte_index < m.byte_index
      BY <1>5, <2>4, <2>6, <3>2 DEF OrderInv
    <3>5. QED
      BY <1>1, <3>3, <3>4 DEF OrderInv
  <2>9. QED
    BY <2>7, <2>8
<1>9. QED
  BY <1>7, <1>8

LEMMA SearchMarker ==
  ASSUME TypeInv, FoundInv, OrderInv,
         NEW l \in Lane, fifo' = [fifo EXCEPT ![l] = Append(@, Marker)],
         UNCHANGED <<found, reported, reg, count, lane, cBeat>>,
         \A e \in found : /\ e.beat <= pBeat'
                          /\ e.beat = Written(e.lane)' => e.byte_index < NextByte(e.lane)'
  PROVE  FoundInv' /\ OrderInv'
<1>1. Drained' = Drained /\ Held' = Held
  BY DEF Drained, Held
<1>2. Lane = {0, 1} /\ fifo \in [Lane -> Seq(EventOrMarker)] /\ TypeOK
  BY DEF Lane, TypeInv, TypeOK
<1>3. PICK v : v = Marker
  OBVIOUS
<1>4. v \in EventOrMarker /\ IsMarker(v)
  BY <1>2, <1>3, MarkerType
<1>5. fifo'[l] = Append(fifo[l], v) /\ \A m \in Lane : m # l => fifo'[m] = fifo[m]
  BY <1>2, <1>3
<1>6. \A m \in Lane : Matches(fifo'[m]) = Matches(fifo[m])
  BY <1>2, <1>4, <1>5, MatchesAppend
<1>7. \A m \in Lane : InByteOrder(fifo'[m])
  <2>1. InByteOrder(Append(fifo[l], v))
    BY <1>2, <1>4, OrderAppend DEF OrderInv
  <2>2. QED
    BY <1>5, <2>1 DEF OrderInv
<1>8. FoundInv'
  BY <1>1, <1>2, <1>6 DEF FoundInv
<1>9. \A e \in Drained : \A m \in Matches(fifo'[e.lane]) : e.beat = m.beat => e.byte_index < m.byte_index
  <2>1. \A e \in Drained : e.lane \in Lane
    BY DEF FoundInv, Match
  <2>2. QED
    BY <1>6, <2>1 DEF OrderInv
<1>10. OrderInv'
  BY <1>1, <1>7, <1>9 DEF OrderInv
<1>11. QED
  BY <1>8, <1>10

LEMMA SearchProducer ==
  TypeInv /\ InputInv /\ FoundInv /\ OrderInv /\ Producer => FoundInv' /\ OrderInv'
<1> SUFFICES ASSUME TypeInv, InputInv, FoundInv, OrderInv, Producer PROVE FoundInv' /\ OrderInv'
  OBVIOUS
<1> USE DEF collVars, ghostVars
<1>a. Lane = {0, 1} /\ TypeOK /\ pBeat \in Nat
  BY DEF Lane, TypeInv, TypeOK
<1>b. \A e \in found : e.beat \in Nat /\ e.lane \in Lane /\ e.beat <= pBeat
  BY DEF FoundInv, Match
<1>1. CASE ReadBeat
  <2>1. UNCHANGED <<fifo, found, reported, reg, count, lane, cBeat, pBase, pBeat>> /\ pPc = "read"
        /\ pPc' = "ev0" /\ pPair' = 0
    BY <1>1 DEF ReadBeat
  <2>2. \A l \in Lane : Written(l)' = Written(l) /\ PairsPassed(l)' = PairsPassed(l)
    BY <2>1 DEF Written, PairsPassed
  <2>3. \A l \in Lane : NextByte(l)' = NextByte(l)
    BY <2>1, <2>2 DEF NextByte
  <2>4. Drained' = Drained /\ Held' = Held
    BY <2>1 DEF Drained, Held
  <2>5. \A e \in found : /\ e.beat <= pBeat'
                         /\ e.beat = Written(e.lane)' => e.byte_index < NextByte(e.lane)'
    BY <1>b, <2>1, <2>2, <2>3 DEF FoundInv
  <2>6. FoundInv'
    BY <2>1, <2>4, <2>5 DEF FoundInv
  <2>7. OrderInv'
    BY <2>1, <2>4 DEF OrderInv
  <2>8. QED
    BY <2>6, <2>7
<1>2. CASE WriteEvent0
  <2>1. /\ pPc = "ev0" /\ pPc' = "ev1" /\ WriteIfMatch(0) /\ Written(0) = pBeat /\ PairsPassed(0) = pPair
        /\ UNCHANGED <<reported, reg, count, lane, cBeat, pBase, pBeat, pPair>>
    BY <1>2 DEF WriteEvent0, Written, PairsPassed
  <2>2. \A m \in Lane : /\ Written(m)' = Written(m)
                        /\ PairsPassed(m)' = IF m = 0 THEN PairsPassed(m) + 1 ELSE PairsPassed(m)
    BY <1>a, <2>1 DEF Written, PairsPassed
  <2>3. QED
    BY <1>a, <2>1, <2>2, SearchWrite
<1>3. CASE WriteEvent1
  <2>1. /\ pPc = "ev1" /\ pPc' \in {"ev0", "mark0"} /\ WriteIfMatch(1)
        /\ pPair' = IF pPc' = "ev0" THEN pPair + 1 ELSE pPair
        /\ UNCHANGED <<reported, reg, count, lane, cBeat, pBase, pBeat>>
    BY <1>3 DEF WriteEvent1
  <2>2. Written(1) = pBeat /\ PairsPassed(1) = pPair
    BY <2>1 DEF Written, PairsPassed
  <2>3. \A m \in Lane : /\ Written(m)' = Written(m)
                        /\ PairsPassed(m)' = IF m = 1 THEN PairsPassed(m) + 1 ELSE PairsPassed(m)
    BY <1>a, <2>1 DEF Written, PairsPassed
  <2>4. QED
    BY <1>a, <2>1, <2>2, <2>3, SearchWrite
<1>4. CASE WriteMarker0
  <2>1. /\ fifo' = [fifo EXCEPT ![0] = Append(@, Marker)] /\ pPc = "mark0" /\ pPc' = "mark1"
        /\ UNCHANGED <<found, reported, reg, count, lane, cBeat, pBase, pBeat, pPair>>
    BY <1>4 DEF WriteMarker0
  <2>2. Written(0)' = pBeat + 1 /\ Written(1)' = Written(1) /\ PairsPassed(1)' = PairsPassed(1)
    BY <2>1 DEF Written, PairsPassed
  <2>3. NextByte(1)' = NextByte(1)
    BY <2>1, <2>2 DEF NextByte
  <2>4. ASSUME NEW e \in found
        PROVE  /\ e.beat <= pBeat'
               /\ e.beat = Written(e.lane)' => e.byte_index < NextByte(e.lane)'
    <3>1. CASE e.lane = 0
      BY <1>a, <1>b, <2>1, <2>2, <3>1
    <3>2. CASE e.lane = 1
      BY <1>a, <1>b, <2>1, <2>2, <2>3, <3>2 DEF FoundInv
    <3>3. QED
      BY <1>a, <1>b, <3>1, <3>2
  <2>5. QED
    BY <1>a, <2>1, <2>4, SearchMarker
<1>5. CASE WriteMarker1
  <2>1. /\ fifo' = [fifo EXCEPT ![1] = Append(@, Marker)] /\ pPc' = "read" /\ pBeat' = pBeat + 1
        /\ UNCHANGED <<found, reported, reg, count, lane, cBeat>>
    BY <1>5 DEF WriteMarker1
  <2>2. \A l \in Lane : Written(l)' = pBeat + 1
    BY <2>1 DEF Written
  <2>3. \A e \in found : /\ e.beat <= pBeat'
                         /\ e.beat = Written(e.lane)' => e.byte_index < NextByte(e.lane)'
    BY <1>a, <1>b, <2>1, <2>2
  <2>4. QED
    BY <1>a, <2>1, <2>3, SearchMarker
<1>6. QED
  BY <1>1, <1>2, <1>3, <1>4, <1>5 DEF Producer

----------------------------------------------------------------------------
(***************************************************************************)
(* The collector's steps.                                                  *)
(***************************************************************************)
LEMMA SearchDrain ==
  ASSUME TypeInv, LanesOK, FoundInv, OrderInv, DrainMatch
  PROVE  FoundInv' /\ OrderInv'
<1> USE KernelAssumption DEF ghostVars, prodVars
<1>1. PICK l \in Lane : l = lane
  BY DEF TypeInv, TypeOK
<1>2. PICK h : h = Head(fifo[l])
  OBVIOUS
<1>3. /\ fifo[l] # << >> /\ ~IsMarker(h) /\ fifo' = [fifo EXCEPT ![l] = Tail(@)]
      /\ reg' = [reg EXCEPT ![count] = h] /\ count' = count + 1
      /\ UNCHANGED <<found, reported, lane, cBeat, pBeat, pBase, pPc, pPair>>
  BY <1>1, <1>2 DEF DrainMatch
<1>4. Lane = {0, 1} /\ fifo \in [Lane -> Seq(EventOrMarker)] /\ count \in Nat
      /\ count \in 0 .. Slots - 1 /\ reg \in [0 .. Slots - 1 -> Register]
  BY DEF Lane, TypeInv, TypeOK, ControlOK, DrainMatch
<1>5. fifo'[l] = Tail(fifo[l]) /\ \A m \in Lane : m # l => fifo'[m] = fifo[m]
  BY <1>3, <1>4
<1>6. Matches(fifo[l]) = Matches(fifo'[l]) \cup {h}
      /\ \A m \in Lane : m # l => Matches(fifo'[m]) = Matches(fifo[m])
  <2>1. fifo[l] \in Seq(EventOrMarker)
    BY <1>4
  <2>2. QED
    BY <1>2, <1>3, <1>5, <2>1, MatchesTail
<1>7. Held' = Held \cup {h}
  <2>1. reg'[count] = h /\ \A s \in 0 .. count - 1 : reg'[s] = reg[s]
    BY <1>3, <1>4
  <2>2. \A s \in 0 .. count' - 1 : s = count \/ s \in 0 .. count - 1
    BY <1>3, <1>4
  <2>3. \A s \in 0 .. count - 1 : s \in 0 .. count' - 1
    BY <1>3, <1>4
  <2>4. count \in 0 .. count' - 1
    BY <1>3, <1>4
  <2>5. QED
    BY <2>1, <2>2, <2>3, <2>4 DEF Held
<1>8. Drained' = Drained \cup {h} /\ h \in found /\ h.lane = l /\ h.beat = cBeat
  <2>1. Drained' = Drained \cup {h}
    BY <1>3, <1>7 DEF Drained
  <2>2. h \in Matches(fifo[l])
    BY <1>6
  <2>3. h \in found /\ h.lane = l
    <3>1. Matches(fifo[l]) \subseteq found
      BY <1>4 DEF FoundInv
    <3>2. QED
      BY <2>2, <3>1 DEF FoundInv
  <2>4. h.beat = cBeat
    BY <1>1, <1>2, <1>3, HeadIsCurrent
  <2>5. QED
    BY <2>1, <2>3, <2>4
<1>9. \A m \in Lane : Written(m)' = Written(m) /\ NextByte(m)' = NextByte(m)
  BY <1>3 DEF Written, NextByte, PairsPassed
<1>10. \A e \in found : e.lane \in Lane /\ e.beat \in Nat /\ e.byte_index \in Nat
  BY DEF FoundInv, Match
<1>11. FoundInv'
  <2>1. found' = Drained' \cup Matches(fifo'[0]) \cup Matches(fifo'[1])
    <3>1. found = Drained \cup Matches(fifo[0]) \cup Matches(fifo[1])
      BY DEF FoundInv
    <3>2. CASE l = 0
      BY <1>3, <1>4, <1>6, <1>8, <3>1, <3>2
    <3>3. CASE l = 1
      BY <1>3, <1>4, <1>6, <1>8, <3>1, <3>3
    <3>4. QED
      BY <1>4, <3>2, <3>3
  <2>2. \A m \in Lane : \A e \in Matches(fifo'[m]) : e.lane = m
    BY <1>6 DEF FoundInv
  <2>3. \A e \in found' : /\ e.beat <= pBeat'
                          /\ e.beat = Written(e.lane)' => e.byte_index < NextByte(e.lane)'
    BY <1>3, <1>9, <1>10 DEF FoundInv
  <2>4. QED
    BY <1>3, <2>1, <2>2, <2>3 DEF FoundInv
<1>12. OrderInv'
  <2>0. InByteOrder(fifo[l]) /\ fifo[l] \in Seq(EventOrMarker)
    BY <1>4 DEF OrderInv
  <2>1. \A m \in Lane : InByteOrder(fifo'[m])
    BY <1>3, <1>5, <2>0, OrderTail DEF OrderInv
  <2>2. \A m \in Matches(fifo'[l]) : h.beat = m.beat => h.byte_index < m.byte_index
    BY <1>2, <1>3, <1>5, <2>0, OrderTail
  <2>3. Drained \subseteq found
    BY DEF FoundInv
  <2>4. \A e \in Drained' : \A m \in Matches(fifo'[e.lane]) : e.beat = m.beat => e.byte_index < m.byte_index
    BY <1>6, <1>8, <1>10, <2>2, <2>3 DEF OrderInv
  <2>5. \A e \in Drained' : e.beat <= cBeat' /\ (e.lane = 1 /\ lane' = 0 => e.beat < cBeat')
    <3>1. h.beat <= cBeat /\ ~(h.lane = 1 /\ lane = 0)
      BY <1>1, <1>8, <1>10
    <3>2. QED
      BY <1>3, <1>8, <3>1 DEF OrderInv
  <2>6. \A e \in reported : Precedes(e, h)
    <3>1. SUFFICES ASSUME NEW e \in reported PROVE Precedes(e, h)
      OBVIOUS
    <3>2. e \in Drained /\ e \in found /\ e.beat \in Nat /\ e.lane \in Lane
      BY <1>10, <2>3 DEF Drained
    <3>3. e.beat <= h.beat /\ (e.lane = 1 /\ l = 0 => e.beat < h.beat)
      BY <1>1, <1>8, <3>2 DEF OrderInv
    <3>4. e.lane = l /\ e.beat = h.beat => e.byte_index < h.byte_index
      BY <1>6, <1>8, <3>2 DEF OrderInv
    <3>5. QED
      BY <1>4, <1>8, <1>10, <3>2, <3>3, <3>4 DEF Precedes
  <2>7. \A e \in reported' : \A f \in Held' : Precedes(e, f)
    BY <1>3, <1>7, <2>6 DEF OrderInv
  <2>8. QED
    BY <2>1, <2>4, <2>5, <2>7 DEF OrderInv
<1>13. QED
  BY <1>11, <1>12

LEMMA SearchDrainMarker ==
  ASSUME TypeInv, FoundInv, OrderInv, DrainMarker
  PROVE  FoundInv' /\ OrderInv'
<1> USE DEF ghostVars, prodVars
<1>1. PICK l \in Lane : l = lane
  BY DEF TypeInv, TypeOK
<1>3. /\ fifo[l] # << >> /\ IsMarker(Head(fifo[l])) /\ fifo' = [fifo EXCEPT ![l] = Tail(@)]
      /\ UNCHANGED <<found, reported, reg, count, pBeat, pBase, pPc, pPair>>
  BY <1>1 DEF DrainMarker
<1>4. Lane = {0, 1} /\ fifo \in [Lane -> Seq(EventOrMarker)] /\ cBeat \in Nat
  BY DEF Lane, TypeInv, TypeOK
<1>5. fifo'[l] = Tail(fifo[l]) /\ \A m \in Lane : m # l => fifo'[m] = fifo[m]
  BY <1>3, <1>4
<1>6. \A m \in Lane : Matches(fifo'[m]) = Matches(fifo[m]) /\ InByteOrder(fifo'[m])
  <2>1. fifo[l] \in Seq(EventOrMarker) /\ \A m \in Lane : InByteOrder(fifo[m])
    BY <1>4 DEF OrderInv
  <2>2. QED
    BY <1>3, <1>5, <2>1, MatchesTail, OrderTail
<1>7. Drained' = Drained /\ Held' = Held
  BY <1>3 DEF Drained, Held
<1>8. \A m \in Lane : Written(m)' = Written(m) /\ NextByte(m)' = NextByte(m)
  BY <1>3 DEF Written, NextByte, PairsPassed
<1>9. \A e \in found : e.lane \in Lane /\ e.beat \in Nat
  BY DEF FoundInv, Match
<1>10. Drained \subseteq found
  BY DEF FoundInv
<1>11. FoundInv'
  BY <1>3, <1>4, <1>6, <1>7, <1>8, <1>9 DEF FoundInv
<1>12. \A e \in Drained : e.beat <= cBeat' /\ (e.lane = 1 /\ lane' = 0 => e.beat < cBeat')
  <2>1. CASE l = 0
    <3>1. lane' = 1 /\ cBeat' = cBeat
      BY <1>1, <2>1 DEF DrainMarker
    <3>2. QED
      BY <3>1 DEF OrderInv
  <2>2. CASE l = 1
    <3>1. cBeat' = cBeat + 1
      BY <1>1, <2>2 DEF DrainMarker
    <3>2. QED
      BY <1>4, <1>9, <1>10, <3>1 DEF OrderInv
  <2>3. QED
    BY <1>4, <2>1, <2>2
<1>13. \A e \in Drained : \A m \in Matches(fifo'[e.lane]) : e.beat = m.beat => e.byte_index < m.byte_index
  BY <1>6, <1>9, <1>10 DEF OrderInv
<1>14. OrderInv'
  BY <1>3, <1>6, <1>7, <1>12, <1>13 DEF OrderInv
<1>15. QED
  BY <1>11, <1>14

LEMMA SearchStep ==
  TypeInv /\ LanesOK /\ InputInv /\ FoundInv /\ OrderInv /\ [Next]_vars => FoundInv' /\ OrderInv'
<1> SUFFICES ASSUME TypeInv, LanesOK, InputInv, FoundInv, OrderInv, [Next]_vars
             PROVE  FoundInv' /\ OrderInv'
  OBVIOUS
<1> USE KernelAssumption DEF prodVars, collVars, ghostVars
<1>1. CASE /\ Drained' = Drained /\ Held' \subseteq Held
           /\ (reported' = reported \/ Held' = {})
           /\ UNCHANGED <<fifo, found, pPc, pPair, pBase, pBeat, cBeat, lane>>
  <2>1. \A l \in Lane : Written(l)' = Written(l) /\ NextByte(l)' = NextByte(l)
    BY <1>1 DEF Written, NextByte, PairsPassed
  <2>2. \A e \in found : e.lane \in Lane
    BY DEF FoundInv, Match
  <2>3. FoundInv'
    BY <1>1, <2>1, <2>2 DEF FoundInv
  <2>4. OrderInv'
    BY <1>1 DEF OrderInv
  <2>5. QED
    BY <2>3, <2>4
<1>2. CASE EmitFull \/ FlushPartial
  <2>1. /\ reported' = reported \cup {reg[s] : s \in 0 .. count - 1} /\ count' = 0
        /\ UNCHANGED <<fifo, found, pPc, pPair, pBase, pBeat, cBeat, lane>>
    BY <1>2 DEF EmitFull, FlushPartial, SendRegisters
  <2>2. reported' = Drained /\ Held' = {}
    BY <2>1 DEF Drained, Held
  <2>3. QED
    BY <1>1, <2>1, <2>2 DEF Drained
<1>3. CASE StartPacket \/ ClosePacket
  <2>1. UNCHANGED <<fifo, found, reported, reg, count, pPc, pPair, pBase, pBeat, cBeat>>
        /\ lane = 0 /\ lane' = 0
    BY <1>3 DEF StartPacket, ClosePacket, TypeInv, ControlOK
  <2>2. Drained' = Drained /\ Held' = Held
    BY <2>1 DEF Drained, Held
  <2>3. QED
    BY <1>1, <2>1, <2>2
<1>4. CASE TakeBeat \/ UNCHANGED vars
  <2>1. UNCHANGED <<fifo, found, reported, reg, count, pPc, pPair, pBase, pBeat, cBeat, lane>>
    BY <1>4 DEF TakeBeat, vars
  <2>2. Drained' = Drained /\ Held' = Held
    BY <2>1 DEF Drained, Held
  <2>3. QED
    BY <1>1, <2>1, <2>2
<1>5. QED
  BY <1>2, <1>3, <1>4, SearchProducer, SearchDrain, SearchDrainMarker DEF Next, Collector, Idle

LEMMA SearchInit == Init => FoundInv /\ OrderInv
<1> SUFFICES ASSUME Init PROVE FoundInv /\ OrderInv
  OBVIOUS
<1>1. Held = {} /\ Drained = {} /\ found = {} /\ reported = {}
  BY DEF Init, Held, Drained
<1>2. \A l \in Lane : fifo[l] = << >> /\ Len(fifo[l]) = 0
  BY DEF Init
<1>3. \A l \in Lane : Matches(fifo[l]) = {} /\ InByteOrder(fifo[l])
  BY <1>2 DEF Matches, InByteOrder
<1>4. QED
  BY <1>1, <1>3 DEF FoundInv, OrderInv, Lane

\* Everything the pattern kernel's order and its promise rest on.
LEMMA SearchInvariant == Spec => [](TypeInv /\ LanesOK /\ InputInv /\ FoundInv /\ OrderInv)
<1>1. Spec => []InputInv
  <2>1. TypeInv /\ LanesOK /\ InputInv /\ [Next]_vars => InputInv'
    BY InputStep
  <2>2. QED
    BY LanesInvariant, InputInit, InputStep, PTL DEF Spec
<1>2. QED
  BY <1>1, LanesInvariant, SearchInit, SearchStep, PTL DEF Spec

\* Matches leave by beat, within a beat first those of even bytes, and by increasing
\* byte_index, however far the producer is ahead and wherever the registers were full in
\* between: the order in which the host may read the report (krnl_proj.cpp:83-139).
THEOREM LeaveInOrder == Spec => ReportedInOrder
<1>1. TypeInv /\ FoundInv /\ OrderInv /\ [Next]_vars
        => [\A e \in reported, f \in reported' \ reported : Precedes(e, f)]_reported
  <2> SUFFICES ASSUME OrderInv, [Next]_vars, reported' # reported
               PROVE  \A e \in reported, f \in reported' \ reported : Precedes(e, f)
    OBVIOUS
  <2>1. EmitFull \/ FlushPartial
    BY DEF Next, Producer, Collector, Idle, vars, ghostVars, ReadBeat, WriteEvent0, WriteEvent1,
           WriteMarker0, WriteMarker1, StartPacket, DrainMatch, DrainMarker, ClosePacket, TakeBeat
  <2>2. reported' = reported \cup Held
    BY <2>1 DEF EmitFull, FlushPartial, SendRegisters, Held
  <2>3. QED
    BY <2>2 DEF OrderInv
<1>2. QED
  BY <1>1, SearchInvariant, PTL DEF Spec, ReportedInOrder

----------------------------------------------------------------------------
(***************************************************************************)
(* Beats and packets.  p[b] is the packet of beat b; it is known up to the *)
(* beat after the one that has been read.                                  *)
(***************************************************************************)
Known == IF pPc = "read" THEN pBeat ELSE pBeat + 1

MarkedBy(p, e) ==
  /\ e.pkt = p[e.beat]
  /\ IsMarker(e) => p[e.beat + 1] = p[e.beat] + (IF e.control = 2 THEN 1 ELSE 0)

PacketMap(p) ==
  /\ \A a, b \in 0 .. Known : a <= b => p[a] <= p[b]
  /\ p[pBeat] = pPkt
  /\ pPc # "read" => p[pBeat + 1] = pPkt + (IF pLast THEN 1 ELSE 0)
  /\ \A l \in Lane : \A k \in 1 .. Len(fifo[l]) : MarkedBy(p, fifo[l][k])
  /\ cPc \in {"drain", "emit"} => (packetDone <=> lane = 1 /\ p[cBeat + 1] = cPkt + 1)
  /\ p[cBeat] = IF cPc \in {"flush", "close"} /\ packetDone THEN cPkt + 1 ELSE cPkt

PacketInv ==
  /\ closed = cPkt
  /\ cPc = "close" => packetDone
  /\ \A s \in 0 .. count - 1 : reg[s].pkt = cPkt
  /\ \E p \in [Nat -> Nat] : PacketMap(p)

LEMMA PacketInit == Init => PacketInv
<1> SUFFICES ASSUME Init PROVE PacketInv
  OBVIOUS
<1> DEFINE p == [b \in Nat |-> 0]
<1>1. p \in [Nat -> Nat] /\ \A b \in Nat : p[b] = 0
  OBVIOUS
<1>2. /\ pPc = "read" /\ pBeat = 0 /\ pPkt = 0 /\ cPc = "packet" /\ cBeat = 0 /\ cPkt = 0
      /\ count = 0 /\ closed = 0 /\ \A l \in Lane : Len(fifo[l]) = 0
  BY DEF Init
<1> HIDE DEF p
<1>3. PacketMap(p)
  BY <1>1, <1>2 DEF PacketMap, Known
<1>4. \E q \in [Nat -> Nat] : PacketMap(q)
  BY <1>1, <1>3
<1>5. QED
  BY <1>2, <1>4 DEF PacketInv

\* The counters of the two processes and the beats in the lanes.
LEMMA BeatsKnown ==
  ASSUME TypeInv, LanesOK
  PROVE  /\ cBeat \in Nat /\ pBeat \in Nat /\ cBeat <= pBeat
         /\ lane = 1 => cBeat + 1 <= Known
         /\ Known \in Nat /\ pBeat <= Known
         /\ \A l \in Lane : \A k \in 1 .. Len(fifo[l]) :
              /\ fifo[l][k] \in EventOrMarker /\ fifo[l][k].beat \in Nat
              /\ cBeat <= fifo[l][k].beat /\ fifo[l][k].beat <= Known
              /\ IsMarker(fifo[l][k]) => fifo[l][k].beat + 1 <= Known
<1>1. TypeOK /\ Lane = {0, 1} /\ cBeat \in Nat /\ pBeat \in Nat /\ lane \in Lane
  BY DEF TypeInv, TypeOK, Lane
<1>2. \A l \in Lane : /\ Collected(l) \in Nat /\ Written(l) \in Nat
                      /\ cBeat <= Collected(l) /\ pBeat <= Written(l) /\ Written(l) <= Known
  BY <1>1 DEF Collected, Written, Known
<1>3. Collected(1) = cBeat /\ Written(1) = pBeat /\ (lane = 1 => Collected(0) = cBeat + 1)
      /\ Known \in Nat /\ pBeat <= Known
  BY <1>1 DEF Collected, Written, Known
<1>4. \A l \in Lane : LaneOK(fifo[l], Collected(l), Written(l), PairsPassed(l))
                      /\ fifo[l] \in Seq(EventOrMarker)
  BY <1>1 DEF LanesOK, TypeOK
<1>5. \A l \in Lane : Collected(l) <= Written(l)
  BY <1>4 DEF LaneOK
<1>6. ASSUME NEW l \in Lane, NEW k \in 1 .. Len(fifo[l])
      PROVE  /\ fifo[l][k] \in EventOrMarker /\ fifo[l][k].beat \in Nat
             /\ cBeat <= fifo[l][k].beat /\ fifo[l][k].beat <= Known
             /\ IsMarker(fifo[l][k]) => fifo[l][k].beat + 1 <= Known
  <2>1. fifo[l][k] \in EventOrMarker /\ fifo[l][k].beat \in Nat
    BY <1>4, LaneBeats
  <2>2. /\ Collected(l) <= fifo[l][k].beat /\ fifo[l][k].beat <= Written(l)
        /\ IsMarker(fifo[l][k]) => fifo[l][k].beat < Written(l)
    BY <1>4 DEF LaneOK
  <2>3. QED
    BY <1>1, <1>2, <1>3, <2>1, <2>2
<1>7. QED
  BY <1>1, <1>2, <1>3, <1>5, <1>6

LEMMA AppendPlaces ==
  ASSUME NEW s \in Seq(EventOrMarker), NEW e \in EventOrMarker
  PROVE  \A k \in 1 .. Len(Append(s, e)) :
           Append(s, e)[k] = e \/ (k \in 1 .. Len(s) /\ Append(s, e)[k] = s[k])
<1> DEFINE t == Append(s, e)
<1>1. /\ Len(t) = Len(s) + 1 /\ Len(s) \in Nat
      /\ \A k \in 1 .. Len(s) : t[k] = s[k]
      /\ t[Len(s) + 1] = e
  OBVIOUS
<1> HIDE DEF t
<1>2. \A k \in 1 .. Len(t) : k \in 1 .. Len(s) \/ k = Len(s) + 1
  BY <1>1
<1>3. \A k \in 1 .. Len(t) : t[k] = e \/ (k \in 1 .. Len(s) /\ t[k] = s[k])
  BY <1>1, <1>2
<1>4. QED
  BY <1>3 DEF t

LEMMA TailPlaces ==
  ASSUME NEW s \in Seq(EventOrMarker), s # << >>
  PROVE  /\ 1 \in 1 .. Len(s) /\ Head(s) = s[1] /\ Head(s) \in EventOrMarker
         /\ \A k \in 1 .. Len(Tail(s)) : Tail(s)[k] = s[k + 1] /\ k + 1 \in 1 .. Len(s)
OBVIOUS

\* Appending to a lane, by the producer.
LEMMA MapAppend ==
  ASSUME TypeInv, NEW p \in [Nat -> Nat], PacketMap(p), NEW l \in Lane, NEW e \in EventOrMarker,
         fifo' = [fifo EXCEPT ![l] = Append(@, e)], MarkedBy(p, e)
  PROVE  \A m \in Lane : \A k \in 1 .. Len(fifo'[m]) : MarkedBy(p, fifo'[m][k])
<1>1. fifo \in [Lane -> Seq(EventOrMarker)]
  BY DEF TypeInv, TypeOK
<1>2. fifo'[l] = Append(fifo[l], e) /\ \A m \in Lane : m # l => fifo'[m] = fifo[m]
  BY <1>1
<1>3. fifo[l] \in Seq(EventOrMarker) /\ \A k \in 1 .. Len(fifo[l]) : MarkedBy(p, fifo[l][k])
  BY <1>1 DEF PacketMap
<1>4. \A k \in 1 .. Len(Append(fifo[l], e)) : MarkedBy(p, Append(fifo[l], e)[k])
  <2>1. \A k \in 1 .. Len(Append(fifo[l], e)) :
          Append(fifo[l], e)[k] = e
            \/ (k \in 1 .. Len(fifo[l]) /\ Append(fifo[l], e)[k] = fifo[l][k])
    BY <1>3, AppendPlaces
  <2>2. QED
    BY <1>3, <2>1, Zenon
<1>5. QED
  BY <1>2, <1>4, Zenon DEF PacketMap

\* Taking from a lane, by the collector.
LEMMA MapTail ==
  ASSUME TypeInv, NEW p \in [Nat -> Nat], PacketMap(p), NEW l \in Lane, fifo[l] # << >>,
         fifo' = [fifo EXCEPT ![l] = Tail(@)]
  PROVE  /\ \A m \in Lane : \A k \in 1 .. Len(fifo'[m]) : MarkedBy(p, fifo'[m][k])
         /\ MarkedBy(p, Head(fifo[l])) /\ Head(fifo[l]) \in EventOrMarker
<1>1. fifo \in [Lane -> Seq(EventOrMarker)]
  BY DEF TypeInv, TypeOK
<1>2. fifo'[l] = Tail(fifo[l]) /\ \A m \in Lane : m # l => fifo'[m] = fifo[m]
  BY <1>1
<1>3. fifo[l] \in Seq(EventOrMarker) /\ \A k \in 1 .. Len(fifo[l]) : MarkedBy(p, fifo[l][k])
  BY <1>1 DEF PacketMap
<1>4. /\ 1 \in 1 .. Len(fifo[l]) /\ Head(fifo[l]) = fifo[l][1] /\ Head(fifo[l]) \in EventOrMarker
      /\ \A k \in 1 .. Len(fifo'[l]) : fifo'[l][k] = fifo[l][k + 1] /\ k + 1 \in 1 .. Len(fifo[l])
  BY <1>2, <1>3, TailPlaces, Zenon
<1>5. \A k \in 1 .. Len(fifo'[l]) : MarkedBy(p, fifo'[l][k])
  BY <1>3, <1>4, Zenon
<1>7. MarkedBy(p, Head(fifo[l]))
  BY <1>3, <1>4, Zenon
<1>8. \A m \in Lane : m # l => \A k \in 1 .. Len(fifo'[m]) : MarkedBy(p, fifo'[m][k])
  BY <1>2, Zenon DEF PacketMap
<1>9. QED
  BY <1>4, <1>5, <1>7, <1>8, Zenon

LEMMA PacketRead ==
  ASSUME TypeInv, LanesOK, PacketInv, ReadBeat
  PROVE  PacketInv'
<1> USE DEF collVars, ghostVars
<1>1. PICK p \in [Nat -> Nat] : PacketMap(p)
  BY DEF PacketInv
<1>2. /\ pPc = "read" /\ pPc' = "ev0" /\ pLast' \in BOOLEAN /\ pPkt \in Nat
      /\ UNCHANGED <<fifo, pPkt, pBeat, cPc, cPkt, lane, packetDone, count, reg, cBeat, closed>>
  <2>1. n2k \in Seq(BOOLEAN) /\ n2k # << >> /\ pLast' = Head(n2k)
    BY DEF TypeInv, TypeOK, ReadBeat
  <2>2. pLast' \in BOOLEAN
    BY <2>1
  <2>3. QED
    BY <2>2 DEF ReadBeat, TypeInv, TypeOK
<1>3. PICK d \in {0, 1} : d = IF pLast' THEN 1 ELSE 0
  BY <1>2
<1>4. PICK q : q = [p EXCEPT ![pBeat + 1] = pPkt + d]
  OBVIOUS
<1>5. /\ pBeat \in Nat /\ cBeat \in Nat /\ cBeat <= pBeat /\ (lane = 1 => cBeat + 1 <= pBeat)
      /\ Known = pBeat /\ Known' = pBeat + 1
  BY <1>2, BeatsKnown DEF Known
<1>6. q \in [Nat -> Nat] /\ q[pBeat + 1] = pPkt + d /\ \A b \in 0 .. pBeat : q[b] = p[b]
  <2>1. pBeat + 1 \in Nat /\ pPkt + d \in Nat
    BY <1>2, <1>3, <1>5
  <2>2. q \in [Nat -> Nat] /\ q[pBeat + 1] = pPkt + d /\ \A b \in Nat : b # pBeat + 1 => q[b] = p[b]
    BY <1>4, <2>1
  <2>3. \A b \in 0 .. pBeat : b \in Nat /\ b # pBeat + 1
    BY <1>5
  <2>4. QED
    BY <2>2, <2>3
<1>7. p[pBeat] = pPkt /\ \A a, b \in 0 .. pBeat : a <= b => p[a] <= p[b]
  BY <1>1, <1>5 DEF PacketMap
<1>8. ASSUME NEW a \in 0 .. Known', NEW b \in 0 .. Known', a <= b PROVE q[a] <= q[b]
  <2>1. CASE b \in 0 .. pBeat
    <3>1. a \in 0 .. pBeat
      BY <1>5, <1>8, <2>1
    <3>2. QED
      BY <1>6, <1>7, <1>8, <2>1, <3>1
  <2>2. CASE b = pBeat + 1
    <3>1. CASE a = pBeat + 1
      BY <1>2, <1>3, <1>6, <2>2, <3>1
    <3>2. CASE a \in 0 .. pBeat
      <4>1. p[a] <= pPkt /\ p[a] \in Nat
        BY <1>1, <1>5, <1>7, <3>2
      <4>2. QED
        BY <1>2, <1>3, <1>6, <2>2, <3>2, <4>1
    <3>3. QED
      BY <1>5, <3>1, <3>2
  <2>3. QED
    BY <1>5, <2>1, <2>2
<1>9. \A l \in Lane : \A k \in 1 .. Len(fifo'[l]) : MarkedBy(q, fifo'[l][k])
  <2>1. SUFFICES ASSUME NEW l \in Lane, NEW k \in 1 .. Len(fifo[l]) PROVE MarkedBy(q, fifo[l][k])
    BY <1>2
  <2>2. PICK e : e = fifo[l][k]
    OBVIOUS
  <2>3. e.beat \in 0 .. pBeat /\ (IsMarker(e) => e.beat + 1 \in 0 .. pBeat)
    <3>0. \A b \in Nat : b + 1 <= pBeat => b + 1 \in 0 .. pBeat
      BY <1>5
    <3>1. /\ e.beat \in Nat /\ e.beat <= Known
          /\ IsMarker(e) => e.beat + 1 <= Known
      BY <2>2, BeatsKnown, Zenon
    <3>2. e.beat \in 0 .. pBeat
      BY <1>5, <3>1
    <3>3. ASSUME IsMarker(e) PROVE e.beat + 1 \in 0 .. pBeat
      <4>1. e.beat + 1 <= pBeat
        BY <1>5, <3>1, <3>3, Zenon
      <4>2. QED
        BY <3>0, <3>1, <4>1, Zenon
    <3>4. QED
      BY <3>2, <3>3
  <2>4. MarkedBy(p, e)
    BY <1>1, <2>2 DEF PacketMap
  <2>5. QED
    BY <1>6, <2>2, <2>3, <2>4 DEF MarkedBy
<1>10. q[cBeat] = p[cBeat] /\ (lane = 1 => q[cBeat + 1] = p[cBeat + 1]) /\ q[pBeat] = p[pBeat]
  BY <1>5, <1>6
<1>11. /\ cPc' \in {"drain", "emit"} => (packetDone' <=> lane' = 1 /\ q[cBeat' + 1] = cPkt' + 1)
       /\ q[cBeat'] = IF cPc' \in {"flush", "close"} /\ packetDone' THEN cPkt' + 1 ELSE cPkt'
  <2>1. /\ cPc \in {"drain", "emit"} => (packetDone <=> lane = 1 /\ p[cBeat + 1] = cPkt + 1)
        /\ p[cBeat] = IF cPc \in {"flush", "close"} /\ packetDone THEN cPkt + 1 ELSE cPkt
    BY <1>1 DEF PacketMap
  <2>2. QED
    BY <1>2, <1>10, <2>1
<1>12. q[pBeat'] = pPkt' /\ q[pBeat' + 1] = pPkt' + (IF pLast' THEN 1 ELSE 0)
  BY <1>2, <1>3, <1>6, <1>7, <1>10
<1>13. PacketMap(q)'
  BY <1>8, <1>9, <1>11, <1>12 DEF PacketMap
<1>14. \E r \in [Nat -> Nat] : PacketMap(r)'
  BY <1>6, <1>13
<1>15. QED
  BY <1>2, <1>14 DEF PacketInv

\* A step that leaves alone what the map is about, but for the lanes.
LEMMA PacketFrame ==
  ASSUME PacketInv,
         UNCHANGED <<pPkt, pBeat, cBeat, cPkt, closed, count, reg>>,
         pPc = "read" <=> pPc' = "read", pPc # "read" => pLast' = pLast,
         NEW p \in [Nat -> Nat], PacketMap(p),
         \A l \in Lane : \A k \in 1 .. Len(fifo'[l]) : MarkedBy(p, fifo'[l][k]),
         UNCHANGED <<lane, packetDone, cPc>>
  PROVE  PacketInv'
<1>1. Known' = Known
  BY DEF Known
<1>2. PacketMap(p)'
  BY <1>1 DEF PacketMap
<1>3. \E r \in [Nat -> Nat] : PacketMap(r)'
  BY <1>2
<1>4. QED
  BY <1>3 DEF PacketInv

LEMMA PacketProducer ==
  ASSUME TypeInv, LanesOK, PacketInv, Producer
  PROVE  PacketInv'
<1> USE DEF collVars, ghostVars
<1>a. Lane = {0, 1} /\ TypeOK /\ pBeat \in Nat /\ pPkt \in Nat /\ pLast \in BOOLEAN
      /\ fifo \in [Lane -> Seq(EventOrMarker)]
  BY DEF Lane, TypeInv, TypeOK
<1>p. PICK p \in [Nat -> Nat] : PacketMap(p)
  BY DEF PacketInv
<1>b. p[pBeat] = pPkt /\ (pPc # "read" => p[pBeat + 1] = pPkt + (IF pLast THEN 1 ELSE 0))
  BY <1>p DEF PacketMap
<1>m. PICK m : m = Marker
  OBVIOUS
<1>n. m \in EventOrMarker /\ (pPc # "read" => MarkedBy(p, m))
  <2>1. m \in EventOrMarker
    BY <1>a, <1>m, MarkerType
  <2>2. m.pkt = pPkt /\ m.beat = pBeat /\ m.control = IF pLast THEN 2 ELSE 1
    BY <1>m DEF Marker
  <2>3. QED
    BY <1>a, <1>b, <2>1, <2>2 DEF MarkedBy
<1>1. CASE ReadBeat
  BY <1>1, PacketRead
<1>2. ASSUME NEW l \in Lane, WriteIfMatch(l), pPc # "read", pPc' # "read", pLast' = pLast,
             UNCHANGED <<pPkt, pBeat, cBeat, cPkt, closed, count, reg, lane, packetDone, cPc>>
      PROVE  PacketInv'
  <2>1. CASE ids[l] = 0
    <3>1. fifo' = fifo
      BY <1>2, <2>1 DEF WriteIfMatch
    <3>2. \A k \in Lane : \A i \in 1 .. Len(fifo'[k]) : MarkedBy(p, fifo'[k][i])
      BY <1>p, <3>1 DEF PacketMap
    <3>3. QED
      BY <1>2, <1>p, <3>2, PacketFrame, Zenon
  <2>2. CASE ids[l] # 0
    <3>1. PICK v : v = Event(l)
      OBVIOUS
    <3>2. fifo' = [fifo EXCEPT ![l] = Append(@, v)]
      BY <1>2, <2>2, <3>1 DEF WriteIfMatch
    <3>3. v \in EventOrMarker /\ ~IsMarker(v)
      BY <1>a, <2>2, <3>1, EventType
    <3>4. v.pkt = pPkt /\ v.beat = pBeat
      BY <3>1 DEF Event
    <3>5. MarkedBy(p, v)
      BY <1>b, <3>3, <3>4 DEF MarkedBy
    <3>6. \A k \in Lane : \A i \in 1 .. Len(fifo'[k]) : MarkedBy(p, fifo'[k][i])
      BY <1>p, <3>2, <3>3, <3>5, MapAppend
    <3>7. QED
      BY <1>2, <1>p, <3>6, PacketFrame, Zenon
  <2>3. QED
    BY <2>1, <2>2
<1>3. CASE WriteEvent0
  <2>1. /\ WriteIfMatch(0) /\ pPc # "read" /\ pPc' # "read" /\ pLast' = pLast
        /\ UNCHANGED <<pPkt, pBeat, cBeat, cPkt, closed, count, reg, lane, packetDone, cPc>>
    BY <1>3 DEF WriteEvent0
  <2>2. QED
    BY <1>2, <1>a, <2>1
<1>4. CASE WriteEvent1
  <2>1. /\ WriteIfMatch(1) /\ pPc # "read" /\ pPc' # "read" /\ pLast' = pLast
        /\ UNCHANGED <<pPkt, pBeat, cBeat, cPkt, closed, count, reg, lane, packetDone, cPc>>
    BY <1>4 DEF WriteEvent1
  <2>2. QED
    BY <1>2, <1>a, <2>1
<1>5. CASE WriteMarker0
  <2>1. /\ fifo' = [fifo EXCEPT ![0] = Append(@, m)] /\ pPc # "read" /\ pPc' # "read" /\ pLast' = pLast
        /\ UNCHANGED <<pPkt, pBeat, cBeat, cPkt, closed, count, reg, lane, packetDone, cPc>>
    BY <1>5, <1>m DEF WriteMarker0
  <2>2. \A k \in Lane : \A i \in 1 .. Len(fifo'[k]) : MarkedBy(p, fifo'[k][i])
    BY <1>a, <1>p, <1>n, <2>1, MapAppend
  <2>3. QED
    BY <1>p, <2>1, <2>2, PacketFrame, Zenon
<1>6. CASE WriteMarker1
  <2>1. /\ fifo' = [fifo EXCEPT ![1] = Append(@, m)] /\ pPc = "mark1" /\ pPc' = "read"
        /\ pPkt' = (IF pLast THEN pPkt + 1 ELSE pPkt) /\ pBeat' = pBeat + 1
        /\ UNCHANGED <<cBeat, cPkt, closed, count, reg, lane, packetDone, cPc>>
    BY <1>6, <1>m DEF WriteMarker1
  <2>2. \A k \in Lane : \A i \in 1 .. Len(fifo'[k]) : MarkedBy(p, fifo'[k][i])
    BY <1>a, <1>p, <1>n, <2>1, MapAppend
  <2>3. Known' = Known /\ p[pBeat'] = pPkt'
    BY <1>a, <1>b, <2>1 DEF Known
  <2>4. PacketMap(p)'
    BY <1>p, <2>1, <2>2, <2>3 DEF PacketMap
  <2>5. \E r \in [Nat -> Nat] : PacketMap(r)'
    BY <2>4
  <2>6. QED
    BY <2>1, <2>5 DEF PacketInv
<1>7. QED
  BY <1>1, <1>3, <1>4, <1>5, <1>6 DEF Producer

LEMMA PacketCollector ==
  ASSUME TypeInv, LanesOK, PacketInv, Collector
  PROVE  PacketInv'
<1> USE KernelAssumption DEF prodVars, ghostVars
<1>a. /\ Lane = {0, 1} /\ TypeOK /\ cBeat \in Nat /\ cPkt \in Nat /\ packetDone \in BOOLEAN
      /\ lane \in Lane /\ count \in Nat /\ fifo \in [Lane -> Seq(EventOrMarker)]
  BY DEF Lane, TypeInv, TypeOK
<1>p. PICK p \in [Nat -> Nat] : PacketMap(p)
  BY DEF PacketInv
<1>b. /\ closed = cPkt /\ (cPc = "close" => packetDone) /\ \A s \in 0 .. count - 1 : reg[s].pkt = cPkt
      /\ cPc \in {"drain", "emit"} => (packetDone <=> lane = 1 /\ p[cBeat + 1] = cPkt + 1)
      /\ p[cBeat] = IF cPc \in {"flush", "close"} /\ packetDone THEN cPkt + 1 ELSE cPkt
  BY <1>p DEF PacketInv, PacketMap
<1>c. PICK l \in Lane : l = lane
  BY <1>a
<1>1. ASSUME UNCHANGED <<pPc, pPkt, pBeat, pLast>>,
             \A k \in Lane : \A i \in 1 .. Len(fifo'[k]) : MarkedBy(p, fifo'[k][i]),
             cPc' \in {"drain", "emit"} =>
               (packetDone' <=> lane' = 1 /\ p[cBeat' + 1] = cPkt' + 1),
             p[cBeat'] = IF cPc' \in {"flush", "close"} /\ packetDone' THEN cPkt' + 1 ELSE cPkt'
      PROVE  \E r \in [Nat -> Nat] : PacketMap(r)'
  <2>1. Known' = Known
    BY <1>1 DEF Known
  <2>2. PacketMap(p)'
    BY <1>1, <1>p, <2>1 DEF PacketMap
  <2>3. QED
    BY <2>2
<1>2. ASSUME fifo' = fifo PROVE \A k \in Lane : \A i \in 1 .. Len(fifo'[k]) : MarkedBy(p, fifo'[k][i])
  BY <1>2, <1>p DEF PacketMap
<1>3. CASE StartPacket
  <2>1. /\ UNCHANGED <<fifo, pPc, pPkt, pBeat, pLast, cBeat, cPkt, count, reg, closed>>
        /\ cPc = "packet" /\ cPc' = "drain" /\ packetDone' = FALSE /\ lane' = 0
    BY <1>3 DEF StartPacket
  <2>2. p[cBeat'] = IF cPc' \in {"flush", "close"} /\ packetDone' THEN cPkt' + 1 ELSE cPkt'
    BY <1>b, <2>1
  <2>3. lane' # 1 /\ ~packetDone'
    BY <2>1
  <2>4. cPc' \in {"drain", "emit"} => (packetDone' <=> lane' = 1 /\ p[cBeat' + 1] = cPkt' + 1)
    BY <2>3, Zenon
  <2>5. \E r \in [Nat -> Nat] : PacketMap(r)'
    BY <1>1, <1>2, <2>1, <2>2, <2>4, Zenon
  <2>6. QED
    BY <1>b, <2>1, <2>5 DEF PacketInv
<1>4. CASE DrainMatch
  <2>1. PICK h : h = Head(fifo[l])
    OBVIOUS
  <2>2. /\ UNCHANGED <<pPc, pPkt, pBeat, pLast, cBeat, cPkt, closed, lane, packetDone>>
        /\ cPc = "drain" /\ cPc' \in {"drain", "emit"} /\ fifo[l] # << >>
        /\ fifo' = [fifo EXCEPT ![l] = Tail(@)]
        /\ reg' = [reg EXCEPT ![count] = h] /\ count' = count + 1
    BY <1>4, <1>c, <2>1 DEF DrainMatch
  <2>3. /\ \A k \in Lane : \A i \in 1 .. Len(fifo'[k]) : MarkedBy(p, fifo'[k][i])
        /\ MarkedBy(p, h)
    BY <1>p, <2>1, <2>2, MapTail
  <2>4. h.beat = cBeat
    BY <1>c, <2>1, <2>2, HeadIsCurrent
  <2>5. h.pkt = cPkt
    BY <1>b, <2>2, <2>3, <2>4 DEF MarkedBy
  <2>6. \A s \in 0 .. count' - 1 : reg'[s].pkt = cPkt'
    <3>1. count \in 0 .. Slots - 1 /\ reg \in [0 .. Slots - 1 -> Register]
      BY <1>a, <2>2 DEF TypeInv, TypeOK, ControlOK
    <3>2. reg'[count] = h /\ \A s \in 0 .. count - 1 : reg'[s] = reg[s]
      BY <2>2, <3>1
    <3>3. \A s \in 0 .. count' - 1 : s = count \/ s \in 0 .. count - 1
      BY <1>a, <2>2
    <3>4. QED
      BY <1>b, <2>2, <2>5, <3>2, <3>3
  <2>7. \E r \in [Nat -> Nat] : PacketMap(r)'
    BY <1>1, <1>b, <2>2, <2>3
  <2>8. QED
    BY <1>b, <2>2, <2>6, <2>7 DEF PacketInv
<1>5. CASE DrainMarker
  <2>1. PICK h : h = Head(fifo[l])
    OBVIOUS
  <2>2. /\ UNCHANGED <<pPc, pPkt, pBeat, pLast, cPkt, closed, count, reg>>
        /\ cPc = "drain" /\ fifo[l] # << >> /\ IsMarker(h)
        /\ fifo' = [fifo EXCEPT ![l] = Tail(@)]
        /\ packetDone' = (packetDone \/ h.control = 2)
    BY <1>5, <1>c, <2>1 DEF DrainMarker
  <2>3. /\ \A k \in Lane : \A i \in 1 .. Len(fifo'[k]) : MarkedBy(p, fifo'[k][i])
        /\ MarkedBy(p, h)
    BY <1>p, <2>1, <2>2, MapTail
  <2>4. h.beat = cBeat
    BY <1>c, <2>1, <2>2, HeadIsCurrent
  <2>5. p[cBeat] = cPkt /\ p[cBeat + 1] = cPkt + (IF h.control = 2 THEN 1 ELSE 0)
    <3>1. p[cBeat] = cPkt
      BY <1>b, <2>2
    <3>2. p[cBeat + 1] = p[cBeat] + (IF h.control = 2 THEN 1 ELSE 0)
      BY <2>2, <2>3, <2>4, Zenon DEF MarkedBy
    <3>3. QED
      BY <3>1, <3>2
  <2>6. p[cBeat + 1] = cPkt + 1 <=> h.control = 2
    BY <1>a, <2>5
  <2>7. CASE l = 0
    <3>1. lane' = 1 /\ cPc' = cPc /\ cBeat' = cBeat
      BY <1>5, <1>c, <2>7 DEF DrainMarker
    <3>2. packetDone' <=> h.control = 2
      <4>1. lane # 1
        BY <1>c, <2>7
      <4>2. ~packetDone
        BY <1>b, <2>2, <4>1
      <4>3. QED
        BY <2>2, <4>2, Zenon
    <3>3. \E r \in [Nat -> Nat] : PacketMap(r)'
      BY <1>1, <1>b, <2>2, <2>3, <2>6, <3>1, <3>2
    <3>4. QED
      BY <1>b, <2>2, <3>1, <3>3 DEF PacketInv
  <2>8. CASE l = 1
    <3>1. /\ lane' = 0 /\ cBeat' = cBeat + 1
          /\ cPc' = CASE count > 0                 -> "flush"
                      [] count = 0 /\ packetDone'  -> "close"
                      [] count = 0 /\ ~packetDone' -> "drain"
      <4>1. lane = 1 /\ lane # 0
        BY <1>c, <2>8
      <4>2. QED
        BY <1>5, <4>1, Zenon DEF DrainMarker
    <3>2. packetDone' = packetDone /\ (packetDone <=> h.control = 2) /\ packetDone' \in BOOLEAN
      BY <1>a, <1>b, <1>c, <2>2, <2>6, <2>8
    <3>3. p[cBeat'] = IF packetDone' THEN cPkt + 1 ELSE cPkt
      <4>1. cBeat' = cBeat + 1 /\ p[cBeat + 1] = cPkt + (IF h.control = 2 THEN 1 ELSE 0)
        BY <2>5, <3>1
      <4>2. CASE packetDone'
        <5>1. h.control = 2
          BY <3>2, <4>2, Zenon
        <5>2. QED
          BY <4>1, <4>2, <5>1
      <4>3. CASE ~packetDone'
        <5>1. h.control # 2
          BY <3>2, <4>3, Zenon
        <5>2. QED
          BY <1>a, <4>1, <4>3, <5>1
      <4>4. QED
        BY <4>2, <4>3
    <3>4. \/ cPc' = "flush"
          \/ cPc' = "close" /\ packetDone'
          \/ cPc' = "drain" /\ ~packetDone'
      <4>1. count > 0 \/ count = 0
        BY <1>a
      <4>2. CASE count > 0
        <5>1. ~(count = 0)
          BY <1>a, <4>2
        <5>2. QED
          BY <3>1, <4>2, <5>1
      <4>3. CASE count = 0
        <5>1. ~(count > 0)
          BY <4>3
        <5>2. QED
          BY <3>1, <3>2, <4>3, <5>1
      <4>4. QED
        BY <4>1, <4>2, <4>3
    <3>5. \E r \in [Nat -> Nat] : PacketMap(r)'
      <4>1. cPc' \in {"drain", "emit"} => (packetDone' <=> lane' = 1 /\ p[cBeat' + 1] = cPkt' + 1)
        <5>1. lane' # 1
          BY <3>1
        <5>2. SUFFICES ASSUME cPc' \in {"drain", "emit"} PROVE ~packetDone'
          BY <5>1, Zenon
        <5>3. cPc' # "flush" /\ cPc' # "close"
          BY <5>2
        <5>4. QED
          BY <3>4, <5>3, Zenon
      <4>2. p[cBeat'] = IF cPc' \in {"flush", "close"} /\ packetDone' THEN cPkt' + 1 ELSE cPkt'
        BY <2>2, <3>3, <3>4
      <4>3. QED
        BY <1>1, <2>2, <2>3, <4>1, <4>2
    <3>6. QED
      BY <1>b, <2>2, <3>4, <3>5 DEF PacketInv
  <2>9. QED
    BY <1>a, <2>7, <2>8
<1>6. CASE EmitFull \/ FlushPartial
  <2>1. /\ UNCHANGED <<fifo, pPc, pPkt, pBeat, pLast, cBeat, cPkt, closed, lane, packetDone>>
        /\ count' = 0
    BY <1>6 DEF EmitFull, FlushPartial, SendRegisters
  <2>2. \/ cPc = "emit" /\ cPc' = "drain"
        \/ cPc = "flush" /\ cPc' = (IF packetDone THEN "close" ELSE "drain")
    BY <1>6 DEF EmitFull, FlushPartial
  <2>3. cPc = "flush" => lane = 0
    BY DEF TypeInv, ControlOK
  <2>4. \E r \in [Nat -> Nat] : PacketMap(r)'
    <3>1. cPc' \in {"drain", "emit"} => (packetDone' <=> lane' = 1 /\ p[cBeat' + 1] = cPkt' + 1)
      BY <1>b, <2>1, <2>2, <2>3
    <3>2. p[cBeat'] = IF cPc' \in {"flush", "close"} /\ packetDone' THEN cPkt' + 1 ELSE cPkt'
      BY <1>b, <2>1, <2>2
    <3>3. QED
      BY <1>1, <1>2, <2>1, <3>1, <3>2
  <2>5. QED
    BY <1>b, <2>1, <2>2, <2>4 DEF PacketInv
<1>7. CASE ClosePacket
  <2>1. /\ UNCHANGED <<fifo, pPc, pPkt, pBeat, pLast, cBeat, lane, packetDone, count, reg>>
        /\ cPc = "close" /\ cPc' = "packet" /\ cPkt' = cPkt + 1 /\ closed' = closed + 1
    BY <1>7 DEF ClosePacket
  <2>2. count = 0
    BY <2>1 DEF TypeInv, ControlOK
  <2>3. \E r \in [Nat -> Nat] : PacketMap(r)'
    BY <1>1, <1>2, <1>b, <2>1
  <2>4. QED
    BY <1>b, <2>1, <2>2, <2>3 DEF PacketInv
<1>8. QED
  BY <1>3, <1>4, <1>5, <1>6, <1>7 DEF Collector

LEMMA PacketStep == TypeInv /\ LanesOK /\ PacketInv /\ [Next]_vars => PacketInv'
<1> SUFFICES ASSUME TypeInv, LanesOK, PacketInv, TakeBeat \/ UNCHANGED vars PROVE PacketInv'
  BY PacketProducer, PacketCollector DEF Next, Idle
<1>1. UNCHANGED <<fifo, pPc, pPkt, pBeat, pLast, cPc, cBeat, cPkt, closed, lane, packetDone, count, reg>>
  BY DEF TakeBeat, vars, prodVars, collVars, ghostVars
<1>2. PICK p \in [Nat -> Nat] : PacketMap(p)
  BY DEF PacketInv
<1>3. \A l \in Lane : \A k \in 1 .. Len(fifo'[l]) : MarkedBy(p, fifo'[l][k])
  BY <1>1, <1>2 DEF PacketMap
<1>4. QED
  BY <1>1, <1>2, <1>3, PacketFrame

LEMMA PacketInvariant ==
  Spec => [](TypeInv /\ LanesOK /\ InputInv /\ FoundInv /\ OrderInv /\ PacketInv)
BY SearchInvariant, PacketInit, PacketStep, PTL DEF Spec

----------------------------------------------------------------------------
(***************************************************************************)
(* The kernel implements PacketReport.                                     *)
(***************************************************************************)
\* The producer finds one match at most in a step, and it is new and in a packet that
\* is still open.
LEMMA FindOrNothing ==
  ASSUME TypeInv, LanesOK, InputInv, FoundInv, PacketInv,
         NEW l \in Lane, WriteIfMatch(l), pPc # "read",
         Written(l) = pBeat, PairsPassed(l) = pPair, UNCHANGED <<reported, closed>>
  PROVE  UNCHANGED Report!vars \/ \E m \in Match : Report!Find(m)
<1>1. CASE ids[l] = 0
  BY <1>1 DEF WriteIfMatch, Report!vars
<1>2. CASE ids[l] # 0
  <2>1. PICK m : m = Event(l)
    OBVIOUS
  <2>2. found' = found \cup {m}
    BY <1>2, <2>1 DEF WriteIfMatch
  <2>3. /\ m \in Match /\ m.lane = l /\ m.beat = pBeat
        /\ m.byte_index = pBase * 2 * BeatPairs + 2 * pPair + l /\ m.pkt = pPkt
    BY <1>2, <2>1, EventInMatch DEF Event
  <2>4. m \notin found
    <3>1. SUFFICES ASSUME m \in found PROVE FALSE
      OBVIOUS
    <3>2. m.byte_index < NextByte(l)
      BY <2>3, <3>1 DEF FoundInv
    <3>3. pBase * 2 * BeatPairs \in Nat /\ pPair \in Nat /\ l \in Nat
      BY KernelAssumption DEF TypeInv, TypeOK, Lane
    <3> DEFINE x == pBase * 2 * BeatPairs
    <3>4. x \in Nat /\ NextByte(l) = x + 2 * pPair /\ m.byte_index = x + 2 * pPair + l
      BY <2>3, <3>3 DEF NextByte
    <3> HIDE DEF x
    <3>5. QED
      BY <3>2, <3>3, <3>4
  <2>5. m.pkt >= closed
    <3>1. PICK p \in [Nat -> Nat] : PacketMap(p)
      BY DEF PacketInv
    <3>2. cBeat \in 0 .. Known /\ pBeat \in 0 .. Known /\ cBeat <= pBeat
      BY BeatsKnown
    <3>3. p[cBeat] <= p[pBeat] /\ p[pBeat] = pPkt
      BY <3>1, <3>2 DEF PacketMap
    <3>4. p[cBeat] >= cPkt /\ closed = cPkt /\ cPkt \in Nat /\ pPkt \in Nat
      BY <3>1 DEF PacketMap, PacketInv, TypeInv, TypeOK
    <3>5. QED
      BY <2>3, <3>3, <3>4, <3>2
  <2>6. Report!Find(m)
    BY <2>2, <2>4, <2>5 DEF Report!Find
  <2>7. QED
    BY <2>3, <2>6
<1>3. QED
  BY <1>1, <1>2

\* An output beat reports matches of the open packet that were not reported before.
LEMMA SendReports ==
  ASSUME TypeInv, FoundInv, OrderInv, PacketInv, SendRegisters, UNCHANGED <<found, closed>>
  PROVE  UNCHANGED Report!vars \/ \E S \in SUBSET (found \ reported) : Report!Report(S)
<1> USE KernelAssumption
<1>1. reported' = reported \cup Held
  BY DEF SendRegisters, Held
<1>2. CASE Held = {}
  BY <1>1, <1>2 DEF Report!vars
<1>3. CASE Held # {}
  <2>1. count \in Nat /\ count <= Slots /\ Slots \in Nat
    BY DEF TypeInv, TypeOK
  <2>2. Cardinality(Held) <= Slots
    <3> DEFINE I == 0 .. count - 1
               f == [s \in I |-> reg[s]]
    <3>1. IsFiniteSet(I) /\ Cardinality(I) = count
      <4>1. 0 \in Int /\ count - 1 \in Int /\ (0 > count - 1 <=> count = 0)
            /\ (count # 0 => count - 1 - 0 + 1 = count)
        BY <2>1
      <4>2. QED
        BY <2>1, <4>1, FS_Interval
    <3>2. f \in Surjection(I, Held)
      BY DEF Held, Surjection
    <3>3. Cardinality(Held) <= Cardinality(I) /\ Cardinality(Held) \in Nat
      BY <3>1, <3>2, FS_Surjection, FS_CardinalityType
    <3>4. QED
      BY <2>1, <3>1, <3>3
  <2>3. Held \subseteq found \ reported
    <3>1. Held \subseteq found
      BY DEF FoundInv, Drained
    <3>2. ASSUME NEW e \in reported, e \in Held PROVE FALSE
      <4>1. Precedes(e, e)
        BY <3>2 DEF OrderInv
      <4>2. e.beat \in Nat /\ e.lane \in Nat /\ e.byte_index \in Nat
        BY <3>1, <3>2 DEF FoundInv, Match, Lane
      <4>3. QED
        BY <4>1, <4>2 DEF Precedes
    <3>3. QED
      BY <3>1, <3>2
  <2>4. \A m \in Held : m.pkt = closed
    BY DEF Held, PacketInv
  <2>5. Report!Report(Held)
    <3>1. reported' = reported \cup Held /\ found' = found /\ closed' = closed
      BY <1>1
    <3>2. Report!Cardinality(Held) = Cardinality(Held)
      BY Zenon DEF Report!Cardinality, Cardinality
    <3>3. QED
      BY <1>3, <2>2, <2>3, <2>4, <3>1, <3>2 DEF Report!Report
  <2>6. QED
    BY <2>3, <2>5
<1>4. QED
  BY <1>2, <1>3

\* A packet is closed when all its matches have been reported.
LEMMA CloseCloses ==
  ASSUME TypeInv, LanesOK, FoundInv, PacketInv, ClosePacket
  PROVE  Report!Close
<1> USE DEF prodVars
<1>1. cPc = "close" /\ closed' = closed + 1 /\ UNCHANGED <<found, reported>>
  BY DEF ClosePacket
<1>2. PICK p \in [Nat -> Nat] : PacketMap(p)
  BY DEF PacketInv
<1>3. count = 0 /\ cPkt \in Nat /\ closed = cPkt /\ packetDone
  BY <1>1 DEF TypeInv, TypeOK, ControlOK, PacketInv
<1>4. p[cBeat] = cPkt + 1
  BY <1>1, <1>2, <1>3 DEF PacketMap
<1>5. Drained = reported
  BY <1>3 DEF Drained, Held
<1>6. ASSUME NEW l \in Lane, NEW m \in Matches(fifo[l]) PROVE m.pkt # closed
  <2>1. PICK k \in 1 .. Len(fifo[l]) : m = fifo[l][k]
    BY DEF Matches
  <2>2. m.beat \in Nat /\ cBeat <= m.beat /\ m.beat <= Known /\ cBeat \in Nat /\ Known \in Nat
    BY <2>1, BeatsKnown
  <2>3. cBeat \in 0 .. Known /\ m.beat \in 0 .. Known
    BY <2>2
  <2>4. p[cBeat] <= p[m.beat]
    BY <1>2, <2>2, <2>3 DEF PacketMap
  <2>5. m.pkt = p[m.beat] /\ p[m.beat] \in Nat
    BY <1>2, <2>1, <2>2 DEF PacketMap, MarkedBy
  <2>6. QED
    BY <1>3, <1>4, <2>4, <2>5
<1>7. \A m \in found : m.pkt = closed => m \in reported
  BY <1>5, <1>6 DEF FoundInv, Lane
<1>8. QED
  BY <1>1, <1>7 DEF Report!Close

LEMMA ReportStep ==
  TypeInv /\ LanesOK /\ InputInv /\ FoundInv /\ OrderInv /\ PacketInv /\ [Next]_vars
    => [Report!Next]_(Report!vars)
<1> SUFFICES ASSUME TypeInv, LanesOK, InputInv, FoundInv, OrderInv, PacketInv, [Next]_vars
             PROVE  Report!Next \/ UNCHANGED Report!vars
  OBVIOUS
<1> USE DEF prodVars, collVars, ghostVars
<1>a. ASSUME NEW m \in Match, Report!Find(m) PROVE Report!Next
  BY <1>a DEF Report!Next, Match
<1>1. CASE WriteEvent0
  <2>1. /\ WriteIfMatch(0) /\ pPc # "read" /\ Written(0) = pBeat /\ PairsPassed(0) = pPair
        /\ UNCHANGED <<reported, closed>> /\ 0 \in Lane
    BY <1>1 DEF WriteEvent0, Written, PairsPassed, Lane
  <2>2. QED
    BY <1>a, <2>1, FindOrNothing
<1>2. CASE WriteEvent1
  <2>1. /\ WriteIfMatch(1) /\ pPc # "read" /\ Written(1) = pBeat /\ PairsPassed(1) = pPair
        /\ UNCHANGED <<reported, closed>> /\ 1 \in Lane
    BY <1>2 DEF WriteEvent1, Written, PairsPassed, Lane
  <2>2. QED
    BY <1>a, <2>1, FindOrNothing
<1>3. CASE EmitFull \/ FlushPartial
  <2>1. SendRegisters /\ UNCHANGED <<found, closed>>
    BY <1>3 DEF EmitFull, FlushPartial
  <2>2. QED
    BY <2>1, SendReports DEF Report!Next
<1>4. CASE ClosePacket
  BY <1>4, CloseCloses DEF Report!Next
<1>5. CASE ReadBeat \/ WriteMarker0 \/ WriteMarker1 \/ StartPacket \/ DrainMatch \/ DrainMarker
           \/ TakeBeat \/ UNCHANGED vars
  BY <1>5 DEF ReadBeat, WriteMarker0, WriteMarker1, StartPacket, DrainMatch, DrainMarker,
              TakeBeat, vars, Report!vars
<1>6. QED
  BY <1>1, <1>2, <1>3, <1>4, <1>5 DEF Next, Producer, Collector, Idle

\* The two processes, their FIFOs and their registers together keep the promise of
\* PacketReport: every match is reported once, in an output beat of its packet, and a
\* packet is closed only when all that was found in it has been reported
\* (krnl_proj.cpp:10-148).
THEOREM ImplementsReport == Spec => ReportSpec
<1>1. Init => Report!Init
  BY DEF Init, Report!Init
<1>2. QED
  BY <1>1, PacketInvariant, ReportStep, PTL DEF Spec, ReportSpec, Report!Spec
=============================================================================

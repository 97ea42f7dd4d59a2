----------------------- MODULE ProjectPipelineProofs -----------------------
(***************************************************************************)
(* The three kernels in a row for any sizes of beats, packets, buffers and *)
(* streams: no kernel counts past what the host asked for, the report      *)
(* buffer holds a prefix of the report and the packets that kernels and    *)
(* host count are the same.                                                *)
(***************************************************************************)
EXTENDS ProjectPipeline, SequenceTheorems, FiniteSetTheorems, TLAPS

Report == {"matches", "close"}

----------------------------------------------------------------------------
(***************************************************************************)
(* Arithmetic                                                              *)
(***************************************************************************)
\* The quotient is what is left of a number when it is taken in steps of d.
LEMMA Quotient ==
  ASSUME NEW n \in Nat, NEW d \in Nat \ {0}
  PROVE  /\ n \div d \in Nat
         /\ (n \div d) * d <= n
         /\ n < (n \div d) * d + d
OBVIOUS

LEMMA TimesMonotone ==
  ASSUME NEW a \in Nat, NEW b \in Nat, NEW d \in Nat \ {0}, a <= b
  PROVE  a * d <= b * d /\ a * d \in Nat
OBVIOUS

LEMMA OneMore ==
  ASSUME NEW a \in Nat, NEW d \in Nat
  PROVE  (a + 1) * d = a * d + d
OBVIOUS

\* What a buffer of n bytes holds of beats of d.
LEMMA Room ==
  ASSUME NEW n \in Nat, NEW d \in Nat \ {0}, NEW k \in Nat
  PROVE  k < n \div d <=> (k + 1) * d <= n
<1> DEFINE q == n \div d
<1>1. q \in Nat /\ q * d <= n /\ n < q * d + d
  BY Quotient
<1> HIDE DEF q
<1>2. ASSUME k < q PROVE (k + 1) * d <= n
  <2>1. (k + 1) * d <= q * d
    BY <1>1, <1>2, TimesMonotone
  <2>2. (k + 1) * d \in Nat /\ q * d \in Nat
    BY <1>1
  <2> QED
    BY <1>1, <2>1, <2>2
<1>3. ASSUME ~(k < q) PROVE n < (k + 1) * d
  <2>1. q * d <= k * d /\ q * d \in Nat /\ k * d \in Nat
    BY <1>1, <1>3, TimesMonotone
  <2>2. (k + 1) * d = k * d + d
    BY OneMore
  <2> QED
    BY <1>1, <2>1, <2>2
<1>4. (k + 1) * d \in Nat
  OBVIOUS
<1> QED
  BY <1>2, <1>3, <1>4 DEF q

\* The product in bits fits as long as the end of the beat in bits does.
LEMMA NoWrap ==
  ASSUME NEW n \in Nat, NEW m \in Nat \ {0}, n * 8 < m
  PROVE  ((n * 8) % m) \div 8 = n
<1>1. n * 8 \in Nat /\ (n * 8) % m = n * 8
  OBVIOUS
<1>2. (n * 8) \div 8 = n
  OBVIOUS
<1> QED
  BY <1>1, <1>2

----------------------------------------------------------------------------
(***************************************************************************)
(* Type correctness.  A packet is closed by the last beat of a backlog, so *)
(* that krnl_proj, which looks at its count before it scans a beat, does   *)
(* not count past num_packets when it writes the report of the beat.       *)
(***************************************************************************)
ClosesOnce ==
  \A k \in 1 .. Len(backlog) :
    backlog[k] = "close" => k = Len(backlog) /\ projPkt < num_packets

PipelineInv == TypeOK /\ ClosesOnce

LEMMA SizesAreNumbers ==
  ASSUME size \in Sizes
  PROVE  size \in Nat /\ Beats \in Nat /\ num_packets \in Nat /\ size_out \in Nat
<1>1. size \in Nat /\ BeatBytes \in Nat \ {0} /\ PacketBytes \in Nat \ {0} /\ OutFactor \in Nat
  BY PipelineAssumption
<1>2. size + PacketBytes - 1 \in Nat
  BY <1>1
<1>3. Beats \in Nat /\ num_packets \in Nat
  BY <1>1, <1>2, Quotient DEF Beats, num_packets, NumPackets
<1>4. size_out \in Nat
  BY <1>1 DEF size_out
<1> QED
  BY <1>1, <1>3, <1>4

\* The report of a beat: the closing beat, if there is one, is its last.
LEMMA ReportShape ==
  ASSUME NEW n \in 0 .. MaxMatches, NEW last \in BOOLEAN
  PROVE  /\ ReportOf(n, last) \in Seq(Report)
         /\ \A k \in 1 .. Len(ReportOf(n, last)) :
              ReportOf(n, last)[k] = "close" => k = Len(ReportOf(n, last))
<1> DEFINE q == (n + Slots - 1) \div Slots
           matches == [b \in 1 .. q |-> "matches"]
           close == IF last THEN <<"close">> ELSE << >>
<1>1. q \in Nat
  BY PipelineAssumption, Quotient
<1> HIDE DEF q
<1>2. matches \in Seq(Report) /\ Len(matches) = q /\ \A k \in 1 .. q : matches[k] = "matches"
  BY <1>1 DEF Report
<1>3. close \in Seq(Report) /\ Len(close) \in {0, 1}
  <2>1. CASE last
    BY <2>1 DEF Report
  <2>2. CASE ~last
    BY <2>2 DEF Report
  <2> QED
    BY <2>1, <2>2
<1>4. ReportOf(n, last) = matches \o close
  BY DEF ReportOf, q
<1> HIDE DEF matches, close
<1>5. /\ matches \o close \in Seq(Report)
      /\ Len(matches \o close) = q + Len(close)
      /\ \A k \in 1 .. q : (matches \o close)[k] = "matches"
  BY <1>1, <1>2, <1>3, ConcatProperties
<1> QED
  BY <1>1, <1>3, <1>4, <1>5

LEMMA PipelineInitially == Init => PipelineInv
<1> SUFFICES ASSUME Init PROVE PipelineInv
  OBVIOUS
<1>1. size \in Sizes /\ Beats \in Nat /\ num_packets \in Nat
  BY SizesAreNumbers DEF Init
<1>2. StreamDepth \in Nat
  BY PipelineAssumption
<1> QED
  BY <1>1, <1>2 DEF Init, PipelineInv, TypeOK, ClosesOnce

LEMMA PipelineStep == PipelineInv /\ [Next]_vars => PipelineInv'
<1> SUFFICES ASSUME PipelineInv, [Next]_vars PROVE PipelineInv'
  OBVIOUS
<1> USE DEF PipelineInv
<1>0. /\ TypeOK /\ ClosesOnce
      /\ size \in Sizes /\ Beats \in Nat /\ num_packets \in Nat
      /\ StreamDepth \in Nat \ {0}
  BY SizesAreNumbers, PipelineAssumption DEF TypeOK
<1>1. CASE SendBeat
  <2>1. Last(i) \in BOOLEAN
    BY DEF Last
  <2>2. n2k' \in Seq(BOOLEAN) /\ Len(n2k') <= StreamDepth
    BY <1>0, <1>1, <2>1 DEF SendBeat, TypeOK
  <2>3. i' \in 0 .. Beats
    BY <1>0, <1>1 DEF SendBeat, TypeOK
  <2> QED
    BY <1>0, <1>1, <2>2, <2>3 DEF SendBeat, TypeOK, ClosesOnce, Beats, num_packets
<1>2. CASE ScanBeat
  <2>1. PICK n \in 0 .. MaxMatches : backlog' = ReportOf(n, Head(n2k))
    BY <1>2 DEF ScanBeat
  <2>2. Head(n2k) \in BOOLEAN /\ n2k' \in Seq(BOOLEAN) /\ Len(n2k') <= StreamDepth
    BY <1>0, <1>2 DEF ScanBeat, TypeOK
  <2>3. /\ backlog' \in Seq(Report)
        /\ \A k \in 1 .. Len(backlog') : backlog'[k] = "close" => k = Len(backlog')
    BY <2>1, <2>2, ReportShape
  <2>4. projPkt' < num_packets' /\ size' = size
    BY <1>2 DEF ScanBeat, num_packets
  <2> QED
    BY <1>0, <1>2, <2>2, <2>3, <2>4
       DEF ScanBeat, TypeOK, ClosesOnce, Beats, num_packets, Report
<1>3. CASE WriteReport
  <2>1. /\ backlog \in Seq(Report) /\ Len(backlog) \in Nat \ {0}
        /\ Head(backlog) = backlog[1] /\ Head(backlog) \in Report
    BY <1>0, <1>3 DEF WriteReport, TypeOK, Report
  <2>2. /\ backlog' = Tail(backlog) /\ backlog' \in Seq(Report)
        /\ Len(backlog') = Len(backlog) - 1
        /\ \A k \in 1 .. Len(backlog') : backlog'[k] = backlog[k + 1]
    BY <1>3, <2>1 DEF WriteReport
  <2>3. k2n' \in Seq(Report) /\ Len(k2n') <= StreamDepth
    BY <1>0, <1>3, <2>1 DEF WriteReport, TypeOK, Report
  <2>4. projPkt' \in 0 .. num_packets
    BY <1>0, <1>3, <2>1 DEF WriteReport, TypeOK, ClosesOnce
  <2>5. ClosesOnce'
    <3> SUFFICES ASSUME NEW k \in 1 .. Len(backlog'), backlog'[k] = "close"
                 PROVE  k = Len(backlog') /\ projPkt' < num_packets'
      BY DEF ClosesOnce
    <3>1. k + 1 \in 1 .. Len(backlog) /\ backlog[k + 1] = "close"
      BY <2>1, <2>2
    <3>2. k + 1 = Len(backlog) /\ projPkt < num_packets
      BY <1>0, <3>1 DEF ClosesOnce
    <3>3. Head(backlog) # "close"
      BY <1>0, <2>1, <3>2 DEF ClosesOnce
    <3>4. projPkt' = projPkt /\ num_packets' = num_packets
      BY <1>3, <3>3 DEF WriteReport, num_packets
    <3>5. k = Len(backlog')
      <4>1. k \in Nat /\ Len(backlog) \in Nat /\ Len(backlog') = Len(backlog) - 1
        BY <2>1, <2>2
      <4> HIDE DEF PipelineInv
      <4> QED
        BY <3>2, <4>1
    <3> QED
      BY <3>2, <3>4, <3>5
  <2> QED
    BY <1>0, <1>3, <2>2, <2>3, <2>4, <2>5
       DEF WriteReport, TypeOK, Beats, num_packets, Report
<1>4. CASE StoreBeat
  <2>1. Head(k2n) \in Report /\ k2n' \in Seq(Report) /\ Len(k2n') <= StreamDepth
    BY <1>0, <1>4 DEF StoreBeat, TypeOK, Report
  <2>2. delivered' \in Seq(Report) /\ out' \in Seq(Report)
    BY <1>0, <1>4, <2>1 DEF StoreBeat, TypeOK, Report
  <2>3. p' \in 0 .. num_packets
    BY <1>0, <1>4 DEF StoreBeat, TypeOK
  <2> QED
    BY <1>0, <1>4, <2>1, <2>2, <2>3
       DEF StoreBeat, TypeOK, ClosesOnce, Beats, num_packets, Report
<1>5. CASE UNCHANGED vars
  BY <1>0, <1>5 DEF vars, TypeOK, ClosesOnce, Beats, num_packets
<1> QED
  BY <1>1, <1>2, <1>3, <1>4, <1>5 DEF Next, Idle

\* For any sizes no kernel counts more beats or packets than the host asked for.
THEOREM TypeCorrect == Spec => []TypeOK
<1>1. PipelineInv => TypeOK
  BY DEF PipelineInv
<1> QED
  BY <1>1, PipelineInitially, PipelineStep, PTL DEF Spec

----------------------------------------------------------------------------
(***************************************************************************)
(* The report buffer.                                                      *)
(***************************************************************************)
PrefixInv == StoredIsPrefix /\ Len(out) <= Len(delivered)

LEMMA PrefixInitially == Init => PrefixInv
<1> SUFFICES ASSUME Init PROVE PrefixInv
  OBVIOUS
<1>1. size_out \in Nat /\ BeatBytes \in Nat
  BY SizesAreNumbers, PipelineAssumption DEF Init
<1>2. out = << >> /\ delivered = << >>
  BY DEF Init
<1> QED
  BY <1>1, <1>2 DEF PrefixInv, StoredIsPrefix

LEMMA PrefixStep == TypeOK /\ PrefixInv /\ [Next]_vars => PrefixInv'
<1> SUFFICES ASSUME TypeOK, PrefixInv, [Next]_vars PROVE PrefixInv'
  OBVIOUS
<1>1. CASE StoreBeat
  <2> DEFINE beat == Head(k2n)
  <2>1. /\ out \in Seq(Report) /\ delivered \in Seq(Report) /\ beat \in Report
        /\ Len(out) \in Nat /\ Len(delivered) \in Nat
        /\ size_out \in Nat /\ BeatBytes \in Nat \ {0}
    <3>1. out \in Seq(Report) /\ delivered \in Seq(Report)
      BY DEF TypeOK, Report
    <3>2. k2n \in Seq(Report) /\ k2n # << >>
      BY <1>1 DEF StoreBeat, TypeOK, Report
    <3>3. beat \in Report
      BY <3>2, HeadTailProperties
    <3>4. size_out \in Nat /\ BeatBytes \in Nat \ {0}
      BY SizesAreNumbers, PipelineAssumption DEF TypeOK
    <3>5. Len(out) \in Nat /\ Len(delivered) \in Nat
      BY <3>1, LenProperties
    <3> QED
      BY <3>1, <3>3, <3>4, <3>5
  <2>2. /\ delivered' = Append(delivered, beat) /\ size_out' = size_out
        /\ out' = IF Len(out) < size_out \div BeatBytes THEN Append(out, beat) ELSE out
    BY <1>1 DEF StoreBeat, size_out
  <2>3. /\ Len(out) * BeatBytes <= size_out /\ out = SubSeq(delivered, 1, Len(out))
        /\ Len(out) < Len(delivered) => (Len(out) + 1) * BeatBytes > size_out
        /\ Len(out) <= Len(delivered)
    BY DEF PrefixInv, StoredIsPrefix
  <2>4. Len(out) < size_out \div BeatBytes <=> (Len(out) + 1) * BeatBytes <= size_out
    BY <2>1, Room
  <2>5. (Len(out) + 1) * BeatBytes \in Nat
    BY <2>1
  <2> HIDE DEF beat
  <2>6. CASE Len(out) < size_out \div BeatBytes
    <3>1. Len(out) = Len(delivered) /\ out = delivered
      BY <2>1, <2>3, <2>4, <2>5, <2>6
    <3>2. out' = delivered' /\ Len(out') = Len(out) + 1 /\ out' \in Seq(Report)
      BY <2>1, <2>2, <2>6, <3>1
    <3>3. out' = SubSeq(delivered', 1, Len(out'))
      BY <3>2
    <3> QED
      BY <2>1, <2>2, <2>4, <2>6, <3>2, <3>3 DEF PrefixInv, StoredIsPrefix
  <2>7. CASE ~(Len(out) < size_out \div BeatBytes)
    <3>1. out' = out /\ Len(delivered') = Len(delivered) + 1
      BY <2>1, <2>2, <2>7
    <3>2. SubSeq(delivered', 1, Len(out)) = SubSeq(delivered, 1, Len(out))
      BY <2>1, <2>2, <2>3
    <3>3. (Len(out) + 1) * BeatBytes > size_out
      BY <2>1, <2>4, <2>5, <2>7
    <3>4. /\ Len(out') * BeatBytes <= size_out'
          /\ out' = SubSeq(delivered', 1, Len(out'))
      BY <2>2, <2>3, <3>1, <3>2
    <3>5. (Len(out') + 1) * BeatBytes > size_out'
      BY <2>2, <3>1, <3>3
    <3>6. Len(out') <= Len(delivered')
      BY <2>1, <2>3, <3>1
    <3> QED
      BY <3>4, <3>5, <3>6 DEF PrefixInv, StoredIsPrefix
  <2> QED
    BY <2>6, <2>7
<1>2. CASE SendBeat \/ ScanBeat \/ WriteReport \/ UNCHANGED vars
  <2>1. UNCHANGED <<size, out, delivered>>
    BY <1>2 DEF SendBeat, ScanBeat, WriteReport, vars
  <2> QED
    BY <2>1 DEF PrefixInv, StoredIsPrefix, size_out
<1> QED
  BY <1>1, <1>2 DEF Next, Idle

\* For any sizes and any matches: what krnl_s2mm stores is a prefix of what arrived,
\* as long as the buffer allows and no longer.
THEOREM StoredPrefix == Spec => []StoredIsPrefix
<1>1. PrefixInv => StoredIsPrefix
  BY DEF PrefixInv
<1> QED
  BY <1>1, TypeCorrect, PrefixInitially, PrefixStep, PTL DEF Spec

----------------------------------------------------------------------------
(***************************************************************************)
(* How many packets a buffer has                                           *)
(***************************************************************************)
\* The quotient is the only number that leaves a rest below the divisor.
LEMMA QuotientIs ==
  ASSUME NEW q \in Nat, NEW d \in Nat \ {0}, NEW rest \in 0 .. d - 1
  PROVE  (q * d + rest) \div d = q /\ (q * d + rest) % d = rest
<1> DEFINE n == q * d + rest
           t == n \div d
<1>1. q * d \in Nat /\ n \in Nat
  OBVIOUS
<1>2. t \in Nat /\ t * d <= n /\ n < t * d + d /\ t * d \in Nat
  BY <1>1, Quotient
<1>3. n % d = n - t * d
  BY <1>1
<1> HIDE DEF t
<1>4. ~(t < q)
  <2> SUFFICES ASSUME t < q PROVE FALSE
    OBVIOUS
  <2>1. (t + 1) * d <= q * d
    BY <1>2, TimesMonotone
  <2> QED
    BY <1>1, <1>2, <2>1, OneMore
<1>5. ~(q < t)
  <2> SUFFICES ASSUME q < t PROVE FALSE
    OBVIOUS
  <2>1. (q + 1) * d <= t * d
    BY <1>2, TimesMonotone
  <2> QED
    BY <1>1, <1>2, <2>1, OneMore
<1>6. t = q
  BY <1>2, <1>4, <1>5
<1> QED
  BY <1>1, <1>3, <1>6 DEF t

LEMMA QuotientAndRest ==
  ASSUME NEW n \in Nat, NEW d \in Nat \ {0}
  PROVE  /\ n \div d \in Nat /\ n % d \in 0 .. d - 1
         /\ n = (n \div d) * d + (n % d)
<1> DEFINE t == n \div d
           rest == n % d
<1>1. t \in Nat /\ t * d <= n /\ n < t * d + d /\ t * d \in Nat
  BY Quotient
<1>2. rest = n - t * d
  OBVIOUS
<1> HIDE DEF t, rest
<1>3. t \in Nat /\ rest \in 0 .. d - 1 /\ n = t * d + rest
  BY <1>1, <1>2
<1> QED
  BY <1>3 DEF t, rest

\* One more number passes one more multiple of d iff it is one.
LEMMA NextQuotient ==
  ASSUME NEW n \in Nat, NEW d \in Nat \ {0}
  PROVE  (n + 1) \div d = n \div d + (IF (n + 1) % d = 0 THEN 1 ELSE 0)
<1> DEFINE q == n \div d
           rest == n % d
<1>0. q \in Nat /\ rest \in 0 .. d - 1 /\ n = q * d + rest
  BY QuotientAndRest
<1> HIDE DEF q, rest
<1>1. q \in Nat /\ rest \in 0 .. d - 1 /\ n = q * d + rest /\ q * d \in Nat
  BY <1>0
<1>2. CASE rest = d - 1
  <2> DEFINE more == q + 1
  <2>1. n + 1 = more * d + 0 /\ more \in Nat /\ 0 \in 0 .. d - 1
    BY <1>1, <1>2, OneMore
  <2> HIDE DEF more
  <2>2. (more * d + 0) \div d = more /\ (more * d + 0) % d = 0
    BY <2>1, QuotientIs
  <2>3. (n + 1) \div d = q + 1 /\ (n + 1) % d = 0
    BY <2>1, <2>2 DEF more
  <2> QED
    BY <2>3 DEF q
<1>3. CASE rest # d - 1
  <2>1. n + 1 = q * d + (rest + 1) /\ rest + 1 \in 0 .. d - 1 /\ rest + 1 # 0
    BY <1>1, <1>3
  <2>2. (n + 1) \div d = q /\ (n + 1) % d # 0
    BY <1>1, <2>1, QuotientIs
  <2> QED
    BY <1>1, <2>2 DEF q
<1> QED
  BY <1>2, <1>3

\* The division rounded up.
LEMMA RoundedUp ==
  ASSUME NEW n \in Nat, NEW d \in Nat \ {0}
  PROVE  (n + d - 1) \div d = n \div d + (IF n % d = 0 THEN 0 ELSE 1)
<1> DEFINE q == n \div d
           rest == n % d
<1>0. q \in Nat /\ rest \in 0 .. d - 1 /\ n = q * d + rest
  BY QuotientAndRest
<1> HIDE DEF q, rest
<1>1. q \in Nat /\ rest \in 0 .. d - 1 /\ n = q * d + rest /\ q * d \in Nat
  BY <1>0
<1>2. CASE rest = 0
  <2>1. n + d - 1 = q * d + (d - 1) /\ d - 1 \in 0 .. d - 1
    BY <1>1, <1>2
  <2>2. (n + d - 1) \div d = q
    BY <1>1, <2>1, QuotientIs
  <2> QED
    BY <1>1, <1>2, <2>2 DEF q, rest
<1>3. CASE rest # 0
  <2> DEFINE more == q + 1
  <2>1. n + d - 1 = more * d + (rest - 1) /\ rest - 1 \in 0 .. d - 1 /\ more \in Nat
    BY <1>1, <1>3, OneMore
  <2> HIDE DEF more
  <2>2. (more * d + (rest - 1)) \div d = more
    BY <2>1, QuotientIs
  <2>3. (n + d - 1) \div d = q + 1
    BY <2>1, <2>2 DEF more
  <2> QED
    BY <1>1, <1>3, <2>3 DEF q, rest
<1> QED
  BY <1>2, <1>3

\* A packet in beats.
PacketBeats == PacketBytes \div BeatBytes

\* Beats and packets divide as their bytes do.
LEMMA InBeats ==
  /\ PacketBeats \in Nat \ {0}
  /\ \A k \in Nat : /\ k * BeatBytes \in Nat
                    /\ (k * BeatBytes) \div PacketBytes = k \div PacketBeats
                    /\ (k * BeatBytes) % PacketBytes = 0 <=> k % PacketBeats = 0
<1> DEFINE m == PacketBeats
<1>1. BeatBytes \in Nat \ {0} /\ PacketBytes \in Nat \ {0} /\ PacketBytes % BeatBytes = 0
  BY PipelineAssumption
<1>2. m \in Nat /\ PacketBytes = m * BeatBytes
  BY <1>1, QuotientAndRest DEF PacketBeats
<1>3. m # 0
  BY <1>1, <1>2
<1> HIDE DEF m
<1>4. ASSUME NEW k \in Nat
      PROVE  /\ k * BeatBytes \in Nat
             /\ (k * BeatBytes) \div PacketBytes = k \div m
             /\ (k * BeatBytes) % PacketBytes = 0 <=> k % m = 0
  <2> DEFINE q == k \div m
             rest == k % m
  <2>1. q \in Nat /\ rest \in 0 .. m - 1 /\ k = q * m + rest
    BY <1>2, <1>3, QuotientAndRest
  <2> HIDE DEF q, rest
  <2>2. rest * BeatBytes \in Nat /\ (rest = 0 <=> rest * BeatBytes = 0)
    BY <1>1, <2>1
  <2>3. rest * BeatBytes < PacketBytes
    <3>1. rest + 1 \in Nat /\ rest + 1 <= m /\ rest \in Nat
      BY <1>2, <2>1
    <3>2. (rest + 1) * BeatBytes <= m * BeatBytes /\ (rest + 1) * BeatBytes = rest * BeatBytes + BeatBytes
      BY <1>1, <1>2, <3>1, TimesMonotone, OneMore
    <3> QED
      BY <1>1, <1>2, <2>2, <3>2
  <2>4. k * BeatBytes = q * PacketBytes + rest * BeatBytes
    BY <1>1, <1>2, <2>1
  <2>5. rest * BeatBytes \in 0 .. PacketBytes - 1
    BY <1>1, <2>2, <2>3
  <2> DEFINE z == rest * BeatBytes
  <2> HIDE DEF z
  <2>6. /\ (q * PacketBytes + z) \div PacketBytes = q
        /\ (q * PacketBytes + z) % PacketBytes = z
    BY <1>1, <2>1, <2>5, QuotientIs DEF z
  <2>7. k * BeatBytes \in Nat
    BY <1>1
  <2> QED
    BY <2>2, <2>4, <2>6, <2>7 DEF q, rest, z
<1> QED
  BY <1>2, <1>3, <1>4 DEF m

\* As long as the buffer in bits fits, the test of the kernel is the one the comment
\* beside it gives.
LEMMA PacketEndExact ==
  ASSUME size \in Sizes, size * 8 < Modulus, NEW k \in Nat, k < Beats
  PROVE  AtPacketEnd(k) <=> ((k + 1) * BeatBytes) % PacketBytes = 0
<1>1. size \in Nat /\ BeatBytes \in Nat \ {0} /\ Modulus \in Nat \ {0}
  BY SizesAreNumbers, PipelineAssumption
<1> DEFINE bytes == (k + 1) * BeatBytes
<1>2. bytes \in Nat /\ bytes <= size
  BY <1>1, Room DEF Beats
<1> HIDE DEF bytes
<1>3. bytes * 8 < Modulus
  BY <1>1, <1>2
<1>4. ((bytes * 8) % Modulus) \div 8 = bytes
  BY <1>1, <1>2, <1>3, NoWrap
<1> QED
  BY <1>4 DEF AtPacketEnd, bytes

----------------------------------------------------------------------------
(***************************************************************************)
(* Counting in streams                                                     *)
(***************************************************************************)
\* The places of a stream where it has an element of T.
Places(stream, T) == {k \in DOMAIN stream : stream[k] \in T}

Marks == {b \in BOOLEAN : b}

LEMMA AtPlaces ==
  /\ \A stream \in Seq(BOOLEAN) : Ends(stream) = Cardinality(Places(stream, Marks))
  /\ \A stream \in Seq(Report) : Closes(stream) = Cardinality(Places(stream, {"close"}))
<1>1. ASSUME NEW stream \in Seq(BOOLEAN)
      PROVE  {k \in DOMAIN stream : stream[k]} = Places(stream, Marks)
  <2>1. \A k \in DOMAIN stream : stream[k] \in BOOLEAN
    OBVIOUS
  <2> QED
    BY <2>1, Zenon DEF Places, Marks
<1>2. ASSUME NEW stream \in Seq(Report)
      PROVE  {k \in DOMAIN stream : stream[k] = "close"} = Places(stream, {"close"})
  BY DEF Places
<1> QED
  BY <1>1, <1>2, Zenon DEF Ends, Closes

LEMMA PlacesEmpty ==
  ASSUME NEW T
  PROVE  Cardinality(Places(<< >>, T)) = 0
<1>1. Places(<< >>, T) = {}
  BY DEF Places
<1> QED
  BY <1>1, FS_EmptySet

LEMMA PlacesType ==
  ASSUME NEW S, NEW stream \in Seq(S), NEW T
  PROVE  IsFiniteSet(Places(stream, T)) /\ Cardinality(Places(stream, T)) \in Nat
<1>1. DOMAIN stream = 1 .. Len(stream) /\ Len(stream) \in Nat
  OBVIOUS
<1>2. IsFiniteSet(1 .. Len(stream))
  BY <1>1, FS_Interval
<1>3. IsFiniteSet(Places(stream, T))
  BY <1>1, <1>2, FS_Subset DEF Places
<1> QED
  BY <1>3, FS_CardinalityType

LEMMA PlacesAppend ==
  ASSUME NEW S, NEW stream \in Seq(S), NEW e \in S, NEW T
  PROVE  Cardinality(Places(Append(stream, e), T))
           = Cardinality(Places(stream, T)) + (IF e \in T THEN 1 ELSE 0)
<1> DEFINE old == Places(stream, T)
           new == Places(Append(stream, e), T)
           n == Len(stream)
<1>1. IsFiniteSet(old) /\ Cardinality(old) \in Nat
  BY PlacesType
<1>2. n \in Nat /\ DOMAIN stream = 1 .. n /\ DOMAIN Append(stream, e) = 1 .. n + 1
  OBVIOUS
<1>3. /\ \A k \in 1 .. n : Append(stream, e)[k] = stream[k]
      /\ Append(stream, e)[n + 1] = e
  OBVIOUS
<1>4. n + 1 \notin old
  BY <1>2 DEF Places
<1>5. new = IF e \in T THEN old \cup {n + 1} ELSE old
  BY <1>2, <1>3 DEF Places
<1> HIDE DEF old, new
<1>6. Cardinality(old \cup {n + 1}) = Cardinality(old) + 1
  BY <1>1, <1>4, FS_AddElement
<1>7. Cardinality(new) = Cardinality(old) + (IF e \in T THEN 1 ELSE 0)
  BY <1>1, <1>5, <1>6
<1> QED
  BY <1>7 DEF old, new

LEMMA PlacesTail ==
  ASSUME NEW S, NEW stream \in Seq(S), stream # << >>, NEW T
  PROVE  Cardinality(Places(stream, T))
           = Cardinality(Places(Tail(stream), T)) + (IF Head(stream) \in T THEN 1 ELSE 0)
<1> DEFINE all == Places(stream, T)
           rest == Places(Tail(stream), T)
           moved == {k \in all : k # 1}
           n == Len(stream)
<1>1. /\ n \in Nat \ {0} /\ DOMAIN stream = 1 .. n /\ Tail(stream) \in Seq(S)
      /\ DOMAIN Tail(stream) = 1 .. n - 1 /\ Head(stream) = stream[1]
      /\ \A k \in 1 .. n - 1 : Tail(stream)[k] = stream[k + 1]
  OBVIOUS
<1>2. IsFiniteSet(all) /\ IsFiniteSet(rest)
  BY <1>1, PlacesType
<1>3. ExistsBijection(rest, moved)
  <2> DEFINE f == [k \in rest |-> k + 1]
  <2>1. \A k \in rest : k \in 1 .. n - 1 /\ k + 1 \in moved
    BY <1>1 DEF Places
  <2>2. \A k \in moved : k - 1 \in rest /\ (k - 1) + 1 = k /\ k \in Nat
    BY <1>1 DEF Places
  <2> HIDE DEF rest, moved
  <2>3. f \in [rest -> moved]
    BY <2>1
  <2>4. \A a, b \in rest : f[a] = f[b] => a = b
    BY <1>1, <2>1
  <2>5. \A k \in moved : \E a \in rest : f[a] = k
    BY <2>2
  <2> HIDE DEF f
  <2>6. f \in Bijection(rest, moved)
    BY <2>3, <2>4, <2>5 DEF Bijection, Injection, IsInjective, Surjection
  <2> QED
    BY <2>6 DEF ExistsBijection
<1>4. Cardinality(moved) = Cardinality(rest) /\ IsFiniteSet(moved)
  BY <1>2, <1>3, FS_Bijection
<1>5. all = IF Head(stream) \in T THEN moved \cup {1} ELSE moved
  BY <1>1 DEF Places
<1>6. 1 \notin moved /\ Cardinality(moved) \in Nat
  BY <1>4, FS_CardinalityType
<1> HIDE DEF all, rest, moved
<1>7. Cardinality(moved \cup {1}) = Cardinality(moved) + 1
  BY <1>4, <1>6, FS_AddElement
<1>8. Cardinality(all) = Cardinality(rest) + (IF Head(stream) \in T THEN 1 ELSE 0)
  BY <1>4, <1>5, <1>6, <1>7
<1> QED
  BY <1>8 DEF all, rest

\* The same of the two kinds of streams.
LEMMA StreamsEmpty == Ends(<< >>) = 0 /\ Closes(<< >>) = 0
<1>1. << >> \in Seq(BOOLEAN) /\ << >> \in Seq(Report)
  OBVIOUS
<1> QED
  BY <1>1, AtPlaces, PlacesEmpty

LEMMA StreamsType ==
  /\ \A stream \in Seq(BOOLEAN) : Ends(stream) \in Nat
  /\ \A stream \in Seq(Report) : Closes(stream) \in Nat
BY AtPlaces, PlacesType

LEMMA MarkIsMark ==
  ASSUME NEW last \in BOOLEAN
  PROVE  last \in Marks <=> last
BY DEF Marks

LEMMA EndsAppend ==
  ASSUME NEW stream \in Seq(BOOLEAN), NEW last \in BOOLEAN
  PROVE  Ends(Append(stream, last)) = Ends(stream) + (IF last THEN 1 ELSE 0)
<1>1. Append(stream, last) \in Seq(BOOLEAN)
  BY AppendProperties
<1> DEFINE B == BOOLEAN
<1>2. stream \in Seq(B) /\ last \in B
  OBVIOUS
<1> HIDE DEF B
<1>3. Cardinality(Places(Append(stream, last), Marks))
        = Cardinality(Places(stream, Marks)) + (IF last \in Marks THEN 1 ELSE 0)
  BY <1>2, PlacesAppend, Zenon
<1> QED
  BY <1>1, <1>3, AtPlaces, MarkIsMark

LEMMA EndsTail ==
  ASSUME NEW stream \in Seq(BOOLEAN), stream # << >>, NEW last \in BOOLEAN,
         last = Head(stream)
  PROVE  Ends(stream) = Ends(Tail(stream)) + (IF last THEN 1 ELSE 0)
<1>1. Tail(stream) \in Seq(BOOLEAN)
  BY HeadTailProperties
<1>2. Cardinality(Places(stream, Marks))
        = Cardinality(Places(Tail(stream), Marks)) + (IF Head(stream) \in Marks THEN 1 ELSE 0)
  BY PlacesTail, Zenon
<1>3. Cardinality(Places(stream, Marks))
        = Cardinality(Places(Tail(stream), Marks)) + (IF last \in Marks THEN 1 ELSE 0)
  BY <1>2, Zenon
<1> QED
  BY <1>1, <1>3, AtPlaces, MarkIsMark

LEMMA ClosesAppend ==
  ASSUME NEW stream \in Seq(Report), NEW beat \in Report
  PROVE  Closes(Append(stream, beat)) = Closes(stream) + (IF beat = "close" THEN 1 ELSE 0)
<1>1. Append(stream, beat) \in Seq(Report)
  BY AppendProperties
<1>2. Cardinality(Places(Append(stream, beat), {"close"}))
        = Cardinality(Places(stream, {"close"})) + (IF beat \in {"close"} THEN 1 ELSE 0)
  BY PlacesAppend, Zenon
<1> QED
  BY <1>1, <1>2, AtPlaces

LEMMA ClosesTail ==
  ASSUME NEW stream \in Seq(Report), stream # << >>
  PROVE  Closes(stream) = Closes(Tail(stream)) + (IF Head(stream) = "close" THEN 1 ELSE 0)
<1>1. Tail(stream) \in Seq(Report)
  BY HeadTailProperties
<1>2. Cardinality(Places(stream, {"close"}))
        = Cardinality(Places(Tail(stream), {"close"}))
            + (IF Head(stream) \in {"close"} THEN 1 ELSE 0)
  BY PlacesTail, Zenon
<1> QED
  BY <1>1, <1>2, AtPlaces

\* A report has a closing beat iff it is that of the last beat of a packet.
LEMMA ReportCloses ==
  ASSUME NEW n \in 0 .. MaxMatches, NEW last \in BOOLEAN
  PROVE  Closes(ReportOf(n, last)) = IF last THEN 1 ELSE 0
<1> DEFINE q == (n + Slots - 1) \div Slots
           matches == [b \in 1 .. q |-> "matches"]
           at == {k \in DOMAIN ReportOf(n, last) : ReportOf(n, last)[k] = "close"}
<1>1. q \in Nat
  BY PipelineAssumption, Quotient
<1> HIDE DEF q
<1>2. matches \in Seq(Report) /\ Len(matches) = q /\ \A k \in 1 .. q : matches[k] = "matches"
  BY <1>1 DEF Report
<1>3. ReportOf(n, last) = matches \o (IF last THEN <<"close">> ELSE << >>)
  BY DEF ReportOf, q
<1> HIDE DEF matches
<1>4. CASE last
  <2>1. /\ DOMAIN (matches \o <<"close">>) = 1 .. q + 1
        /\ \A k \in 1 .. q : (matches \o <<"close">>)[k] = "matches"
        /\ (matches \o <<"close">>)[q + 1] = "close"
    BY <1>1, <1>2
  <2>2. at = {q + 1}
    BY <1>1, <1>3, <1>4, <2>1
  <2>3. Cardinality(at) = 1
    BY <2>2, FS_Singleton
  <2> QED
    BY <1>4, <2>3 DEF Closes
<1>5. CASE ~last
  <2>1. ReportOf(n, last) = matches
    BY <1>2, <1>3, <1>5
  <2>2. at = {}
    BY <1>1, <1>2, <2>1
  <2>3. Cardinality(at) = 0
    BY <2>2, FS_EmptySet
  <2> QED
    BY <1>5, <2>3 DEF Closes
<1> QED
  BY <1>4, <1>5

----------------------------------------------------------------------------
(***************************************************************************)
(* The packets three kernels and the host count.  krnl_mm2s has ended, of  *)
(* a regular size, the packets that fill up with the beats it has sent,    *)
(* and the last one when it has sent them all.                             *)
(***************************************************************************)
Ended(k) ==
  k \div PacketBeats + (IF k = Beats /\ k % PacketBeats # 0 THEN 1 ELSE 0)

AgreeInv ==
  /\ lasts \subseteq 0 .. i - 1
  /\ IsFiniteSet(lasts)
  /\ Cardinality(lasts) = projPkt + Closes(backlog) + Ends(n2k)
  /\ projPkt = p + Closes(k2n)
  /\ Regular => Cardinality(lasts) = Ended(i)

\* When all beats are sent that is what the host has computed.
LEMMA HostCounts ==
  ASSUME size \in Sizes, Regular
  PROVE  Ended(Beats) = num_packets
<1>1. size \in Nat /\ BeatBytes \in Nat \ {0} /\ PacketBytes \in Nat \ {0} /\ Beats \in Nat
  BY SizesAreNumbers, PipelineAssumption
<1>2. size = Beats * BeatBytes
  BY <1>1, QuotientAndRest DEF Regular, Beats
<1>3. num_packets = size \div PacketBytes + (IF size % PacketBytes = 0 THEN 0 ELSE 1)
  BY <1>1, RoundedUp DEF num_packets, NumPackets
<1>4. /\ size \div PacketBytes = Beats \div PacketBeats
      /\ size % PacketBytes = 0 <=> Beats % PacketBeats = 0
  BY <1>1, <1>2, InBeats
<1> QED
  BY <1>1, <1>3, <1>4, InBeats, Quotient DEF Ended

\* The next beat ends a packet iff there is one more ended with it.
LEMMA EndsOne ==
  ASSUME size \in Sizes, Regular, NEW k \in Nat, k < Beats
  PROVE  Ended(k + 1) = Ended(k) + (IF Last(k) THEN 1 ELSE 0)
<1>1. PacketBeats \in Nat \ {0} /\ Beats \in Nat
  BY InBeats, SizesAreNumbers
<1>2. AtPacketEnd(k) <=> (k + 1) % PacketBeats = 0
  BY PacketEndExact, InBeats DEF Regular
<1>3. (k + 1) \div PacketBeats = k \div PacketBeats + (IF (k + 1) % PacketBeats = 0 THEN 1 ELSE 0)
  BY <1>1, NextQuotient
<1>4. k \div PacketBeats \in Nat
  BY <1>1, Quotient
<1>5. Ended(k) = k \div PacketBeats
  BY <1>1, <1>4 DEF Ended
<1>6. CASE (k + 1) % PacketBeats = 0
  BY <1>2, <1>3, <1>4, <1>5, <1>6 DEF Ended, Last
<1>7. CASE (k + 1) % PacketBeats # 0
  <2>1. Last(k) <=> k + 1 = Beats
    BY <1>1, <1>2, <1>7 DEF Last
  <2>2. Ended(k + 1) = k \div PacketBeats + (IF k + 1 = Beats THEN 1 ELSE 0)
    BY <1>3, <1>4, <1>7 DEF Ended
  <2> QED
    BY <1>5, <2>1, <2>2
<1> QED
  BY <1>6, <1>7

\* A mark that moves from one count of a sum to another, or comes in on both sides.
LEMMA MarkComesIn ==
  ASSUME NEW a \in Nat, NEW b \in Nat, NEW c \in Nat, NEW d \in Nat, NEW m \in Nat,
         d = a + b + c
  PROVE  d + m = a + b + (c + m)
OBVIOUS

LEMMA MarkMoves ==
  ASSUME NEW a \in Nat, NEW b \in Nat, NEW c \in Nat, NEW d \in Nat, NEW m \in Nat,
         d = a + (b + m) + c
  PROVE  d = (a + m) + b + c
OBVIOUS

LEMMA AgreeInitially == Init => AgreeInv
<1> SUFFICES ASSUME Init PROVE AgreeInv
  OBVIOUS
<1>1. /\ i = 0 /\ lasts = {} /\ n2k = << >> /\ backlog = << >> /\ k2n = << >>
      /\ projPkt = 0 /\ p = 0
  BY DEF Init
<1>2. IsFiniteSet(lasts) /\ Cardinality(lasts) = 0
  BY <1>1, FS_EmptySet
<1>3. Closes(backlog) = 0 /\ Ends(n2k) = 0 /\ Closes(k2n) = 0
  BY <1>1, StreamsEmpty
<1>4. Ended(0) = 0
  <2>1. PacketBeats \in Nat \ {0}
    BY InBeats
  <2>2. 0 \div PacketBeats = 0 /\ 0 % PacketBeats = 0
    BY <2>1
  <2> QED
    BY <2>2 DEF Ended
<1>5. Ended(i) = 0
  BY <1>1, <1>4
<1> QED
  BY <1>1, <1>2, <1>3, <1>5 DEF AgreeInv

LEMMA AgreeStep == TypeOK /\ AgreeInv /\ [Next]_vars => AgreeInv'
<1> SUFFICES ASSUME TypeOK, AgreeInv, [Next]_vars PROVE AgreeInv'
  OBVIOUS
<1>1. /\ n2k \in Seq(BOOLEAN) /\ backlog \in Seq(Report) /\ k2n \in Seq(Report)
      /\ i \in Nat /\ projPkt \in Nat /\ p \in Nat /\ size \in Sizes
  BY SizesAreNumbers DEF TypeOK, Report
<1>2. /\ Closes(backlog) \in Nat /\ Ends(n2k) \in Nat
      /\ Closes(k2n) \in Nat
  BY <1>1, StreamsType
<1>3. /\ lasts \subseteq 0 .. i - 1 /\ IsFiniteSet(lasts) /\ Cardinality(lasts) \in Nat
      /\ Cardinality(lasts) = projPkt + Closes(backlog) + Ends(n2k)
      /\ projPkt = p + Closes(k2n)
      /\ Regular => Cardinality(lasts) = Ended(i)
  BY FS_CardinalityType DEF AgreeInv
<1>4. CASE SendBeat
  <2>1. /\ i < Beats /\ n2k' = Append(n2k, Last(i)) /\ i' = i + 1
        /\ lasts' = IF Last(i) THEN lasts \cup {i} ELSE lasts
        /\ UNCHANGED <<size, projPkt, backlog, k2n, p>>
    BY <1>4 DEF SendBeat
  <2>2. Last(i) \in BOOLEAN
    BY DEF Last, AtPacketEnd
  <2>3. Ends(n2k') = Ends(n2k) + (IF Last(i) THEN 1 ELSE 0)
    BY <1>1, <2>1, <2>2, EndsAppend
  <2>4. i \notin lasts
    BY <1>1, <1>3
  <2>5. /\ IsFiniteSet(lasts \cup {i})
        /\ Cardinality(lasts \cup {i}) = Cardinality(lasts) + 1
    BY <1>3, <2>4, FS_AddElement
  <2>6. /\ lasts' \subseteq 0 .. i' - 1 /\ IsFiniteSet(lasts')
        /\ Cardinality(lasts') = Cardinality(lasts) + (IF Last(i) THEN 1 ELSE 0)
    <3>1. CASE Last(i)
      <4>1. lasts' = lasts \cup {i}
        BY <2>1, <3>1
      <4>2. lasts' \subseteq 0 .. i' - 1
        BY <1>1, <1>3, <2>1, <4>1
      <4> QED
        BY <2>5, <3>1, <4>1, <4>2
    <3>2. CASE ~Last(i)
      <4>1. lasts' = lasts
        BY <2>1, <3>2
      <4>2. lasts' \subseteq 0 .. i' - 1
        BY <1>1, <1>3, <2>1, <4>1
      <4>3. Cardinality(lasts') = Cardinality(lasts) + 0
        BY <1>3, <4>1
      <4> QED
        BY <1>3, <3>2, <4>1, <4>2, <4>3
    <3> QED
      BY <3>1, <3>2
  <2>7. Ends(n2k') \in Nat
    BY <1>2, <2>3
  <2>8. Cardinality(lasts') = projPkt' + Closes(backlog') + Ends(n2k')
    <3> DEFINE m == IF Last(i) THEN 1 ELSE 0
    <3>1. m \in Nat
      OBVIOUS
    <3>2. Closes(backlog') = Closes(backlog) /\ projPkt' = projPkt
      BY <2>1
    <3>3. Cardinality(lasts') = Cardinality(lasts) + m /\ Ends(n2k') = Ends(n2k) + m
      BY <2>3, <2>6
    <3> HIDE DEF m
    <3>4. Cardinality(lasts) + m = projPkt + Closes(backlog) + (Ends(n2k) + m)
      BY <1>1, <1>2, <1>3, <3>1, MarkComesIn
    <3> QED
      BY <3>2, <3>3, <3>4
  <2>9. projPkt' = p' + Closes(k2n')
    BY <1>3, <2>1
  <2>10. Regular' => Cardinality(lasts') = Ended(i)'
    <3>1. Regular' = Regular /\ Ended(i)' = Ended(i + 1)
      BY <2>1 DEF Regular, Ended, Beats
    <3>2. Regular => Ended(i + 1) = Ended(i) + (IF Last(i) THEN 1 ELSE 0)
      BY <1>1, <2>1, EndsOne
    <3> QED
      BY <1>3, <2>6, <3>1, <3>2
  <2> QED
    BY <2>6, <2>8, <2>9, <2>10 DEF AgreeInv
<1>5. CASE ScanBeat
  <2>1. /\ backlog = << >> /\ n2k # << >> /\ n2k' = Tail(n2k)
        /\ UNCHANGED <<size, i, projPkt, k2n, p, lasts>>
    BY <1>5 DEF ScanBeat
  <2>2. PICK n \in 0 .. MaxMatches : backlog' = ReportOf(n, Head(n2k))
    BY <1>5 DEF ScanBeat
  <2> DEFINE last == Head(n2k)
  <2>3. last \in BOOLEAN /\ n2k' \in Seq(BOOLEAN)
    BY <1>1, <2>1, HeadTailProperties
  <2>4. backlog' = ReportOf(n, last) /\ last = Head(n2k)
    BY <2>2
  <2> HIDE DEF last
  <2>5. Closes(backlog') = IF last THEN 1 ELSE 0
    <3>1. Closes(ReportOf(n, last)) = IF last THEN 1 ELSE 0
      BY <2>3, ReportCloses, Zenon
    <3> QED
      BY <2>4, <3>1, Zenon
  <2>6. Ends(n2k) = Ends(n2k') + (IF last THEN 1 ELSE 0)
    <3>1. Ends(n2k) = Ends(Tail(n2k)) + (IF last THEN 1 ELSE 0)
      BY <1>1, <2>1, <2>3, <2>4, EndsTail, Zenon
    <3> QED
      BY <2>1, <3>1, Zenon
  <2>7. Closes(backlog) = 0
    BY <2>1, StreamsEmpty
  <2>8. Ends(n2k') \in Nat
    BY <2>3, StreamsType
  <2>9. Cardinality(lasts') = projPkt' + Closes(backlog') + Ends(n2k')
    <3>1. lasts' = lasts /\ projPkt' = projPkt
      BY <2>1
    <3>2. CASE last
      BY <1>1, <1>3, <2>5, <2>6, <2>7, <2>8, <3>1, <3>2
    <3>3. CASE ~last
      BY <1>1, <1>3, <2>5, <2>6, <2>7, <2>8, <3>1, <3>3
    <3> QED
      BY <3>2, <3>3
  <2> QED
    BY <1>3, <2>1, <2>9 DEF AgreeInv, Regular, Ended, Beats
<1>6. CASE WriteReport
  <2> DEFINE beat == Head(backlog)
  <2>1. /\ backlog # << >> /\ k2n' = Append(k2n, beat) /\ backlog' = Tail(backlog)
        /\ projPkt' = IF beat = "close" THEN projPkt + 1 ELSE projPkt
        /\ UNCHANGED <<size, i, n2k, p, lasts>>
    BY <1>6 DEF WriteReport
  <2>2. beat \in Report /\ backlog' \in Seq(Report)
    BY <1>1, <2>1, HeadTailProperties
  <2> HIDE DEF beat
  <2>3. Closes(backlog) = Closes(backlog') + (IF beat = "close" THEN 1 ELSE 0)
    BY <1>1, <2>1, ClosesTail DEF beat
  <2>4. Closes(k2n') = Closes(k2n) + (IF beat = "close" THEN 1 ELSE 0)
    BY <1>1, <2>1, <2>2, ClosesAppend
  <2>5. Closes(backlog') \in Nat
    BY <2>2, StreamsType
  <2> DEFINE m == IF beat = "close" THEN 1 ELSE 0
  <2>6. m \in Nat
    OBVIOUS
  <2>7. /\ lasts' = lasts /\ n2k' = n2k /\ p' = p /\ projPkt' = projPkt + m
        /\ Closes(backlog) = Closes(backlog') + m /\ Closes(k2n') = Closes(k2n) + m
    BY <1>1, <2>1, <2>3, <2>4
  <2> HIDE DEF m
  <2>8. Cardinality(lasts) = (projPkt + m) + Closes(backlog') + Ends(n2k)
    <3>1. Cardinality(lasts) = projPkt + (Closes(backlog') + m) + Ends(n2k)
      BY <1>3, <2>7
    <3> QED
      BY <1>1, <1>2, <1>3, <2>5, <2>6, <3>1, MarkMoves
  <2>9. projPkt + m = p + (Closes(k2n) + m)
    BY <1>1, <1>2, <1>3, <2>6
  <2>10. /\ Cardinality(lasts') = projPkt' + Closes(backlog') + Ends(n2k')
         /\ projPkt' = p' + Closes(k2n')
    BY <2>7, <2>8, <2>9
  <2> QED
    BY <1>3, <2>1, <2>10 DEF AgreeInv, Regular, Ended, Beats
<1>7. CASE StoreBeat
  <2> DEFINE beat == Head(k2n)
  <2>1. /\ k2n # << >> /\ k2n' = Tail(k2n)
        /\ p' = IF beat = "close" THEN p + 1 ELSE p
        /\ UNCHANGED <<size, i, n2k, projPkt, backlog, lasts>>
    BY <1>7 DEF StoreBeat
  <2>2. k2n' \in Seq(Report)
    BY <1>1, <2>1, HeadTailProperties
  <2> HIDE DEF beat
  <2>3. Closes(k2n) = Closes(k2n') + (IF beat = "close" THEN 1 ELSE 0)
    BY <1>1, <2>1, ClosesTail DEF beat
  <2>4. Closes(k2n') \in Nat
    BY <2>2, StreamsType
  <2>5. projPkt' = p' + Closes(k2n')
    BY <1>1, <1>3, <2>1, <2>3, <2>4
  <2> QED
    BY <1>3, <2>1, <2>5 DEF AgreeInv, Regular, Ended, Beats
<1>8. CASE UNCHANGED vars
  BY <1>8 DEF AgreeInv, vars, Regular, Ended, Beats
<1> QED
  BY <1>4, <1>5, <1>6, <1>7, <1>8 DEF Next, Idle

\* For any beats, payload, matches, depth and buffer: no packet is lost or counted twice
\* between the kernels, whatever the size; and krnl_mm2s ends, of a size in whole beats
\* whose bits fit unsigned int, as many packets as the host lets the others wait for.
THEOREM PacketsAlwaysAgree == Spec => []PacketsAgree
<1>1. TypeOK /\ AgreeInv => PacketsAgree
  <2> SUFFICES ASSUME TypeOK, AgreeInv PROVE PacketsAgree
    OBVIOUS
  <2>1. Regular => Ended(Beats) = num_packets
    BY HostCounts DEF TypeOK
  <2> QED
    BY <2>1 DEF AgreeInv, PacketsAgree
<1> QED
  BY <1>1, TypeCorrect, AgreeInitially, AgreeStep, PTL DEF Spec
=============================================================================

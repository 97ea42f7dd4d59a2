--------------------------- MODULE ScannerProofs ---------------------------
(***************************************************************************)
(* Theorems about modules Scanner and TestBench: what the scanner reports, *)
(* for every rule set, register width and sequence of packets, and what    *)
(* run_test makes of it, for every size of beats, packets and buffers.     *)
(*                                                                         *)
(* For the test bench: what the beats carry and what a match means in terms*)
(* of the data (DataInv, MatchInv), the way of the matches through the     *)
(* registers, the report beats, the buffer and the parser (FlowInv), the   *)
(* packets that are counted on both sides (CountInv), and the verdict.     *)
(***************************************************************************)
EXTENDS TestBench, WellFoundedInduction, FiniteSetTheorems, SequenceTheorems,
        FunctionTheorems, TLAPS

\* The packet grows by whole calls, so it is empty or holds at least one.
PacketOK == packet = <<>> \/ Len(packet) >= DCAM_P

ScanInv == TypeOK /\ PacketOK /\ HistoryMirrorsPacket

LEMMA RegisterTypes ==
  ASSUME NEW bytes \in Byte \X Byte, NEW b \in Byte,
         NEW r \in [Offset -> {0, 1}]
  PROVE  /\ ShiftIn(r, bytes, b) \in [Offset -> {0, 1}]
         /\ ZeroRegister \in [Offset -> {0, 1}]
<1>1. \A k \in Offset : k < DCAM_P => MatchBit(bytes, b, k) \in {0, 1}
  BY DEF MatchBit
<1>2. \A k \in Offset : ~(k < DCAM_P) => k - DCAM_P \in Offset
  BY ScannerAssumption DEF Offset, DCAM_P
<1>3. QED
  BY <1>1, <1>2 DEF ShiftIn, ZeroRegister

LEMMA HistoryType ==
  ASSUME NEW bytes \in Byte \X Byte, NEW reset \in BOOLEAN,
         history \in [Group -> [Byte -> [Offset -> {0, 1}]]]
  PROVE  NewHistory(history, bytes, reset) \in [Group -> [Byte -> [Offset -> {0, 1}]]]
BY RegisterTypes DEF NewHistory

\* The bytes of one call.
IsCall(bytes) == bytes \in Byte \X Byte /\ bytes \in Seq(Byte) /\ Len(bytes) = DCAM_P

LEMMA CallPair ==
  ASSUME NEW b1 \in Byte, NEW b2 \in Byte
  PROVE  IsCall(<<b1, b2>>)
BY DEF IsCall, DCAM_P

LEMMA AppendCall ==
  ASSUME NEW s \in Seq(Byte), NEW bytes, IsCall(bytes)
  PROVE  /\ s \o bytes \in Seq(Byte)
         /\ Len(s \o bytes) = Len(s) + DCAM_P
         /\ Len(s) \in Nat
         /\ \A j \in 1 .. Len(s) + DCAM_P :
              (s \o bytes)[j] = IF j <= Len(s) THEN s[j] ELSE bytes[j - Len(s)]
BY DEF IsCall

\* One register mirrors the byte string s.
Mirrors(r, s, b) ==
  \A j \in Offset : r[j] = 1 <=> j < Len(s) - DCAM_P /\ s[Len(s) - j] = b

\* What a step does to one register.
LEMMA RegisterAfterShift ==
  ASSUME NEW bytes, IsCall(bytes), NEW b \in Byte,
         NEW r \in [Offset -> {0, 1}], NEW s \in Seq(Byte),
         Len(s) >= DCAM_P, Mirrors(r, s, b)
  PROVE  Mirrors(ShiftIn(r, bytes, b), s \o bytes, b)
<1> SUFFICES ASSUME NEW k \in Offset
             PROVE  ShiftIn(r, bytes, b)[k] = 1 <=>
                      /\ k < Len(s \o bytes) - DCAM_P
                      /\ (s \o bytes)[Len(s \o bytes) - k] = b
  BY DEF Mirrors
<1> DEFINE t == s \o bytes
<1>1. /\ Len(s) \in Nat
      /\ t \in Seq(Byte) /\ Len(t) = Len(s) + 2
      /\ \A j \in 1 .. Len(s) + 2 : t[j] = IF j <= Len(s) THEN s[j] ELSE bytes[j - Len(s)]
  BY AppendCall DEF DCAM_P
<1> HIDE DEF t
<1>2. k \in Nat
  BY ScannerAssumption DEF Offset
<1>3. CASE k < 2
  <2>1. ShiftIn(r, bytes, b)[k] = MatchBit(bytes, b, k)
    BY <1>3 DEF ShiftIn, DCAM_P
  <2>2. Len(t) - k \in 1 .. Len(s) + 2 /\ Len(t) - k > Len(s) /\ Len(t) - k - Len(s) = 2 - k
    BY <1>1, <1>2, <1>3
  <2>3. t[Len(t) - k] = bytes[2 - k]
    BY <1>1, <2>2
  <2>4. k < Len(t) - DCAM_P
    BY <1>1, <1>2, <1>3 DEF DCAM_P
  <2>5. QED
    BY <2>1, <2>3, <2>4 DEF MatchBit, DCAM_P, t
<1>4. CASE k >= 2
  <2>1. k - 2 \in Offset /\ ShiftIn(r, bytes, b)[k] = r[k - 2]
    BY <1>2, <1>4, ScannerAssumption DEF ShiftIn, DCAM_P, Offset
  <2>2. r[k - 2] = 1 <=> k - 2 < Len(s) - 2 /\ s[Len(s) - (k - 2)] = b
    BY <2>1 DEF DCAM_P, Mirrors
  <2>3. Len(t) - k = Len(s) - (k - 2)
    BY <1>1, <1>2
  <2>4. k < Len(t) - 2 <=> k - 2 < Len(s) - 2
    BY <1>1, <1>2
  <2>5. ASSUME k - 2 < Len(s) - 2
        PROVE  t[Len(t) - k] = s[Len(s) - (k - 2)]
    <3>1. Len(t) - k \in 1 .. Len(s) + 2 /\ Len(t) - k <= Len(s)
      BY <1>1, <1>2, <1>4, <2>5
    <3>2. QED
      BY <3>1, <2>3, <1>1
  <2>6. QED
    BY <2>1, <2>2, <2>4, <2>5 DEF DCAM_P, t
<1>5. k < 2 \/ k >= 2
  BY <1>2
<1>6. QED
  BY <1>3, <1>4, <1>5, Zenon

----------------------------------------------------------------------------
LEMMA ScanInit == Init => ScanInv
<1> SUFFICES ASSUME Init PROVE ScanInv
  OBVIOUS
<1>1. ZeroRegister \in [Offset -> {0, 1}] /\ \A k \in Offset : ZeroRegister[k] = 0
  BY DEF ZeroRegister
<1>2. TypeOK
  BY <1>1 DEF Init, TypeOK
<1>3. HistoryMirrorsPacket
  <2>1. \A k \in Offset : k \in Nat
    BY ScannerAssumption DEF Offset
  <2>2. \A g \in Group, b \in Byte, k \in Offset : history[g][b][k] = 0
    BY <1>1 DEF Init
  <2>3. Len(packet) = 0
    BY DEF Init
  <2>4. QED
    BY <2>1, <2>2, <2>3 DEF HistoryMirrorsPacket, DCAM_P
<1>4. QED
  BY <1>2, <1>3 DEF Init, ScanInv, PacketOK

\* The registers and the packet after one call.
LEMMA ScanCall ==
  ASSUME ScanInv, NEW bytes, IsCall(bytes), NEW reset \in BOOLEAN,
         reset \/ packet # <<>>, dcam_step_multi(bytes, reset)
  PROVE  /\ history' \in [Group -> [Byte -> [Offset -> {0, 1}]]]
         /\ packet' \in Seq(Byte) /\ Len(packet') >= DCAM_P
         /\ HistoryMirrorsPacket'
<1>1. bytes \in Byte \X Byte /\ bytes \in Seq(Byte) /\ Len(bytes) = DCAM_P
  BY DEF IsCall
<1>2. history' = NewHistory(history, bytes, reset)
      /\ packet' = IF reset THEN bytes ELSE packet \o bytes
  BY DEF dcam_step_multi
<1>3. history' \in [Group -> [Byte -> [Offset -> {0, 1}]]]
  BY <1>1, <1>2, HistoryType DEF ScanInv, TypeOK
<1>4. CASE reset
  <2>1. packet' = bytes
    BY <1>2, <1>4
  <2>2. \A g \in Group, b \in Byte, k \in Offset : history'[g][b][k] = 0
    BY <1>2, <1>4 DEF NewHistory, ZeroRegister
  <2>3. \A k \in Offset : k \in Nat
    BY ScannerAssumption DEF Offset
  <2>4. \A k \in Offset : ~(k < Len(packet') - DCAM_P)
    <3>1. Len(packet') = DCAM_P /\ DCAM_P - DCAM_P = 0
      BY <1>1, <2>1 DEF DCAM_P
    <3>2. QED
      BY <2>3, <3>1
  <2>5. HistoryMirrorsPacket'
    BY <2>2, <2>4 DEF HistoryMirrorsPacket
  <2>6. QED
    <3>1. DCAM_P >= DCAM_P
      BY DEF DCAM_P
    <3>2. QED
      BY <1>1, <1>3, <2>1, <2>5, <3>1
<1>5. CASE ~reset
  <2>1. packet' = packet \o bytes /\ packet \in Seq(Byte) /\ Len(packet) >= DCAM_P
    BY <1>2, <1>5 DEF ScanInv, PacketOK, TypeOK
  <2>2. packet' \in Seq(Byte) /\ Len(packet') = Len(packet) + DCAM_P /\ Len(packet) \in Nat
    BY <2>1, AppendCall
  <2>3. ASSUME NEW g \in Group, NEW b \in Byte
        PROVE  Mirrors(history'[g][b], packet', b)
    <3>1. history[g][b] \in [Offset -> {0, 1}]
      BY DEF ScanInv, TypeOK
    <3>2. Mirrors(history[g][b], packet, b)
      BY DEF ScanInv, HistoryMirrorsPacket, Mirrors
    <3>3. Mirrors(ShiftIn(history[g][b], bytes, b), packet \o bytes, b)
      BY <2>1, <3>1, <3>2, RegisterAfterShift
    <3>4. history'[g][b] = ShiftIn(history[g][b], bytes, b)
      BY <1>2, <1>5 DEF NewHistory
    <3>5. QED
      BY <2>1, <3>3, <3>4
  <2>4. HistoryMirrorsPacket'
    BY <2>3 DEF HistoryMirrorsPacket, Mirrors
  <2>5. QED
    BY <1>3, <2>1, <2>2, <2>4 DEF DCAM_P
<1>6. QED
  BY <1>4, <1>5

LEMMA SeqElement ==
  ASSUME NEW S, NEW s \in Seq(S), NEW i \in 1 .. Len(s)
  PROVE  s[i] \in S
OBVIOUS

LEMMA HitIds ==
  ASSUME NEW g \in Group, NEW r \in DOMAIN Rules[g]
  PROVE  /\ Rules[g][r].id \in Nat \ {0} /\ Rules[g][r].pat \in Seq(Byte)
         /\ Len(Rules[g][r].pat) \in 1 .. HistoryLen - 1
         /\ g \in Nat /\ r \in Nat
         /\ r \in 1 .. Len(Rules[g]) /\ Len(Rules[g]) \in Nat
         /\ g \in 1 .. Len(Rules) /\ Len(Rules) \in Nat
<1>1. Rules[g] \in Seq([pat : Seq(Byte), id : Nat \ {0}])
      /\ g \in 1 .. Len(Rules) /\ Len(Rules) \in Nat
  BY ScannerAssumption DEF Group
<1>2. r \in 1 .. Len(Rules[g]) /\ Len(Rules[g]) \in Nat
  BY <1>1
<1>a. Rules[g][r] \in [pat : Seq(Byte), id : Nat \ {0}]
  BY <1>1, <1>2, SeqElement
<1>3. Len(Rules[g][r].pat) \in 1 .. HistoryLen - 1
  BY ScannerAssumption DEF DCAM_P
<1>4. QED
  BY <1>1, <1>2, <1>a, <1>3

\* Non-empty sets of natural numbers have a least element, bounded ones a
\* greatest: the two CHOOSE expressions of the scanner are defined.
LEMMA LeastExists ==
  ASSUME NEW T, T \subseteq Nat, T # {}
  PROVE  \E x \in T : \A y \in T : x <= y
<1>1. PICK x \in T : \A y \in T : ~(<<y, x>> \in OpToRel(<, Nat))
  BY NatLessThanWellFounded, WFMin
<1>2. \A y \in T : ~(y < x)
  BY <1>1 DEF OpToRel
<1>3. QED
  BY <1>2

LEMMA GreatestExists ==
  ASSUME NEW n \in Nat, NEW T, T \subseteq 1 .. n, T # {}
  PROVE  \E x \in T : \A y \in T : y <= x
<1> DEFINE U == {n - x : x \in T}
<1>1. U \subseteq Nat /\ U # {}
  <2>1. \A x \in T : n - x \in Nat
    OBVIOUS
  <2>2. QED
    BY <2>1
<1>2. PICK u \in U : \A v \in U : u <= v
  BY <1>1, LeastExists
<1>3. PICK x \in T : u = n - x
  OBVIOUS
<1>4. \A y \in T : n - x <= n - y
  BY <1>2, <1>3
<1>5. QED
  BY <1>4

----------------------------------------------------------------------------
(***************************************************************************)
(* A rule fires exactly on its visible occurrences.                        *)
(***************************************************************************)
LEMMA MatchIsOccurrence ==
  ASSUME ScanInv, packet # <<>>, NEW g \in Group, NEW r \in DOMAIN Rules[g], NEW p \in Lane
  PROVE  RuleMatches(history, g, r, p) <=> VisibleAt(g, r, EndOf(p))
<1> DEFINE pat == Rules[g][r].pat
           L   == Len(pat)
           n   == Len(packet)
           off(k) == (DCAM_P - 1 - p) + (L - 1 - k)
<1>1. pat \in Seq(Byte) /\ L \in 1 .. HistoryLen - 1 /\ L \in Nat /\ n \in Nat /\ p \in {0, 1}
      /\ HistoryLen \in Nat
  BY HitIds, ScannerAssumption DEF ScanInv, TypeOK, Lane, DCAM_P
<1>2. \A k \in 1 .. L : pat[k] \in Byte
  BY <1>1
<1> HIDE DEF pat, L, n
<1>3. ASSUME NEW k \in 0 .. L - 1
      PROVE  /\ off(k) \in Offset /\ pat[k + 1] \in Byte
             /\ n - off(k) = EndOf(p) - L + (k + 1)
             /\ off(k) = L - p - k
  <2>1. off(k) \in 0 .. HistoryLen - 1 /\ k + 1 \in 1 .. L
    BY <1>1 DEF DCAM_P
  <2>2. EndOf(p) = n - 1 + p
    BY <1>1 DEF EndOf, DCAM_P, n
  <2>3. n - off(k) = EndOf(p) - L + (k + 1) /\ off(k) = L - p - k
    BY <1>1, <2>2 DEF DCAM_P
  <2>4. QED
    BY <1>2, <2>1, <2>3 DEF Offset
<1>4. ASSUME NEW k \in 0 .. L - 1
      PROVE  history[g][pat[k + 1]][off(k)] = 1 <=>
               off(k) < n - 2 /\ packet[EndOf(p) - L + (k + 1)] = pat[k + 1]
  <2>1. history[g][pat[k + 1]][off(k)] = 1 <=>
          off(k) < n - DCAM_P /\ packet[n - off(k)] = pat[k + 1]
    BY <1>3 DEF ScanInv, HistoryMirrorsPacket, n
  <2>2. QED
    BY <1>3, <2>1 DEF DCAM_P
<1>5. RuleMatches(history, g, r, p) <=>
        \A k \in 0 .. L - 1 : history[g][pat[k + 1]][off(k)] = 1
  BY DEF RuleMatches, L, pat
<1> HIDE DEF off
<1>6. EndOf(p) = n - 1 + p
  BY <1>1 DEF EndOf, DCAM_P, n
<1>7. ASSUME RuleMatches(history, g, r, p)
      PROVE  VisibleAt(g, r, EndOf(p))
  <2>1. \A k \in 0 .. L - 1 : off(k) < n - 2 /\ packet[EndOf(p) - L + (k + 1)] = pat[k + 1]
    BY <1>4, <1>5, <1>7
  <2>2. 0 \in 0 .. L - 1 /\ off(0) = L - p
    BY <1>1, <1>3
  <2>3. EndOf(p) - L >= 2
    BY <1>1, <1>6, <2>1, <2>2
  <2>4. ASSUME NEW k \in 1 .. L
        PROVE  packet[EndOf(p) - L + k] = pat[k]
    <3>1. k - 1 \in 0 .. L - 1 /\ (k - 1) + 1 = k
      BY <1>1
    <3>2. packet[EndOf(p) - L + ((k - 1) + 1)] = pat[(k - 1) + 1]
      BY <2>1, <3>1
    <3>3. QED
      BY <3>1, <3>2
  <2>5. L <= EndOf(p)
    BY <1>1, <1>6, <2>3
  <2>6. QED
    BY <2>3, <2>4, <2>5 DEF VisibleAt, OccursAt, DCAM_P, L, pat
<1>8. ASSUME VisibleAt(g, r, EndOf(p))
      PROVE  RuleMatches(history, g, r, p)
  <2>1. EndOf(p) - L >= 2 /\ \A k \in 1 .. L : packet[EndOf(p) - L + k] = pat[k]
    BY <1>8 DEF VisibleAt, OccursAt, DCAM_P, L, pat
  <2>2. ASSUME NEW k \in 0 .. L - 1
        PROVE  off(k) < n - 2 /\ packet[EndOf(p) - L + (k + 1)] = pat[k + 1]
    <3>1. k + 1 \in 1 .. L
      BY <1>1
    <3>2. off(k) < n - 2
      BY <1>1, <1>3, <1>6, <2>1
    <3>3. QED
      BY <2>1, <3>1, <3>2
  <2>3. QED
    BY <1>4, <1>5, <2>2
<1>9. QED
  BY <1>7, <1>8

\* One group: the last rule that is visible, or 0.
LEMMA GroupResultIsLast ==
  ASSUME ScanInv, packet # <<>>, NEW g \in Group, NEW p \in Lane
  PROVE  \/ /\ GroupResult(history, g, p) = 0
            /\ \A r \in DOMAIN Rules[g] : ~VisibleAt(g, r, EndOf(p))
         \/ /\ GroupResult(history, g, p) # 0
            /\ \E r \in DOMAIN Rules[g] :
                 /\ GroupResult(history, g, p) = Rules[g][r].id
                 /\ VisibleAt(g, r, EndOf(p))
                 /\ \A q \in DOMAIN Rules[g] : q > r => ~VisibleAt(g, q, EndOf(p))
<1> DEFINE H == Hits(history, g, p)
<1>1. \A r \in DOMAIN Rules[g] : r \in H <=> VisibleAt(g, r, EndOf(p))
  BY MatchIsOccurrence DEF Hits
<1>2. CASE H = {}
  BY <1>1, <1>2 DEF GroupResult
<1>3. CASE H # {}
  <2>1. H \subseteq DOMAIN Rules[g] /\ H \subseteq 1 .. Len(Rules[g]) /\ Len(Rules[g]) \in Nat
        /\ \A r \in DOMAIN Rules[g] : r \in Nat
    BY <1>3, HitIds DEF Hits
  <2> DEFINE r == CHOOSE x \in H : \A y \in H : y <= x
  <2>2. r \in H /\ \A y \in H : y <= r
    BY <1>3, <2>1, GreatestExists
  <2>3. GroupResult(history, g, p) = Rules[g][r].id
    BY <1>3 DEF GroupResult
  <2> HIDE DEF H, r
  <2>4. r \in DOMAIN Rules[g] /\ Rules[g][r].id # 0
    BY <2>1, <2>2, HitIds
  <2>5. \A q \in DOMAIN Rules[g] : q > r => q \notin H
    BY <2>1, <2>2
  <2>6. QED
    BY <1>1, <2>2, <2>3, <2>4, <2>5
<1>4. QED
  BY <1>2, <1>3

\* All groups: the result of the first group that has one.
LEMMA FinalIdIsFirst ==
  ASSUME ScanInv, packet # <<>>, NEW p \in Lane
  PROVE  \/ /\ FinalId(history, p) = 0
            /\ \A g \in Group : GroupResult(history, g, p) = 0
         \/ \E g \in Group :
              /\ FinalId(history, p) = GroupResult(history, g, p)
              /\ GroupResult(history, g, p) # 0
              /\ \A h \in Group : h < g => GroupResult(history, h, p) = 0
<1> DEFINE G == HitGroups(history, p)
<1>1. G \subseteq Group /\ Group \subseteq Nat
  BY ScannerAssumption DEF HitGroups, Group
<1>2. CASE G = {}
  BY <1>2 DEF FinalId, HitGroups
<1>3. CASE G # {}
  <2> DEFINE g == CHOOSE x \in G : \A h \in G : x <= h
  <2>1. g \in G /\ \A h \in G : g <= h
    BY <1>1, <1>3, LeastExists
  <2>2. FinalId(history, p) = GroupResult(history, g, p)
    BY <1>3 DEF FinalId
  <2> HIDE DEF g
  <2>3. g \in Group /\ GroupResult(history, g, p) # 0
    BY <2>1 DEF HitGroups
  <2>4. \A h \in Group : h < g => GroupResult(history, h, p) = 0
    <3>1. \A h \in Group : h < g => h \notin G
      BY <1>1, <2>1, <2>3
    <3>2. QED
      BY <3>1 DEF HitGroups
  <2>5. QED
    BY <2>2, <2>3, <2>4
<1>4. QED
  BY <1>2, <1>3

\* The identifiers of the last call are those of the registers.
OutputOK ==
  \A p \in Lane : outIds[p] = IF packet = <<>> THEN 0 ELSE FinalId(history, p)

\* Whatever the registers hold, the results are identifiers or 0.
LEMMA OutIdsNat ==
  ASSUME NEW hist
  PROVE  [p \in Lane |-> FinalId(hist, p)] \in [Lane -> Nat]
<1>1. ASSUME NEW g \in Group, NEW p \in Lane
      PROVE  GroupResult(hist, g, p) \in Nat
  <2> DEFINE H == Hits(hist, g, p)
  <2>1. CASE H = {}
    BY <2>1 DEF GroupResult
  <2>2. CASE H # {}
    <3>1. H \subseteq DOMAIN Rules[g] /\ H \subseteq 1 .. Len(Rules[g]) /\ Len(Rules[g]) \in Nat
      BY <2>2, HitIds DEF Hits
    <3> DEFINE r == CHOOSE x \in H : \A y \in H : y <= x
    <3>2. r \in H
      BY <2>2, <3>1, GreatestExists
    <3>3. GroupResult(hist, g, p) = Rules[g][r].id
      BY <2>2 DEF GroupResult
    <3> HIDE DEF r, H
    <3>4. QED
      BY <3>1, <3>2, <3>3, HitIds
  <2>3. QED
    BY <2>1, <2>2
<1>2. ASSUME NEW p \in Lane
      PROVE  FinalId(hist, p) \in Nat
  <2> DEFINE G == HitGroups(hist, p)
  <2>1. G \subseteq Group /\ Group \subseteq Nat
    BY ScannerAssumption DEF HitGroups, Group
  <2>2. CASE G = {}
    BY <2>2 DEF FinalId
  <2>3. CASE G # {}
    <3> DEFINE g == CHOOSE x \in G : \A h \in G : x <= h
    <3>1. g \in Group
      BY <2>1, <2>3, LeastExists
    <3>2. FinalId(hist, p) = GroupResult(hist, g, p)
      BY <2>3 DEF FinalId
    <3> HIDE DEF g
    <3>3. QED
      BY <1>1, <3>1, <3>2
  <2>4. QED
    BY <2>2, <2>3
<1>3. QED
  BY <1>2

LEMMA ScanStep == ScanInv /\ OutputOK /\ [Next]_vars => ScanInv' /\ OutputOK'
<1> SUFFICES ASSUME ScanInv, OutputOK, [Next]_vars PROVE ScanInv' /\ OutputOK'
  OBVIOUS
<1>1. ASSUME NEW bytes, IsCall(bytes), NEW reset \in BOOLEAN,
             reset \/ packet # <<>>, dcam_step_multi(bytes, reset)
      PROVE  ScanInv' /\ OutputOK'
  <2>1. /\ history' \in [Group -> [Byte -> [Offset -> {0, 1}]]]
        /\ packet' \in Seq(Byte) /\ Len(packet') >= DCAM_P
        /\ HistoryMirrorsPacket'
    BY <1>1, ScanCall
  <2>2. packet' # <<>>
    <3>1. packet' = <<>> => Len(packet') = 0
      OBVIOUS
    <3>2. QED
      BY <2>1, <3>1 DEF DCAM_P
  <2>3. outIds' = [p \in Lane |-> FinalId(history', p)]
    BY <1>1 DEF dcam_step_multi
  <2>4. OutputOK'
    BY <2>2, <2>3 DEF OutputOK
  <2>5. PacketOK'
    BY <2>1 DEF PacketOK
  <2>6. outIds' \in [Lane -> Nat]
    BY <2>1, <2>2, <2>3, OutIdsNat
  <2>7. QED
    BY <2>1, <2>4, <2>5, <2>6 DEF ScanInv, TypeOK
<1>2. ASSUME NEW b1 \in Byte, NEW b2 \in Byte,
             FirstBytes(<<b1, b2>>) \/ LaterBytes(<<b1, b2>>)
      PROVE  ScanInv' /\ OutputOK'
  BY <1>1, <1>2, CallPair DEF FirstBytes, LaterBytes
<1>3. CASE UNCHANGED vars
  BY <1>3 DEF vars, ScanInv, OutputOK, TypeOK, PacketOK, HistoryMirrorsPacket
<1>4. QED
  BY <1>2, <1>3 DEF Next

LEMMA ScanInvariant == Spec => [](ScanInv /\ OutputOK)
<1>1. Init => OutputOK
  BY DEF Init, OutputOK
<1>2. QED
  BY <1>1, ScanInit, ScanStep, PTL DEF Spec

----------------------------------------------------------------------------
\* The shift registers hold exactly the recent past of the current packet, for
\* every rule set and every sequence of packets (scanner.cpp:55-76).
THEOREM HistoryCorrect == Spec => []HistoryMirrorsPacket
<1>1. ScanInv => HistoryMirrorsPacket
  BY DEF ScanInv
<1>2. QED
  BY <1>1, ScanInvariant, PTL

\* What the scanner reports is a matter of its state alone.
LEMMA DetectionState == ScanInv /\ OutputOK => DetectsExactlyVisible
<1> SUFFICES ASSUME ScanInv, OutputOK, packet # <<>>, NEW p \in Lane
             PROVE  outIds[p] # 0 <=>
                      \E g \in Group : \E r \in DOMAIN Rules[g] : VisibleAt(g, r, EndOf(p))
  BY DEF DetectsExactlyVisible
<1>1. outIds[p] = FinalId(history, p)
  BY DEF OutputOK
<1>2. \A g \in Group : GroupResult(history, g, p) # 0 <=>
                       \E r \in DOMAIN Rules[g] : VisibleAt(g, r, EndOf(p))
  BY GroupResultIsLast
<1>3. FinalId(history, p) # 0 <=> \E g \in Group : GroupResult(history, g, p) # 0
  BY FinalIdIsFirst
<1>4. QED
  BY <1>1, <1>2, <1>3

LEMMA PriorityState == ScanInv /\ OutputOK => ReportsPriorityRule
<1> SUFFICES ASSUME ScanInv, OutputOK, NEW p \in Lane, outIds[p] # 0
             PROVE  \E g \in Group : \E r \in DOMAIN Rules[g] :
                      /\ outIds[p] = Rules[g][r].id
                      /\ VisibleAt(g, r, EndOf(p))
                      /\ \A q \in DOMAIN Rules[g] : q > r => ~VisibleAt(g, q, EndOf(p))
                      /\ \A h \in Group : h < g =>
                           \A q \in DOMAIN Rules[h] : ~VisibleAt(h, q, EndOf(p))
  BY DEF ReportsPriorityRule
<1>1. packet # <<>> /\ outIds[p] = FinalId(history, p)
  BY DEF OutputOK
<1>2. PICK g \in Group : /\ FinalId(history, p) = GroupResult(history, g, p)
                         /\ GroupResult(history, g, p) # 0
                         /\ \A h \in Group : h < g => GroupResult(history, h, p) = 0
  BY <1>1, FinalIdIsFirst
<1>3. \A h \in Group : h < g => \A q \in DOMAIN Rules[h] : ~VisibleAt(h, q, EndOf(p))
  BY <1>1, <1>2, GroupResultIsLast
<1>4. PICK r \in DOMAIN Rules[g] :
        /\ GroupResult(history, g, p) = Rules[g][r].id
        /\ VisibleAt(g, r, EndOf(p))
        /\ \A q \in DOMAIN Rules[g] : q > r => ~VisibleAt(g, q, EndOf(p))
  BY <1>1, <1>2, GroupResultIsLast
<1>5. QED
  BY <1>1, <1>2, <1>3, <1>4

\* A byte is reported iff a pattern ends there that does not touch the packet's
\* first DCAM_P bytes: sound and complete detection (scanner.cpp:46-101).
THEOREM DetectionExact == Spec => []DetectsExactlyVisible
BY DetectionState, ScanInvariant, PTL

\* The rule reported is the last visible one of the first group that has any
\* (scanner.cpp:39-40 and 89-100).
THEOREM PriorityExact == Spec => []ReportsPriorityRule
BY PriorityState, ScanInvariant, PTL

Events == [id : Nat \ {0}, byte_index : Nat, lane : Lane, packet : Nat]

Whole(x) == \E j \in Nat : x = j * BeatBytes

Place(q) == q.packet * PacketBytes + q.offset

Follows(q, packet_idx, offset) ==
  IF q.last THEN packet_idx = q.packet + 1 /\ offset = 0
  ELSE packet_idx = q.packet /\ offset = q.offset + BeatBytes

BeatOK(q) ==
  /\ q \in [bytes : Seq(Byte), last : BOOLEAN, packet : Nat, offset : Nat]
  /\ Len(q.bytes) = BeatBytes
  /\ Whole(q.offset) /\ q.offset + BeatBytes <= PacketBytes /\ Place(q) < Len(test.data)
  /\ \A k \in 1 .. BeatBytes : q.bytes[k] = Padded(Place(q) + k - 1)
  /\ q.last <=> \/ q.offset + BeatBytes >= PacketBytes
                \/ Place(q) + BeatBytes >= Len(test.data)

PhaseOK ==
  phase \in {"send", "scan", "collect", "receive", "parse", "judge", "done"}

SendInv ==
  /\ test \in Tests
  /\ bytes_sent \in Nat /\ beat_offset \in Nat /\ sent \in Nat
  /\ phase = "send" =>
       /\ bytes_sent = sent * PacketBytes
       /\ Whole(beat_offset) /\ beat_offset + BeatBytes <= PacketBytes
       /\ bytes_sent + beat_offset < Len(test.data)
       /\ IF n2k = <<>> THEN sent = 0 /\ beat_offset = 0
          ELSE /\ Follows(n2k[Len(n2k)], sent, beat_offset)
               /\ n2k[1].packet = 0 /\ n2k[1].offset = 0

BeatsInv ==
  /\ n2k \in Seq([bytes : Seq(Byte), last : BOOLEAN, packet : Nat, offset : Nat])
  /\ \A k \in 1 .. Len(n2k) : BeatOK(n2k[k])
  /\ \A k \in 1 .. Len(n2k) - 1 : Follows(n2k[k], n2k[k + 1].packet, n2k[k + 1].offset)
  /\ phase \notin {"send", "scan"} => n2k = <<>>

PosInv ==
  /\ pair \in Nat /\ packet_byte_idx \in Nat
  /\ DCAM_P * pair + DCAM_P <= BeatBytes
  /\ phase = "send" => pair = 0 /\ packet_byte_idx = 0
  /\ phase = "scan" /\ n2k # <<>> =>
       /\ packet_byte_idx = n2k[1].offset
       /\ Place(n2k[Len(n2k)]) + BeatBytes >= Len(test.data)
       /\ packet_byte_idx + DCAM_P * pair > 0 =>
            /\ Len(packet) = packet_byte_idx + DCAM_P * pair
            /\ \A j \in 1 .. Len(packet) :
                 packet[j] = Padded(n2k[1].packet * PacketBytes + j - 1)

SeenAt(x, n, i) ==
  LET pat == PatternAt(x)
  IN  /\ i - Len(pat) + 1 >= DCAM_P
      /\ \A k \in 1 .. Len(pat) : Padded(n * PacketBytes + i - Len(pat) + k) = pat[k]

FirstRuleAt(x, n, i) ==
  SeenAt(x, n, i) /\ \A y \in RulePlaces : SeenAt(y, n, i) => ~Outranks(y, x)

SoundInv ==
  \A e \in reported :
    /\ e \in Events
    /\ e.byte_index < PacketBytes /\ e.packet * PacketBytes < Len(test.data)
    /\ Whole(Len(test.data)) => e.packet * PacketBytes + e.byte_index < Len(test.data)
    /\ \E x \in RulePlaces : e.id = IdAt(x) /\ FirstRuleAt(x, e.packet, e.byte_index)

IsScanned(n, i) ==
  /\ phase # "send"
  /\ phase = "scan" /\ n2k # <<>> =>
       \/ n < n2k[1].packet
       \/ n = n2k[1].packet /\ i < packet_byte_idx + DCAM_P * pair

CompleteInv ==
  \A n \in 0 .. Len(test.data), i \in 0 .. PacketBytes - 1 :
    IsScanned(n, i) /\ n * PacketBytes + i < Len(test.data)
      /\ (\E x \in RulePlaces : SeenAt(x, n, i)) =>
      \E e \in reported : e.packet = n /\ e.byte_index = i

----------------------------------------------------------------------------
LEMMA Sizes ==
  /\ BeatBytes \in Nat \ {0} /\ PacketBytes \in Nat \ {0} /\ Slots \in Nat \ {0}
  /\ PlacedSize \in Nat \ {0}
  /\ BeatBytes % 2 = 0 /\ BeatBytes >= 2
  /\ Zero \in Byte /\ Background \in Byte
<1>1. BeatBytes \in Nat \ {0} /\ PacketBytes \in Nat \ {0} /\ Slots \in Nat \ {0}
      /\ PlacedSize \in Nat \ {0} /\ BeatBytes % 2 = 0
  BY TestBenchAssumption DEF DCAM_P
<1>2. BeatBytes >= 2
  BY <1>1
<1>3. QED
  BY <1>1, <1>2, TestBenchAssumption

LEMMA TimesMonotonic ==
  ASSUME NEW a \in Nat, NEW b \in Nat, NEW c \in Nat, a <= b
  PROVE  a * c <= b * c /\ a * c \in Nat /\ b * c \in Nat
<1>1. PICK d \in Nat : b = a + d
  <2>1. b - a \in Nat /\ b = a + (b - a)
    OBVIOUS
  <2>2. QED
    BY <2>1
<1>2. (a + d) * c = a * c + d * c /\ d * c \in Nat /\ a * c \in Nat
  OBVIOUS
<1>3. QED
  BY <1>1, <1>2

LEMMA WholeSizes == Whole(PacketBytes) /\ Whole(PlacedSize) /\ Whole(0)
<1>1. ASSUME NEW n \in Nat, n % BeatBytes = 0
      PROVE  Whole(n)
  <2>1. n \div BeatBytes \in Nat /\ n = BeatBytes * (n \div BeatBytes) + (n % BeatBytes)
    BY Sizes
  <2>2. n = (n \div BeatBytes) * BeatBytes
    BY <1>1, <2>1, Sizes
  <2>3. QED
    BY <2>1, <2>2 DEF Whole
<1>2. 0 = 0 * BeatBytes
  BY Sizes
<1>3. QED
  BY <1>1, <1>2, Sizes, TestBenchAssumption DEF Whole

\* The next whole number of beats.
LEMMA WholeNext ==
  ASSUME NEW x \in Nat, NEW y \in Nat, Whole(x), Whole(y)
  PROVE  Whole(x + y) /\ Whole(x + BeatBytes) /\ (x < y => x + BeatBytes <= y)
<1>1. PICK i \in Nat : x = i * BeatBytes
  BY DEF Whole
<1>2. PICK j \in Nat : y = j * BeatBytes
  BY DEF Whole
<1>3. x + y = (i + j) * BeatBytes /\ x + BeatBytes = (i + 1) * BeatBytes
  BY <1>1, <1>2, Sizes
<1>4. ASSUME x < y PROVE i < j
  <2>1. SUFFICES ASSUME j <= i PROVE FALSE
    OBVIOUS
  <2>2. j * BeatBytes <= i * BeatBytes
    BY <2>1, TimesMonotonic, Sizes
  <2>3. QED
    BY <1>1, <1>2, <1>4, <2>2
<1>5. ASSUME x < y PROVE x + BeatBytes <= y
  <2>1. i + 1 <= j /\ i + 1 \in Nat
    BY <1>4, <1>5
  <2>2. (i + 1) * BeatBytes <= j * BeatBytes
    BY <2>1, TimesMonotonic, Sizes
  <2>3. QED
    BY <1>2, <1>3, <2>2
<1>6. QED
  BY <1>3, <1>5 DEF Whole

LEMMA WholeTimes ==
  ASSUME NEW n \in Nat
  PROVE  Whole(n * PacketBytes) /\ n * PacketBytes \in Nat
         /\ (n + 1) * PacketBytes = n * PacketBytes + PacketBytes
<1>1. PICK c \in Nat : PacketBytes = c * BeatBytes
  BY WholeSizes DEF Whole
<1>2. n * (c * BeatBytes) = (n * c) * BeatBytes /\ n * c \in Nat
  BY Sizes
<1>3. QED
  BY <1>1, <1>2, Sizes DEF Whole

\* Two places in different packets are in the order of the packets.
LEMMA PlacesApart ==
  ASSUME NEW n \in Nat, NEW m \in Nat, NEW i \in 0 .. PacketBytes - 1, NEW j \in Nat,
         n * PacketBytes + i >= m * PacketBytes
  PROVE  m <= n
<1>1. SUFFICES ASSUME n + 1 <= m PROVE FALSE
  OBVIOUS
<1>2. (n + 1) * PacketBytes <= m * PacketBytes
  BY <1>1, TimesMonotonic, Sizes
<1>3. QED
  BY <1>2, WholeTimes, Sizes

----------------------------------------------------------------------------
LEMMA TestTypes ==
  ASSUME NEW t \in Tests
  PROVE  t.data \in Seq(Byte) /\ Len(t.data) \in Nat \ {0}
<1>1. ASSUME NEW d \in [1 .. PlacedSize -> Byte]
      PROVE  d \in Seq(Byte) /\ Len(d) \in Nat \ {0}
  BY Sizes
<1>2. CASE t \in BlindTests
  <2>1. t.data \in RandomData \cup {Silence}
    BY <1>2 DEF BlindTests
  <2>2. Silence \in [1 .. PlacedSize -> Byte]
    BY Sizes DEF Silence
  <2>3. \A d \in RandomData : d \in Seq(Byte) /\ d # <<>>
    BY TestBenchAssumption
  <2>4. \A d \in Seq(Byte) : d # <<>> => Len(d) \in Nat \ {0}
    OBVIOUS
  <2>5. QED
    BY <1>1, <2>1, <2>2, <2>3, <2>4
<1>3. CASE t \in PatternTests
  <2>1. PICK x \in RulePlaces, pos \in 0 .. PlacedSize - 1 : t.data = Placed(PatternAt(x), pos)
    BY <1>3 DEF PatternTests
  <2>2. PatternAt(x) \in Seq(Byte)
    BY HitIds DEF RulePlaces, PatternAt
  <2>3. \A k \in DOMAIN PatternAt(x) : PatternAt(x)[k] \in Byte
    BY <2>2
  <2>4. Placed(PatternAt(x), pos) \in [1 .. PlacedSize -> Byte]
    BY <2>3, Sizes DEF Placed
  <2>5. QED
    BY <1>1, <2>1, <2>4
<1>4. QED
  BY <1>2, <1>3 DEF Tests

LEMMA PaddedByte ==
  ASSUME test \in Tests, NEW i \in Nat
  PROVE  Padded(i) \in Byte
<1>1. test.data \in Seq(Byte) /\ Len(test.data) \in Nat
  BY TestTypes
<1>2. ASSUME i < Len(test.data) PROVE test.data[i + 1] \in Byte
  BY <1>1, <1>2
<1>3. QED
  BY <1>2, Sizes DEF Padded

LEMMA PlaceTypes ==
  ASSUME NEW x \in RulePlaces
  PROVE  /\ x = <<x[1], x[2]>> /\ x[1] \in Group /\ x[2] \in DOMAIN Rules[x[1]]
         /\ PatternAt(x) = Rules[x[1]][x[2]].pat /\ IdAt(x) = Rules[x[1]][x[2]].id
         /\ PatternAt(x) \in Seq(Byte) /\ Len(PatternAt(x)) \in Nat \ {0}
         /\ IdAt(x) \in Nat \ {0} /\ x[1] \in Nat /\ x[2] \in Nat
<1>1. x = <<x[1], x[2]>> /\ x[1] \in Group /\ x[2] \in DOMAIN Rules[x[1]]
  BY DEF RulePlaces
<1>2. QED
  BY <1>1, HitIds DEF PatternAt, IdAt

LEMMA AppendOne ==
  ASSUME NEW S, NEW s \in Seq(S), NEW e \in S
  PROVE  /\ Append(s, e) \in Seq(S) /\ Len(Append(s, e)) = Len(s) + 1 /\ Len(s) \in Nat
         /\ \A k \in 1 .. Len(s) : Append(s, e)[k] = s[k]
         /\ Append(s, e)[Len(s) + 1] = e
         /\ Append(s, e) # <<>>
OBVIOUS

LEMMA TailOne ==
  ASSUME NEW S, NEW s \in Seq(S), s # <<>>
  PROVE  /\ Tail(s) \in Seq(S) /\ Len(Tail(s)) = Len(s) - 1 /\ Len(s) \in Nat \ {0}
         /\ \A k \in 1 .. Len(s) - 1 : Tail(s)[k] = s[k + 1]
         /\ Head(s) = s[1] /\ s[1] \in S
OBVIOUS

LEMMA EmptyLen ==
  ASSUME NEW S, NEW s \in Seq(S)
  PROVE  s = <<>> <=> Len(s) = 0
OBVIOUS

BeatType == [bytes : Seq(Byte), last : BOOLEAN, packet : Nat, offset : Nat]

DataInv == PhaseOK /\ SendInv /\ BeatsInv /\ PosInv

----------------------------------------------------------------------------
LEMMA DataInit == TestBenchInit => DataInv
<1> SUFFICES ASSUME TestBenchInit PROVE DataInv
  OBVIOUS
<1>1. test \in Tests /\ Len(test.data) \in Nat \ {0}
  BY TestTypes DEF TestBenchInit
<1>2. 0 * PacketBytes = 0 /\ 0 + BeatBytes <= PacketBytes
  BY WholeSizes, WholeNext, Sizes
<1>3. n2k = <<>> /\ n2k \in Seq(BeatType) /\ Len(n2k) = 0
  BY DEF TestBenchInit
<1>4. SendInv
  BY <1>1, <1>2, WholeSizes, Sizes DEF TestBenchInit, SendInv
<1>5. BeatsInv
  BY <1>3 DEF BeatsInv, BeatType, TestBenchInit
<1>6. PosInv
  BY <1>3, Sizes DEF PosInv, TestBenchInit, DCAM_P
<1>7. QED
  BY <1>4, <1>5, <1>6 DEF DataInv, PhaseOK, TestBenchInit

\* The beat that send_data writes.
NewBeat ==
  [bytes  |-> [k \in 1 .. BeatBytes |-> Padded(bytes_sent + beat_offset + k - 1)],
   last   |-> IsLastBeat, packet |-> sent, offset |-> beat_offset]

LEMMA NewBeatOK ==
  ASSUME DataInv, phase = "send"
  PROVE  /\ NewBeat \in BeatType /\ BeatOK(NewBeat)
         /\ Place(NewBeat) = bytes_sent + beat_offset
         /\ NewBeat.last <=> IsLastBeat
         /\ NewBeat.packet = sent /\ NewBeat.offset = beat_offset
<1>1. /\ bytes_sent \in Nat /\ beat_offset \in Nat /\ sent \in Nat /\ test \in Tests
      /\ bytes_sent = sent * PacketBytes
      /\ Whole(beat_offset) /\ beat_offset + BeatBytes <= PacketBytes
      /\ bytes_sent + beat_offset < Len(test.data)
  BY DEF DataInv, SendInv
<1>2. \A k \in 1 .. BeatBytes : bytes_sent + beat_offset + k - 1 \in Nat
  BY <1>1, Sizes
<1> DEFINE bs == [k \in 1 .. BeatBytes |-> Padded(bytes_sent + beat_offset + k - 1)]
<1>3. bs \in [1 .. BeatBytes -> Byte]
  BY <1>1, <1>2, PaddedByte
<1>4. bs \in Seq(Byte) /\ Len(bs) = BeatBytes
  BY <1>3, Sizes
<1>5. \A k \in 1 .. BeatBytes : bs[k] = Padded(bytes_sent + beat_offset + k - 1)
  OBVIOUS
<1>6. IsLastBeat \in BOOLEAN
  BY DEF IsLastBeat
<1> HIDE DEF bs
<1>7. NewBeat = [bytes |-> bs, last |-> IsLastBeat, packet |-> sent, offset |-> beat_offset]
  BY DEF NewBeat, bs
<1>8. NewBeat \in BeatType
  BY <1>1, <1>4, <1>6, <1>7 DEF BeatType
<1>9. /\ NewBeat.bytes = bs /\ NewBeat.last = IsLastBeat
      /\ NewBeat.packet = sent /\ NewBeat.offset = beat_offset
  BY <1>7, Zenon
<1>10. Place(NewBeat) = bytes_sent + beat_offset
  BY <1>1, <1>9 DEF Place
<1>11. IsLastBeat <=> \/ beat_offset + BeatBytes >= PacketBytes
                      \/ bytes_sent + beat_offset + BeatBytes >= Len(test.data)
  BY DEF IsLastBeat
<1>12. BeatOK(NewBeat)
  BY <1>1, <1>4, <1>5, <1>8, <1>9, <1>10, <1>11 DEF BeatOK, BeatType
<1>13. QED
  BY <1>8, <1>9, <1>10, <1>12

LEMMA DataSendBeat == DataInv /\ SendBeat => DataInv'
<1> SUFFICES ASSUME DataInv, SendBeat PROVE DataInv'
  OBVIOUS
<1>1. /\ phase = "send" /\ n2k' = Append(n2k, NewBeat)
      /\ test' = test /\ pair' = pair /\ packet_byte_idx' = packet_byte_idx
      /\ phase' = IF bytes_sent' < Len(test.data) THEN "send" ELSE "scan"
  BY DEF SendBeat, NewBeat, scanVars
<1>2. /\ bytes_sent \in Nat /\ beat_offset \in Nat /\ sent \in Nat /\ test \in Tests
      /\ bytes_sent = sent * PacketBytes
      /\ Whole(beat_offset) /\ beat_offset + BeatBytes <= PacketBytes
      /\ bytes_sent + beat_offset < Len(test.data)
      /\ IF n2k = <<>> THEN sent = 0 /\ beat_offset = 0
         ELSE /\ Follows(n2k[Len(n2k)], sent, beat_offset)
              /\ n2k[1].packet = 0 /\ n2k[1].offset = 0
  BY <1>1 DEF DataInv, SendInv
<1>3. Len(test.data) \in Nat \ {0}
  BY <1>2, TestTypes
<1>a. /\ bytes_sent \in Nat /\ beat_offset \in Nat /\ beat_offset + BeatBytes <= PacketBytes
      /\ bytes_sent + beat_offset < Len(test.data) /\ sent \in Nat
  BY <1>2
<1>b. bytes_sent = sent * PacketBytes
  BY <1>2
<1>c. Whole(beat_offset)
  BY <1>2
<1>4. /\ NewBeat \in BeatType /\ BeatOK(NewBeat) /\ Place(NewBeat) = bytes_sent + beat_offset
      /\ (NewBeat.last <=> IsLastBeat) /\ NewBeat.packet = sent /\ NewBeat.offset = beat_offset
  BY <1>1, NewBeatOK
<1>5. n2k \in Seq(BeatType)
  BY DEF DataInv, BeatsInv, BeatType
<1>6. /\ n2k' \in Seq(BeatType) /\ Len(n2k') = Len(n2k) + 1 /\ Len(n2k) \in Nat
      /\ \A k \in 1 .. Len(n2k) : n2k'[k] = n2k[k]
      /\ n2k'[Len(n2k) + 1] = NewBeat /\ n2k' # <<>>
  BY <1>1, <1>4, <1>5, AppendOne
<1>7. /\ bytes_sent' \in Nat /\ beat_offset' \in Nat /\ sent' \in Nat
      /\ phase' = "send" =>
           /\ bytes_sent' = sent' * PacketBytes
           /\ Whole(beat_offset') /\ beat_offset' + BeatBytes <= PacketBytes
           /\ bytes_sent' + beat_offset' < Len(test.data)
           /\ Follows(NewBeat, sent', beat_offset')
      /\ phase' = "scan" => Place(NewBeat) + BeatBytes >= Len(test.data)
  <2>1. CASE IsLastBeat
    <3>1. /\ beat_offset' = 0 /\ sent' = sent + 1
          /\ bytes_sent' = IF Len(test.data) - bytes_sent > PacketBytes
                           THEN bytes_sent + PacketBytes ELSE Len(test.data)
      BY <2>1 DEF SendBeat
    <3>2. (sent + 1) * PacketBytes = bytes_sent + PacketBytes
      BY <1>2, WholeTimes
    <3>3. 0 + BeatBytes <= PacketBytes /\ Whole(0)
      BY WholeSizes, WholeNext, Sizes
    <3>4. \/ beat_offset + BeatBytes >= PacketBytes
          \/ bytes_sent + beat_offset + BeatBytes >= Len(test.data)
      BY <2>1 DEF IsLastBeat
    <3>5. Follows(NewBeat, sent', beat_offset')
      BY <1>4, <2>1, <3>1 DEF Follows
    <3>6. CASE Len(test.data) - bytes_sent > PacketBytes
      <4>1. bytes_sent' = bytes_sent + PacketBytes /\ phase' = "send"
        BY <1>1, <1>a, <1>3, <3>1, <3>6, Sizes
      <4>2. bytes_sent' \in Nat /\ sent' \in Nat /\ bytes_sent' + 0 < Len(test.data)
        BY <1>a, <1>3, <3>1, <3>6, <4>1, Sizes
      <4>3. bytes_sent' = sent' * PacketBytes
        BY <3>1, <3>2, <4>1
      <4>4. "send" # "scan" /\ beat_offset' \in Nat
        BY <3>1
      <4>5. QED
        BY <3>1, <3>3, <3>5, <4>1, <4>2, <4>3, <4>4, Zenon
    <3>7. CASE ~(Len(test.data) - bytes_sent > PacketBytes)
      <4>1. bytes_sent' = Len(test.data) /\ phase' = "scan"
        BY <1>1, <1>2, <1>3, <3>1, <3>7, Sizes
      <4>2. bytes_sent + beat_offset + BeatBytes >= Len(test.data)
        BY <1>a, <1>3, <3>4, <3>7, Sizes
      <4>3. sent' \in Nat /\ beat_offset' \in Nat /\ bytes_sent' \in Nat
        BY <1>a, <1>3, <3>1, <4>1
      <4>4. QED
        BY <1>4, <4>1, <4>2, <4>3
    <3>8. QED
      BY <3>6, <3>7
  <2>2. CASE ~IsLastBeat
    <3>1. beat_offset' = beat_offset + BeatBytes /\ sent' = sent /\ bytes_sent' = bytes_sent
      BY <2>2 DEF SendBeat
    <3>2. phase' = "send"
      BY <1>1, <1>2, <1>3, <3>1
    <3>3. /\ beat_offset + BeatBytes < PacketBytes
          /\ bytes_sent + beat_offset + BeatBytes < Len(test.data)
      BY <1>a, <1>3, <2>2, Sizes DEF IsLastBeat
    <3>4. Whole(beat_offset + BeatBytes) /\ beat_offset + BeatBytes \in Nat
      BY <1>a, <1>c, WholeNext, WholeSizes, Sizes
    <3>5. beat_offset + BeatBytes + BeatBytes <= PacketBytes
      BY <3>3, <3>4, WholeNext, WholeSizes, Sizes
    <3>6. Follows(NewBeat, sent', beat_offset')
      BY <1>4, <2>2, <3>1 DEF Follows
    <3>7. bytes_sent' + beat_offset' < Len(test.data)
      BY <1>2, <3>1, <3>3, Sizes
    <3>8. QED
      BY <1>2, <3>1, <3>2, <3>4, <3>5, <3>6, <3>7
  <2>3. QED
    BY <2>1, <2>2
<1>8. Len(n2k') = 1 => n2k = <<>>
  BY <1>5, <1>6, EmptyLen
<1>9. n2k'[1].packet = 0 /\ n2k'[1].offset = 0
  <2>1. CASE n2k = <<>>
    <3>1. Len(n2k) = 0
      BY <1>5, <2>1, EmptyLen
    <3>2. n2k'[1] = NewBeat
      BY <1>6, <3>1
    <3>3. QED
      BY <1>2, <1>4, <2>1, <3>2
  <2>2. CASE n2k # <<>>
    <3>1. 1 \in 1 .. Len(n2k)
      BY <1>5, <1>6, <2>2, EmptyLen
    <3>2. QED
      BY <1>2, <1>6, <2>2, <3>1
  <2>3. QED
    BY <2>1, <2>2
<1>10. SendInv'
  <2>1. n2k'[Len(n2k')] = NewBeat
    BY <1>6
  <2>2. QED
    BY <1>1, <1>2, <1>6, <1>7, <1>9, <2>1 DEF SendInv
<1>11. BeatsInv'
  <2>2. \A k \in 1 .. Len(n2k) : BeatOK(n2k[k])
    BY DEF DataInv, BeatsInv
  <2>3. ASSUME NEW k \in 1 .. Len(n2k')
        PROVE  BeatOK(n2k[k])'
    <3>1. k \in 1 .. Len(n2k) \/ k = Len(n2k) + 1
      BY <1>6
    <3>2. BeatOK(n2k'[k])
      BY <1>4, <1>6, <2>2, <3>1
    <3>3. QED
      BY <1>1, <3>2 DEF BeatOK, Padded, Place
  <2>4. ASSUME NEW k \in 1 .. Len(n2k') - 1
        PROVE  Follows(n2k[k], n2k[k + 1].packet, n2k[k + 1].offset)'
    <3>1. CASE k = Len(n2k)
      <4>1. n2k # <<>> /\ k \in 1 .. Len(n2k)
        BY <1>5, <1>6, <3>1, EmptyLen
      <4>2. n2k'[k] = n2k[Len(n2k)] /\ n2k'[k + 1] = NewBeat
        BY <1>6, <3>1, <4>1
      <4>3. QED
        BY <1>2, <1>4, <4>1, <4>2 DEF Follows
    <3>2. CASE k # Len(n2k)
      <4>1. k \in 1 .. Len(n2k) - 1 /\ k \in 1 .. Len(n2k) /\ k + 1 \in 1 .. Len(n2k)
        BY <1>6, <3>2
      <4>2. n2k'[k] = n2k[k] /\ n2k'[k + 1] = n2k[k + 1]
        BY <1>6, <4>1
      <4>3. QED
        BY <4>1, <4>2 DEF DataInv, BeatsInv, Follows
    <3>3. QED
      BY <3>1, <3>2
  <2>5. phase' \in {"send", "scan"}
    BY <1>1
  <2>6. QED
    BY <1>6, <2>3, <2>4, <2>5 DEF BeatsInv, BeatType
<1>12. PosInv'
  <2>1. pair = 0 /\ packet_byte_idx = 0
    BY <1>1 DEF DataInv, PosInv
  <2>2. n2k'[Len(n2k')] = NewBeat
    BY <1>6
  <2>3. phase' = "scan" => Place(n2k'[Len(n2k')]) + BeatBytes >= Len(test'.data)
    BY <1>1, <1>7, <2>2
  <2>4. DCAM_P * pair = 0 /\ DCAM_P * pair + DCAM_P <= BeatBytes
    BY <2>1, Sizes DEF DCAM_P
  <2>5. QED
    BY <1>1, <1>9, <2>1, <2>3, <2>4 DEF PosInv, Place
<1>13. QED
  BY <1>1, <1>10, <1>11, <1>12 DEF DataInv, PhaseOK

LEMMA PairOf ==
  ASSUME NEW S, NEW s \in Seq(S), NEW a \in Nat \ {0}, a + 1 <= Len(s)
  PROVE  SubSeq(s, a, a + 1) = <<s[a], s[a + 1]>>
<1> DEFINE t == SubSeq(s, a, a + 1)
<1>1. Len(s) \in Nat /\ a \in 1 .. Len(s) /\ a + 1 \in 1 .. Len(s)
  OBVIOUS
<1>2. s[a] \in S /\ s[a + 1] \in S
  BY <1>1
<1>3. /\ t \in Seq(S) /\ Len(t) = (a + 1) - a + 1
      /\ \A i \in 1 .. (a + 1) - a + 1 : t[i] = s[a + i - 1]
  BY <1>1, SubSeqProperties
<1>4. (a + 1) - a + 1 = 2 /\ a + 1 - 1 = a /\ a + 2 - 1 = a + 1 /\ 1 \in 1 .. 2 /\ 2 \in 1 .. 2
  OBVIOUS
<1>5. Len(t) = 2 /\ t[1] = s[a] /\ t[2] = s[a + 1]
  BY <1>3, <1>4
<1> HIDE DEF t
<1>6. /\ <<s[a], s[a + 1]>> \in Seq(S) /\ Len(<<s[a], s[a + 1]>>) = 2
      /\ <<s[a], s[a + 1]>>[1] = s[a] /\ <<s[a], s[a + 1]>>[2] = s[a + 1]
  BY <1>2
<1>7. \A i \in 1 .. Len(t) : t[i] = <<s[a], s[a + 1]>>[i]
  <2>1. \A i \in 1 .. Len(t) : i = 1 \/ i = 2
    BY <1>5
  <2>2. QED
    BY <1>5, <1>6, <2>1, Zenon
<1>8. t = <<s[a], s[a + 1]>>
  BY <1>3, <1>5, <1>6, <1>7, SeqEqual
<1>9. QED
  BY <1>8 DEF t

\* The bytes of the next call are those of the data.
LEMMA CallBytes ==
  ASSUME DataInv, phase = "scan", n2k # <<>>
  PROVE  /\ Head(n2k) = n2k[1] /\ BeatOK(n2k[1]) /\ n2k[1] \in BeatType
         /\ \E b1, b2 \in Byte : Bytes = <<b1, b2>>
         /\ Bytes[1] = Padded(Place(n2k[1]) + 2 * pair)
         /\ Bytes[2] = Padded(Place(n2k[1]) + 2 * pair + 1)
         /\ packet_byte_idx = n2k[1].offset
         /\ packet_byte_idx + 2 * pair + 2 <= PacketBytes
<1>1. n2k \in Seq(BeatType) /\ Len(n2k) \in Nat
  BY DEF DataInv, BeatsInv, BeatType
<1>2. 1 \in 1 .. Len(n2k)
  BY <1>1, EmptyLen
<1>3. Head(n2k) = n2k[1] /\ n2k[1] \in BeatType
  BY <1>1, TailOne
<1>4. BeatOK(n2k[1])
  BY <1>2 DEF DataInv, BeatsInv
<1> DEFINE bs == n2k[1].bytes
<1>5. /\ bs \in Seq(Byte) /\ Len(bs) = BeatBytes
      /\ \A k \in 1 .. BeatBytes : bs[k] = Padded(Place(n2k[1]) + k - 1)
      /\ n2k[1].offset + BeatBytes <= PacketBytes /\ n2k[1].offset \in Nat
  BY <1>3, <1>4 DEF BeatOK, BeatType
<1>6. pair \in Nat /\ 2 * pair + 2 <= BeatBytes /\ packet_byte_idx = n2k[1].offset
  BY DEF DataInv, PosInv, DCAM_P
<1>7. 2 * pair + 1 \in 1 .. BeatBytes /\ 2 * pair + 2 \in 1 .. BeatBytes
  BY <1>6, Sizes
<1>8. Place(n2k[1]) \in Nat
  <2>1. n2k[1].packet \in Nat /\ n2k[1].offset \in Nat
    BY <1>3 DEF BeatType
  <2>2. QED
    BY <2>1, Sizes DEF Place
<1> HIDE DEF bs
<1>9. bs[2 * pair + 1] \in Byte /\ bs[2 * pair + 2] \in Byte
  BY <1>5, <1>7
<1>10. SubSeq(bs, 2 * pair + 1, 2 * pair + 2) = <<bs[2 * pair + 1], bs[2 * pair + 2]>>
  <2>1. /\ 2 * pair + 1 \in Nat \ {0} /\ (2 * pair + 1) + 1 = 2 * pair + 2
        /\ (2 * pair + 1) + 1 <= Len(bs)
    BY <1>5, <1>6, <1>7
  <2>2. QED
    BY <1>5, <2>1, PairOf
<1>11. Bytes = <<bs[2 * pair + 1], bs[2 * pair + 2]>>
  BY <1>3, <1>10 DEF Bytes, DCAM_P, bs
<1>12. /\ bs[2 * pair + 1] = Padded(Place(n2k[1]) + (2 * pair + 1) - 1)
       /\ bs[2 * pair + 2] = Padded(Place(n2k[1]) + (2 * pair + 2) - 1)
  BY <1>5, <1>7
<1>13. /\ Place(n2k[1]) + (2 * pair + 1) - 1 = Place(n2k[1]) + 2 * pair
       /\ Place(n2k[1]) + (2 * pair + 2) - 1 = Place(n2k[1]) + 2 * pair + 1
  BY <1>6, <1>8
<1>14. packet_byte_idx + 2 * pair + 2 <= PacketBytes
  BY <1>5, <1>6, Sizes
<1>15. QED
  BY <1>3, <1>4, <1>6, <1>9, <1>11, <1>12, <1>13, <1>14

\* A turn of byte_loop is a call of the scanner.
LEMMA PairIsCall ==
  ASSUME DataInv, ScanPair
  PROVE  Next
<1>1. phase = "scan" /\ n2k # <<>> /\ (FirstBytes(Bytes) \/ LaterBytes(Bytes))
  BY DEF ScanPair
<1>2. PICK b1 \in Byte, b2 \in Byte : Bytes = <<b1, b2>>
  BY <1>1, CallBytes
<1>3. FirstBytes(<<b1, b2>>) \/ LaterBytes(<<b1, b2>>)
  BY <1>1, <1>2
<1>4. QED
  BY <1>3 DEF Next

\* What the packet of the scanner is after the call.
LEMMA PacketAfterCall ==
  ASSUME DataInv, ScanInv, ScanPair
  PROVE  /\ Len(packet') = packet_byte_idx + 2 * pair + 2
         /\ \A j \in 1 .. Len(packet') :
              packet'[j] = Padded(n2k[1].packet * PacketBytes + j - 1)
         /\ packet' # <<>>
<1>1. phase = "scan" /\ n2k # <<>>
  BY DEF ScanPair
<1>2. /\ BeatOK(n2k[1]) /\ n2k[1] \in BeatType
      /\ Bytes[1] = Padded(Place(n2k[1]) + 2 * pair)
      /\ Bytes[2] = Padded(Place(n2k[1]) + 2 * pair + 1)
      /\ packet_byte_idx = n2k[1].offset
  BY <1>1, CallBytes
<1>3. PICK b1 \in Byte, b2 \in Byte : Bytes = <<b1, b2>>
  BY <1>1, CallBytes
<1>4. IsCall(Bytes) /\ Len(Bytes) = 2
  BY <1>3, CallPair DEF IsCall, DCAM_P
<1>5. pair \in Nat /\ packet_byte_idx \in Nat
  BY DEF DataInv, PosInv
<1> DEFINE base == n2k[1].packet * PacketBytes
<1>6. base \in Nat /\ Place(n2k[1]) = base + packet_byte_idx
  BY <1>2, Sizes DEF BeatType, Place
<1> HIDE DEF base
<1>7. CASE packet_byte_idx = 0 /\ pair = 0
  <2>1. packet' = Bytes
    BY <1>7 DEF ScanPair, FirstBytes, dcam_step_multi
  <2>2. Bytes[1] = Padded(base) /\ Bytes[2] = Padded(base + 1)
    BY <1>2, <1>6, <1>7
  <2>3. \A j \in 1 .. 2 : Bytes[j] = Padded(base + j - 1)
    <3>1. base + 1 - 1 = base /\ base + 2 - 1 = base + 1
      BY <1>6
    <3>2. QED
      BY <2>2, <3>1
  <2>4. packet' # <<>>
    BY <1>3, <2>1
  <2>5. Len(packet') = 2 /\ packet_byte_idx + 2 * pair + 2 = 2
    BY <1>4, <1>7, <2>1
  <2>6. QED
    BY <2>1, <2>3, <2>4, <2>5 DEF base
<1>8. CASE ~(packet_byte_idx = 0 /\ pair = 0)
  <2>1. packet' = packet \o Bytes /\ packet # <<>>
    BY <1>8 DEF ScanPair, LaterBytes, dcam_step_multi
  <2>2. packet_byte_idx + DCAM_P * pair > 0
    BY <1>5, <1>8 DEF DCAM_P
  <2>3. /\ Len(packet) = packet_byte_idx + 2 * pair
        /\ \A j \in 1 .. Len(packet) : packet[j] = Padded(base + j - 1)
    BY <1>1, <2>2 DEF DataInv, PosInv, DCAM_P, base
  <2>4. packet \in Seq(Byte)
    BY DEF ScanInv, TypeOK
  <2>5. /\ Len(packet') = Len(packet) + 2 /\ Len(packet) \in Nat
        /\ \A j \in 1 .. Len(packet) + 2 :
             packet'[j] = IF j <= Len(packet) THEN packet[j] ELSE Bytes[j - Len(packet)]
    BY <1>4, <2>1, <2>4, AppendCall DEF DCAM_P
  <2>6. ASSUME NEW j \in 1 .. Len(packet')
        PROVE  packet'[j] = Padded(base + j - 1)
    <3>1. CASE j <= Len(packet)
      BY <2>3, <2>5, <3>1
    <3>2. CASE j = Len(packet) + 1
      <4>1. packet'[j] = Bytes[1]
        BY <2>5, <3>2
      <4>2. base + j - 1 = Place(n2k[1]) + 2 * pair
        BY <1>5, <1>6, <2>3, <3>2
      <4>3. QED
        BY <1>2, <4>1, <4>2
    <3>3. CASE j = Len(packet) + 2
      <4>1. packet'[j] = Bytes[2]
        BY <2>5, <3>3
      <4>2. base + j - 1 = Place(n2k[1]) + 2 * pair + 1
        BY <1>5, <1>6, <2>3, <3>3
      <4>3. QED
        BY <1>2, <4>1, <4>2
    <3>4. j <= Len(packet) \/ j = Len(packet) + 1 \/ j = Len(packet) + 2
      BY <2>5
    <3>5. QED
      BY <3>1, <3>2, <3>3, <3>4, Zenon
  <2>7. packet' # <<>>
    <3>1. Len(packet') # 0
      BY <2>5
    <3>2. QED
      BY <3>1
  <2>8. QED
    BY <1>5, <2>3, <2>5, <2>6, <2>7 DEF base
<1>9. QED
  BY <1>7, <1>8

----------------------------------------------------------------------------
LEMMA BeatStays ==
  ASSUME test' = test, NEW q
  PROVE  /\ BeatOK(q) <=> (BeatOK(q))'
         /\ \A i : Padded(i) = (Padded(i))'
BY DEF BeatOK, Padded, Place

LEMMA DataScanPair == DataInv /\ ScanInv /\ ScanPair => DataInv'
<1> SUFFICES ASSUME DataInv, ScanInv, ScanPair PROVE DataInv'
  OBVIOUS
<1>1. /\ phase = "scan" /\ n2k # <<>> /\ phase' = "scan" /\ test' = test
      /\ bytes_sent' = bytes_sent /\ beat_offset' = beat_offset /\ sent' = sent
  BY DEF ScanPair, sendVars
<1>2. /\ Head(n2k) = n2k[1] /\ BeatOK(n2k[1]) /\ n2k[1] \in BeatType
      /\ packet_byte_idx = n2k[1].offset
      /\ packet_byte_idx + 2 * pair + 2 <= PacketBytes
  BY <1>1, CallBytes
<1>3. /\ Len(packet') = packet_byte_idx + 2 * pair + 2
      /\ \A j \in 1 .. Len(packet') :
           packet'[j] = Padded(n2k[1].packet * PacketBytes + j - 1)
  BY PacketAfterCall
<1>4. /\ pair \in Nat /\ packet_byte_idx \in Nat /\ 2 * pair + 2 <= BeatBytes
      /\ Place(n2k[Len(n2k)]) + BeatBytes >= Len(test.data)
  BY <1>1 DEF DataInv, PosInv, DCAM_P
<1>5. SendInv'
  BY <1>1 DEF DataInv, SendInv
<1>6. /\ n2k \in Seq(BeatType)
      /\ \A k \in 1 .. Len(n2k) : BeatOK(n2k[k])
      /\ \A k \in 1 .. Len(n2k) - 1 : Follows(n2k[k], n2k[k + 1].packet, n2k[k + 1].offset)
  BY DEF DataInv, BeatsInv, BeatType
<1>7. CASE 2 * (pair + 1) < BeatBytes
  <2>1. pair' = pair + 1 /\ n2k' = n2k /\ packet_byte_idx' = packet_byte_idx
    BY <1>7 DEF ScanPair, DCAM_P
  <2>2. BeatsInv'
    BY <1>1, <1>6, <2>1, BeatStays DEF BeatsInv, BeatType
  <2>3. pair' \in Nat /\ 2 * pair' + 2 <= BeatBytes
        /\ Len(packet') = packet_byte_idx' + 2 * pair'
    <3>1. 2 * (pair + 1) + 2 <= BeatBytes
      BY <1>4, <1>7, Sizes
    <3>2. Len(packet') = packet_byte_idx + 2 * (pair + 1)
      BY <1>3, <1>4
    <3>3. QED
      BY <1>4, <2>1, <3>1, <3>2
  <2>4. \A i : Padded(i)' = Padded(i)
    BY <1>1 DEF Padded
  <2>5. PosInv'
    BY <1>1, <1>2, <1>3, <1>4, <2>1, <2>3, <2>4 DEF PosInv, DCAM_P, Place
  <2>6. QED
    BY <1>1, <1>5, <2>2, <2>5 DEF DataInv, PhaseOK
<1>8. CASE ~(2 * (pair + 1) < BeatBytes)
  <2>1. /\ pair' = 0 /\ n2k' = Tail(n2k)
        /\ packet_byte_idx' = IF n2k[1].last THEN 0 ELSE packet_byte_idx + BeatBytes
    BY <1>2, <1>8 DEF ScanPair, DCAM_P
  <2>2. /\ n2k' \in Seq(BeatType) /\ Len(n2k') = Len(n2k) - 1 /\ Len(n2k) \in Nat \ {0}
        /\ \A k \in 1 .. Len(n2k) - 1 : n2k'[k] = n2k[k + 1]
    BY <1>1, <1>6, <2>1, TailOne
  <2>3. ASSUME NEW k \in 1 .. Len(n2k')
        PROVE  BeatOK(n2k[k])'
    <3>1. k + 1 \in 1 .. Len(n2k) /\ k \in 1 .. Len(n2k) - 1
      BY <2>2
    <3>2. BeatOK(n2k'[k])
      BY <1>6, <2>2, <3>1
    <3>3. QED
      BY <1>1, <3>2 DEF BeatOK, Padded, Place
  <2>4. ASSUME NEW k \in 1 .. Len(n2k') - 1
        PROVE  Follows(n2k[k], n2k[k + 1].packet, n2k[k + 1].offset)'
    <3>1. k + 1 \in 1 .. Len(n2k) - 1 /\ k \in 1 .. Len(n2k) - 1
      BY <2>2
    <3>2. n2k'[k] = n2k[k + 1] /\ n2k'[k + 1] = n2k[(k + 1) + 1]
      BY <2>2, <3>1
    <3>3. QED
      BY <1>6, <3>1, <3>2 DEF Follows
  <2>5. BeatsInv'
    BY <1>1, <2>2, <2>3, <2>4 DEF BeatsInv, BeatType
  <2>6. ASSUME n2k' # <<>>
        PROVE  packet_byte_idx' = n2k'[1].offset /\ n2k'[Len(n2k')] = n2k[Len(n2k)]
    <3>1. Len(n2k') # 0
      BY <2>2, <2>6, EmptyLen
    <3>2. 1 \in 1 .. Len(n2k) - 1 /\ Len(n2k) - 1 \in 1 .. Len(n2k) - 1
      BY <2>2, <3>1
    <3>3. n2k'[1] = n2k[2] /\ n2k'[Len(n2k')] = n2k[Len(n2k)]
      BY <2>2, <3>2
    <3>4. Follows(n2k[1], n2k[2].packet, n2k[2].offset)
      <4>1. Follows(n2k[1], n2k[1 + 1].packet, n2k[1 + 1].offset)
        BY <1>6, <3>2
      <4>2. 1 + 1 = 2
        OBVIOUS
      <4>3. QED
        BY <4>1, <4>2, Zenon
    <3>5. QED
      BY <1>2, <2>1, <3>3, <3>4 DEF Follows
  <2>7. packet_byte_idx' \in Nat /\ 2 * 0 + 2 <= BeatBytes
    BY <1>4, <2>1, Sizes
  <2>8. ASSUME n2k' # <<>>, packet_byte_idx' + 2 * 0 > 0
        PROVE  /\ n2k'[1].packet = n2k[1].packet
               /\ packet_byte_idx' = packet_byte_idx + BeatBytes
    <3>1. ~n2k[1].last /\ packet_byte_idx' = packet_byte_idx + BeatBytes
      BY <2>1, <2>8
    <3>2. Len(n2k') # 0
      BY <2>2, <2>8, EmptyLen
    <3>3. 1 \in 1 .. Len(n2k) - 1
      BY <2>2, <3>2
    <3>4. n2k'[1] = n2k[2] /\ Follows(n2k[1], n2k[1 + 1].packet, n2k[1 + 1].offset)
      BY <1>6, <2>2, <3>3
    <3>5. QED
      BY <3>1, <3>4 DEF Follows
  <2>9. 2 * pair + 2 = BeatBytes
    BY <1>4, <1>8, Sizes
  <2>10. Len(packet') = packet_byte_idx + BeatBytes
    BY <1>3, <1>4, <2>9, Sizes
  <2>11. \A i : Padded(i)' = Padded(i)
    BY <1>1 DEF Padded
  <2>12. ASSUME n2k' # <<>>, packet_byte_idx' + 2 * 0 > 0
         PROVE  /\ Len(packet') = packet_byte_idx' + 2 * 0
                /\ \A j \in 1 .. Len(packet') :
                     packet'[j] = Padded(n2k'[1].packet * PacketBytes + j - 1)
    BY <1>3, <2>8, <2>10, <2>12, <1>4, Sizes
  <2>13. n2k' # <<>> => Place(n2k'[Len(n2k')]) + BeatBytes >= Len(test.data)
    BY <1>4, <2>6
  <2>14. PosInv'
    <3>1. DCAM_P * pair' = 2 * 0
      BY <2>1 DEF DCAM_P
    <3>2. QED
      BY <1>1, <2>1, <2>6, <2>7, <2>11, <2>12, <2>13, <3>1 DEF PosInv, DCAM_P, Place
  <2>15. QED
    BY <1>1, <1>5, <2>5, <2>14 DEF DataInv, PhaseOK
<1>9. QED
  BY <1>7, <1>8

\* The steps after the scan leave the data and its scan alone.
Idle == UNCHANGED <<vars, test, bytes_sent, beat_offset, sent, n2k, pair, packet_byte_idx,
                    lanes, reported>>

LEMMA LaterSteps ==
  ASSUME EndOfScan \/ ReadMatch \/ EndOfBeat \/ EndOfCollect \/ Receive \/ Parse \/ Judge
         \/ Done \/ UNCHANGED <<vars, testBenchVars>>
  PROVE  Idle
BY DEF EndOfScan, ReadMatch, EndOfBeat, EndOfCollect, Receive, Parse, Judge, Done, Idle,
       testBenchVars, sendVars, scanVars

LEMMA LaterPhases ==
  ASSUME DataInv,
         EndOfScan \/ ReadMatch \/ EndOfBeat \/ EndOfCollect \/ Receive \/ Parse \/ Judge
         \/ Done \/ UNCHANGED <<vars, testBenchVars>>
  PROVE  \/ phase' = phase
         \/ /\ phase # "send" /\ phase' \in {"collect", "receive", "parse", "judge", "done"}
            /\ n2k = <<>>
<1>1. phase \notin {"send", "scan"} => n2k = <<>>
  BY DEF DataInv, BeatsInv
<1>2. CASE EndOfScan
  BY <1>2 DEF EndOfScan
<1>3. CASE ReadMatch \/ EndOfBeat \/ Done
  BY <1>3 DEF ReadMatch, EndOfBeat, Done, testBenchVars
<1>4. CASE EndOfCollect
  BY <1>1, <1>4 DEF EndOfCollect
<1>5. CASE Receive
  BY <1>1, <1>5 DEF Receive
<1>6. CASE Parse
  BY <1>1, <1>6 DEF Parse
<1>7. CASE Judge
  BY <1>1, <1>7 DEF Judge
<1>8. CASE UNCHANGED <<vars, testBenchVars>>
  BY <1>8 DEF testBenchVars
<1>9. QED
  BY <1>2, <1>3, <1>4, <1>5, <1>6, <1>7, <1>8

LEMMA DataLater ==
  ASSUME DataInv,
         EndOfScan \/ ReadMatch \/ EndOfBeat \/ EndOfCollect \/ Receive \/ Parse \/ Judge
         \/ Done \/ UNCHANGED <<vars, testBenchVars>>
  PROVE  DataInv'
<1>1. Idle
  BY LaterSteps
<1>2. \/ phase' = phase
      \/ /\ phase # "send" /\ phase' \in {"collect", "receive", "parse", "judge", "done"}
         /\ n2k = <<>>
  BY LaterPhases
<1>3. PhaseOK'
  BY <1>2 DEF DataInv, PhaseOK
<1>4. SendInv'
  BY <1>1, <1>2 DEF DataInv, SendInv, Idle
<1>5. BeatsInv'
  <2>1. \A q : BeatOK(q) <=> (BeatOK(q))'
    BY <1>1, BeatStays DEF Idle
  <2>2. QED
    BY <1>1, <1>2, <2>1 DEF DataInv, BeatsInv, Idle
<1>6. PosInv'
  <2>1. \A i : Padded(i)' = Padded(i)
    BY <1>1 DEF Idle, Padded
  <2>2. QED
    BY <1>1, <1>2, <2>1 DEF DataInv, PosInv, Idle, Place, vars
<1>7. QED
  BY <1>3, <1>4, <1>5, <1>6 DEF DataInv

LEMMA DataStep ==
  DataInv /\ ScanInv /\ [TestBenchNext]_<<vars, testBenchVars>> => DataInv' /\ [Next]_vars
<1> SUFFICES ASSUME DataInv, ScanInv, [TestBenchNext]_<<vars, testBenchVars>>
             PROVE  DataInv' /\ [Next]_vars
  OBVIOUS
<1>1. CASE SendBeat
  BY <1>1, DataSendBeat DEF SendBeat
<1>2. CASE ScanPair
  BY <1>2, DataScanPair, PairIsCall
<1>3. CASE EndOfScan \/ ReadMatch \/ EndOfBeat \/ EndOfCollect \/ Receive \/ Parse \/ Judge
           \/ Done \/ UNCHANGED <<vars, testBenchVars>>
  BY <1>3, DataLater, LaterSteps DEF Idle
<1>4. QED
  BY <1>1, <1>2, <1>3 DEF TestBenchNext

\* The test bench calls the scanner as its own specification allows.
LEMMA DataInvariant == TestBenchSpec => [](DataInv /\ ScanInv /\ OutputOK)
<1>1. TestBenchInit => DataInv /\ ScanInv /\ OutputOK
  BY DataInit, ScanInit DEF TestBenchInit, OutputOK, Init
<1>2. DataInv /\ ScanInv /\ OutputOK /\ [TestBenchNext]_<<vars, testBenchVars>>
        => (DataInv /\ ScanInv /\ OutputOK)'
  BY DataStep, ScanStep
<1>3. QED
  BY <1>1, <1>2, PTL DEF TestBenchSpec

THEOREM ScannerIsPart == TestBenchSpec => Spec
<1>1. TestBenchInit => Init
  BY DEF TestBenchInit
<1>2. DataInv /\ ScanInv /\ [TestBenchNext]_<<vars, testBenchVars>> => [Next]_vars
  BY DataStep
<1>3. QED
  BY <1>1, <1>2, DataInvariant, PTL DEF TestBenchSpec, Spec

\* The place in the packet of byte p of the present call.
CallPos(p) == packet_byte_idx + 2 * pair + p

LEMMA LanePair == Lane = {0, 1} /\ Lane \subseteq Nat /\ 0 \in Lane /\ 1 \in Lane
BY DEF Lane, DCAM_P

\* What the scanner sees in its packet is what is in the data.
LEMMA VisibleIsSeen ==
  ASSUME DataInv, ScanInv, ScanPair, NEW x \in RulePlaces, NEW p \in Lane
  PROVE  (VisibleAt(x[1], x[2], EndOf(p)))' <=> SeenAt(x, n2k[1].packet, CallPos(p))
<1> DEFINE pat == PatternAt(x)
           base == n2k[1].packet * PacketBytes
           i == CallPos(p)
<1>1. phase = "scan" /\ n2k # <<>>
  BY DEF ScanPair
<1>2. n2k[1] \in BeatType
  BY <1>1, CallBytes
<1>3. /\ Len(packet') = packet_byte_idx + 2 * pair + 2
      /\ \A j \in 1 .. Len(packet') : packet'[j] = Padded(base + j - 1)
  BY PacketAfterCall
<1>4. pair \in Nat /\ packet_byte_idx \in Nat /\ p \in {0, 1}
  BY LanePair DEF DataInv, PosInv
<1>5. base \in Nat
  BY <1>2, Sizes DEF BeatType
<1>6. Rules[x[1]][x[2]].pat = pat /\ Len(pat) \in Nat \ {0}
  BY PlaceTypes
<1>7. i \in Nat /\ Len(packet') = (i + 1) + 1 - p /\ i + 1 <= Len(packet')
  BY <1>3, <1>4 DEF CallPos
<1>8. (EndOf(p))' = i + 1
  <2>1. (EndOf(p))' = Len(packet') - (2 - 1) + p
    BY DEF EndOf, DCAM_P
  <2>2. QED
    BY <1>4, <1>7, <2>1
<1> HIDE DEF pat, base, i
<1>9. (VisibleAt(x[1], x[2], EndOf(p)))' <=>
        /\ Len(pat) <= i + 1 /\ (i + 1) - Len(pat) >= 2
        /\ \A k \in 1 .. Len(pat) : packet'[(i + 1) - Len(pat) + k] = pat[k]
  BY <1>6, <1>8 DEF VisibleAt, OccursAt, DCAM_P
<1>10. SeenAt(x, n2k[1].packet, CallPos(p)) <=>
         /\ i - Len(pat) + 1 >= 2
         /\ \A k \in 1 .. Len(pat) : Padded(base + i - Len(pat) + k) = pat[k]
  BY DEF SeenAt, DCAM_P, pat, base, i
<1>11. ASSUME i - Len(pat) + 1 >= 2, NEW k \in 1 .. Len(pat)
       PROVE  packet'[(i + 1) - Len(pat) + k] = Padded(base + i - Len(pat) + k)
  <2>1. (i + 1) - Len(pat) + k \in 1 .. Len(packet')
    BY <1>6, <1>7, <1>11, <1>4
  <2>2. base + ((i + 1) - Len(pat) + k) - 1 = base + i - Len(pat) + k
    BY <1>5, <1>6, <1>7
  <2>3. QED
    BY <1>3, <2>1, <2>2
<1>12. i - Len(pat) + 1 >= 2 <=> Len(pat) <= i + 1 /\ (i + 1) - Len(pat) >= 2
  BY <1>6, <1>7
<1>13. QED
  BY <1>9, <1>10, <1>11, <1>12

\* What a call reports, in terms of the data.
LEMMA CallReports ==
  ASSUME DataInv, ScanInv, OutputOK, ScanPair, NEW p \in Lane
  PROVE  /\ outIds'[p] # 0 => \E x \in RulePlaces :
              outIds'[p] = IdAt(x) /\ FirstRuleAt(x, n2k[1].packet, CallPos(p))
         /\ (\E x \in RulePlaces : SeenAt(x, n2k[1].packet, CallPos(p))) => outIds'[p] # 0
<1>1. (ScanInv /\ OutputOK)'
  <2>1. Next
    BY PairIsCall
  <2>2. QED
    BY <2>1, ScanStep
<1>2. DetectsExactlyVisible' /\ ReportsPriorityRule'
  <2>1. ScanInv' /\ OutputOK' => DetectsExactlyVisible'
    BY DetectionState, PTL
  <2>2. ScanInv' /\ OutputOK' => ReportsPriorityRule'
    BY PriorityState, PTL
  <2>3. QED
    BY <1>1, <2>1, <2>2
<1>3. packet' # <<>>
  BY PacketAfterCall
<1>4. \A g \in Group : \A r \in DOMAIN Rules[g] :
        (VisibleAt(g, r, EndOf(p)))' <=> SeenAt(<<g, r>>, n2k[1].packet, CallPos(p))
  <2> SUFFICES ASSUME NEW g \in Group, NEW r \in DOMAIN Rules[g]
               PROVE  (VisibleAt(g, r, EndOf(p)))' <=>
                        SeenAt(<<g, r>>, n2k[1].packet, CallPos(p))
    OBVIOUS
  <2>1. <<g, r>> \in RulePlaces /\ <<g, r>>[1] = g /\ <<g, r>>[2] = r
    BY DEF RulePlaces
  <2>2. (VisibleAt(<<g, r>>[1], <<g, r>>[2], EndOf(p)))' <=>
          SeenAt(<<g, r>>, n2k[1].packet, CallPos(p))
    BY <2>1, VisibleIsSeen
  <2>3. QED
    BY <2>1, <2>2
<1>5. ASSUME outIds'[p] # 0
      PROVE  \E x \in RulePlaces :
               outIds'[p] = IdAt(x) /\ FirstRuleAt(x, n2k[1].packet, CallPos(p))
  <2> DEFINE Best(g, r) ==
               /\ outIds'[p] = Rules[g][r].id
               /\ (VisibleAt(g, r, EndOf(p)))'
               /\ \A q \in DOMAIN Rules[g] : q > r => ~(VisibleAt(g, q, EndOf(p)))'
               /\ \A h \in Group : h < g =>
                    \A q \in DOMAIN Rules[h] : ~(VisibleAt(h, q, EndOf(p)))'
  <2>a. PICK g \in Group : \E r \in DOMAIN Rules[g] : Best(g, r)
    BY <1>2, <1>5 DEF ReportsPriorityRule
  <2>1. PICK r \in DOMAIN Rules[g] : Best(g, r)
    BY <2>a
  <2>2. <<g, r>> \in RulePlaces /\ IdAt(<<g, r>>) = Rules[g][r].id
    BY DEF RulePlaces, IdAt
  <2>3. SeenAt(<<g, r>>, n2k[1].packet, CallPos(p))
    BY <1>4, <2>1
  <2>4. ASSUME NEW y \in RulePlaces, SeenAt(y, n2k[1].packet, CallPos(p)),
               Outranks(y, <<g, r>>)
        PROVE  FALSE
    <3>1. y = <<y[1], y[2]>> /\ y[1] \in Group /\ y[2] \in DOMAIN Rules[y[1]]
      BY PlaceTypes
    <3>2. (VisibleAt(y[1], y[2], EndOf(p)))'
      BY <2>4, VisibleIsSeen
    <3>3. y[1] < g \/ (y[1] = g /\ y[2] > r)
      BY <2>4 DEF Outranks
    <3>4. QED
      BY <2>1, <3>1, <3>2, <3>3
  <2>5. FirstRuleAt(<<g, r>>, n2k[1].packet, CallPos(p))
    BY <2>3, <2>4 DEF FirstRuleAt
  <2>6. QED
    BY <2>1, <2>2, <2>5
<1>6. ASSUME NEW x \in RulePlaces, SeenAt(x, n2k[1].packet, CallPos(p))
      PROVE  outIds'[p] # 0
  <2>1. (VisibleAt(x[1], x[2], EndOf(p)))' /\ x[1] \in Group /\ x[2] \in DOMAIN Rules[x[1]]
    BY <1>6, VisibleIsSeen, PlaceTypes
  <2>2. QED
    BY <1>2, <1>3, <2>1 DEF DetectsExactlyVisible
<1>7. QED
  BY <1>5, <1>6

----------------------------------------------------------------------------
LEMMA SeenStays ==
  ASSUME test' = test
  PROVE  \A x, n, i : /\ SeenAt(x, n, i) <=> (SeenAt(x, n, i))'
                      /\ FirstRuleAt(x, n, i) <=> (FirstRuleAt(x, n, i))'
<1>1. \A x, n, i : SeenAt(x, n, i) <=> (SeenAt(x, n, i))'
  BY DEF SeenAt, Padded
<1>2. QED
  BY <1>1 DEF FirstRuleAt

LEMMA EventOfCall ==
  ASSUME DataInv, ScanInv, OutputOK, ScanPair, NEW p \in Lane
  PROVE  /\ EventAt(p).id = outIds'[p] /\ EventAt(p).byte_index = CallPos(p)
         /\ EventAt(p).lane = p /\ EventAt(p).packet = n2k[1].packet
         /\ outIds'[p] # 0 => EventAt(p) \in Events
         /\ CallPos(p) \in Nat /\ CallPos(p) < PacketBytes /\ n2k[1].packet \in Nat
<1>1. phase = "scan" /\ n2k # <<>>
  BY DEF ScanPair
<1>2. Head(n2k) = n2k[1] /\ n2k[1] \in BeatType
      /\ packet_byte_idx + 2 * pair + 2 <= PacketBytes
  BY <1>1, CallBytes
<1>3. pair \in Nat /\ packet_byte_idx \in Nat /\ p \in {0, 1}
  BY LanePair DEF DataInv, PosInv
<1>4. /\ EventAt(p).id = outIds'[p] /\ EventAt(p).byte_index = CallPos(p)
      /\ EventAt(p).lane = p /\ EventAt(p).packet = n2k[1].packet
      /\ EventAt(p) = [id |-> outIds'[p], byte_index |-> CallPos(p), lane |-> p,
                       packet |-> n2k[1].packet]
  BY <1>2 DEF EventAt, CallPos, DCAM_P
<1>5. CallPos(p) \in Nat /\ CallPos(p) < PacketBytes
  BY <1>2, <1>3, Sizes DEF CallPos
<1>6. n2k[1].packet \in Nat
  BY <1>2 DEF BeatType
<1>7. outIds'[p] \in Nat
  <2>1. Next
    BY PairIsCall
  <2>2. ScanInv'
    BY <2>1, ScanStep
  <2>3. QED
    BY <2>2 DEF ScanInv, TypeOK
<1>8. QED
  BY <1>4, <1>5, <1>6, <1>7 DEF Events

LEMMA SoundScanPair ==
  ASSUME DataInv, ScanInv, OutputOK, SoundInv, ScanPair
  PROVE  SoundInv'
<1>1. phase = "scan" /\ n2k # <<>> /\ test' = test
      /\ reported' = reported \cup {EventAt(p) : p \in {q \in Lane : outIds'[q] # 0}}
  BY DEF ScanPair
<1>2. BeatOK(n2k[1]) /\ n2k[1] \in BeatType /\ packet_byte_idx = n2k[1].offset
  BY <1>1, CallBytes
<1>3. pair \in Nat /\ packet_byte_idx \in Nat /\ 2 * pair + 2 <= BeatBytes
  BY DEF DataInv, PosInv, DCAM_P
<1>4. Len(test.data) \in Nat \ {0}
  BY TestTypes DEF DataInv, SendInv
<1>5. \A x, n, i : (FirstRuleAt(x, n, i))' <=> FirstRuleAt(x, n, i)
  BY <1>1, SeenStays
<1> SUFFICES ASSUME NEW e \in reported'
             PROVE  /\ e \in Events
                    /\ e.byte_index < PacketBytes /\ e.packet * PacketBytes < Len(test.data)
                    /\ Whole(Len(test.data)) =>
                         e.packet * PacketBytes + e.byte_index < Len(test.data)
                    /\ \E x \in RulePlaces :
                         e.id = IdAt(x) /\ FirstRuleAt(x, e.packet, e.byte_index)
  <2>1. Whole(Len(test.data)') <=> Whole(Len(test.data))
    BY <1>1
  <2>2. QED
    BY <1>1, <1>5, <2>1 DEF SoundInv
<1>6. CASE e \in reported
  BY <1>6 DEF SoundInv
<1>7. CASE e \notin reported
  <2>1. PICK p \in Lane : outIds'[p] # 0 /\ e = EventAt(p)
    BY <1>1, <1>7
  <2>2. /\ e.id = outIds'[p] /\ e.byte_index = CallPos(p) /\ e.packet = n2k[1].packet
        /\ e \in Events /\ CallPos(p) \in Nat /\ CallPos(p) < PacketBytes
    BY <2>1, EventOfCall
  <2>3. \E x \in RulePlaces : e.id = IdAt(x) /\ FirstRuleAt(x, e.packet, e.byte_index)
    BY <2>1, <2>2, CallReports
  <2>4. ASSUME Whole(Len(test.data))
        PROVE  e.packet * PacketBytes + e.byte_index < Len(test.data)
    <3> DEFINE base == n2k[1].packet * PacketBytes
               off == n2k[1].offset
    <3>1. n2k[1].packet \in Nat /\ off \in Nat
      BY <1>2 DEF BeatType
    <3>2. Whole(base) /\ base \in Nat
      BY <3>1, WholeTimes
    <3>3. Whole(off) /\ base + off < Len(test.data)
      BY <1>2 DEF BeatOK, Place
    <3>4. CallPos(p) < off + BeatBytes
      BY <1>2, <1>3, LanePair, Sizes DEF CallPos
    <3> HIDE DEF base, off
    <3>5. base + off \in Nat
      BY <3>1, <3>2
    <3>6. Whole(base + off)
      BY <3>1, <3>2, <3>3, WholeNext
    <3>7. base + off + BeatBytes <= Len(test.data)
      BY <1>4, <2>4, <3>3, <3>5, <3>6, WholeNext
    <3>8. base + CallPos(p) < Len(test.data)
      BY <1>4, <2>2, <3>1, <3>2, <3>4, <3>7, Sizes
    <3>9. QED
      BY <2>2, <3>8 DEF base
  <2>5. e.packet * PacketBytes < Len(test.data)
    <3>1. n2k[1].packet \in Nat /\ n2k[1].offset \in Nat
      BY <1>2 DEF BeatType
    <3>2. n2k[1].packet * PacketBytes \in Nat
      BY <3>1, WholeTimes
    <3>3. n2k[1].packet * PacketBytes + n2k[1].offset < Len(test.data)
      BY <1>2 DEF BeatOK, Place
    <3>4. n2k[1].packet * PacketBytes < Len(test.data)
      BY <1>4, <3>1, <3>2, <3>3
    <3>5. QED
      BY <2>2, <3>4
  <2>6. QED
    BY <2>2, <2>3, <2>4, <2>5
<1>8. QED
  BY <1>6, <1>7

\* Past the last beat of the data, or of a packet, nothing is left of either.
LEMMA BeatEnds ==
  ASSUME NEW N \in Nat, NEW off \in Nat, NEW n \in Nat, NEW i \in 0 .. PacketBytes - 1,
         NEW len \in Nat, off + BeatBytes <= PacketBytes,
         n * PacketBytes + i < len, N * PacketBytes + off + BeatBytes >= len
  PROVE  n < N \/ (n = N /\ i < off + BeatBytes)
<1>1. n * PacketBytes \in Nat /\ N * PacketBytes \in Nat
      /\ (N + 1) * PacketBytes = N * PacketBytes + PacketBytes
  BY WholeTimes
<1>2. BeatBytes \in Nat /\ PacketBytes \in Nat /\ i \in Nat
  BY Sizes
<1>3. N * PacketBytes + off + BeatBytes > n * PacketBytes + i
  BY <1>1, <1>2
<1>4. ASSUME n >= N + 1 PROVE FALSE
  <2>1. (N + 1) * PacketBytes <= n * PacketBytes
    BY <1>2, <1>4, TimesMonotonic
  <2>2. QED
    BY <1>1, <1>2, <1>3, <2>1
<1>5. ASSUME n = N PROVE i < off + BeatBytes
  <2>1. n * PacketBytes = N * PacketBytes
    BY <1>5
  <2>2. QED
    BY <1>1, <1>2, <1>3, <2>1
<1>6. QED
  BY <1>4, <1>5

\* What a call adds to the places that are scanned.
LEMMA ScannedStep ==
  ASSUME DataInv, ScanPair, NEW n \in Nat, NEW i \in 0 .. PacketBytes - 1,
         (IsScanned(n, i))', n * PacketBytes + i < Len(test.data)
  PROVE  IsScanned(n, i) \/ (n = n2k[1].packet /\ \E p \in Lane : i = CallPos(p))
<1>1. phase = "scan" /\ n2k # <<>> /\ phase' = "scan"
  BY DEF ScanPair
<1>2. Head(n2k) = n2k[1] /\ BeatOK(n2k[1]) /\ n2k[1] \in BeatType
      /\ packet_byte_idx = n2k[1].offset
  BY <1>1, CallBytes
<1>3. pair \in Nat /\ packet_byte_idx \in Nat /\ 2 * pair + 2 <= BeatBytes
      /\ Place(n2k[Len(n2k)]) + BeatBytes >= Len(test.data)
  BY <1>1 DEF DataInv, PosInv, DCAM_P
<1>4. Len(test.data) \in Nat
  BY TestTypes DEF DataInv, SendInv
<1> DEFINE N == n2k[1].packet
           off == n2k[1].offset
<1>5. N \in Nat /\ off \in Nat /\ i \in Nat /\ n * PacketBytes \in Nat /\ N * PacketBytes \in Nat
  BY <1>2, WholeTimes, Sizes DEF BeatType
<1>6. off + BeatBytes <= PacketBytes
  BY <1>2 DEF BeatOK
<1>7. /\ Place(n2k[1]) = N * PacketBytes + off /\ packet_byte_idx = off
       /\ N = n2k[1].packet /\ off = n2k[1].offset
  BY <1>2 DEF Place
<1> HIDE DEF N, off
<1>14. ASSUME N * PacketBytes + off + BeatBytes >= Len(test.data)
      PROVE  n < N \/ (n = N /\ i < off + BeatBytes)
  BY <1>4, <1>5, <1>6, <1>14, BeatEnds
<1>8. n < N \/ (n = N /\ i < off + 2 * pair + 2)
  <2>1. CASE 2 * (pair + 1) < BeatBytes
    <3>1. pair' = pair + 1 /\ n2k' = n2k /\ packet_byte_idx' = packet_byte_idx
      BY <2>1 DEF ScanPair, DCAM_P
    <3>2. n < N \/ (n = N /\ i < off + 2 * (pair + 1))
      BY <1>1, <1>7, <3>1 DEF IsScanned, DCAM_P
    <3>3. QED
      BY <1>3, <1>5, <3>2
  <2>2. CASE ~(2 * (pair + 1) < BeatBytes)
    <3>1. /\ pair' = 0 /\ n2k' = Tail(n2k)
          /\ packet_byte_idx' = IF n2k[1].last THEN 0 ELSE off + BeatBytes
      BY <1>2, <1>7, <2>2 DEF ScanPair, DCAM_P
    <3>2. 2 * pair + 2 = BeatBytes
      BY <1>3, <2>2, Sizes
    <3>3. n2k \in Seq(BeatType)
      BY DEF DataInv, BeatsInv, BeatType
    <3>4. /\ n2k' \in Seq(BeatType) /\ Len(n2k') = Len(n2k) - 1 /\ Len(n2k) \in Nat \ {0}
          /\ \A k \in 1 .. Len(n2k) - 1 : n2k'[k] = n2k[k + 1]
      BY <1>1, <3>1, <3>3, TailOne
    <3>5. n < N \/ (n = N /\ i < off + BeatBytes)
      <4>1. CASE n2k' = <<>>
        <5>1. Len(n2k) = 1
          BY <3>4, <4>1, EmptyLen
        <5>2. Place(n2k[1]) + BeatBytes >= Len(test.data)
          BY <1>3, <5>1
        <5>3. QED
          BY <1>14, <1>7, <5>2
      <4>2. CASE n2k' # <<>>
        <5>1. Len(n2k') # 0
          BY <3>4, <4>2, EmptyLen
        <5>2. 1 \in 1 .. Len(n2k) - 1
          BY <3>4, <5>1
        <5>3. n2k'[1] = n2k[1 + 1] /\ Follows(n2k[1], n2k[1 + 1].packet, n2k[1 + 1].offset)
          BY <3>4, <5>2 DEF DataInv, BeatsInv
        <5>4. n < n2k'[1].packet \/ (n = n2k'[1].packet /\ i < packet_byte_idx' + 2 * 0)
          BY <1>1, <3>1, <4>2 DEF IsScanned, DCAM_P
        <5>5. CASE n2k[1].last
          <6>1. n2k'[1].packet = N + 1 /\ packet_byte_idx' = 0
            BY <1>7, <3>1, <5>3, <5>5 DEF Follows
          <6>2. n <= N
            BY <1>5, <5>4, <6>1
          <6>3. \/ off + BeatBytes >= PacketBytes
                \/ N * PacketBytes + off + BeatBytes >= Len(test.data)
            BY <1>2, <1>7, <5>5 DEF BeatOK
          <6>4. off + BeatBytes >= PacketBytes => i < off + BeatBytes
            BY <1>5, i \in 0 .. PacketBytes - 1, Sizes
          <6>5. QED
            BY <1>5, <1>14, <6>2, <6>3, <6>4
        <5>6. CASE ~n2k[1].last
          <6>1. n2k'[1].packet = N /\ packet_byte_idx' = off + BeatBytes
            BY <1>7, <3>1, <5>3, <5>6 DEF Follows
          <6>2. off + BeatBytes + 2 * 0 = off + BeatBytes
            BY <1>5, Sizes
          <6>3. QED
            BY <5>4, <6>1, <6>2
        <5>7. QED
          BY <5>5, <5>6
      <4>3. QED
        BY <4>1, <4>2
    <3>6. off + 2 * pair + 2 = off + BeatBytes
      BY <1>3, <1>5, <3>2, Sizes
    <3>7. QED
      BY <3>5, <3>6
  <2>3. QED
    BY <2>1, <2>2
<1>9. IsScanned(n, i) <=> n < N \/ (n = N /\ i < off + 2 * pair)
  BY <1>1, <1>7 DEF IsScanned, DCAM_P
<1>10. CallPos(0) = off + 2 * pair /\ CallPos(1) = off + 2 * pair + 1
  BY <1>7, <1>3, <1>5 DEF CallPos
<1>11. CASE n < N
  BY <1>9, <1>11
<1>12. CASE n = N /\ i < off + 2 * pair + 2
  <2>1. i < off + 2 * pair \/ i = off + 2 * pair \/ i = off + 2 * pair + 1
    BY <1>3, <1>5, <1>12
  <2>2. QED
    BY <1>9, <1>10, <1>12, <1>7, <2>1, LanePair
<1>13. QED
  BY <1>8, <1>11, <1>12

LEMMA CompleteScanPair ==
  ASSUME DataInv, ScanInv, OutputOK, CompleteInv, ScanPair
  PROVE  CompleteInv'
<1>1. test' = test
      /\ reported' = reported \cup {EventAt(p) : p \in {q \in Lane : outIds'[q] # 0}}
  BY DEF ScanPair
<1>2. \A x, n, i : (SeenAt(x, n, i))' <=> SeenAt(x, n, i)
  BY <1>1, SeenStays
<1>3. Len(test.data) \in Nat
  BY TestTypes DEF DataInv, SendInv
<1>4. ASSUME NEW n \in 0 .. Len(test.data), NEW i \in 0 .. PacketBytes - 1,
             (IsScanned(n, i))', n * PacketBytes + i < Len(test.data),
             NEW x \in RulePlaces, SeenAt(x, n, i)
      PROVE  \E e \in reported' : e.packet = n /\ e.byte_index = i
  <2>1. n \in Nat
    BY <1>3
  <2>2. CASE IsScanned(n, i)
    BY <1>1, <1>4, <2>2 DEF CompleteInv
  <2>3. ASSUME n = n2k[1].packet, NEW p \in Lane, i = CallPos(p)
        PROVE  \E e \in reported' : e.packet = n /\ e.byte_index = i
    <3>1. outIds'[p] # 0
      BY <1>4, <2>3, CallReports
    <3>2. EventAt(p).packet = n /\ EventAt(p).byte_index = i
      BY <2>3, EventOfCall
    <3>3. QED
      BY <1>1, <3>1, <3>2
  <2>4. QED
    BY <1>4, <2>1, <2>2, <2>3, ScannedStep
<1>5. QED
  BY <1>1, <1>2, <1>4 DEF CompleteInv

MatchInv == SoundInv /\ CompleteInv

AllInv == DataInv /\ ScanInv /\ OutputOK /\ MatchInv

LEMMA SoundStays ==
  ASSUME SoundInv, test' = test, reported' = reported
  PROVE  SoundInv'
BY SeenStays DEF SoundInv

\* What is scanned when the sending ends: nothing yet.
LEMMA MatchSendBeat ==
  ASSUME DataInv, MatchInv, SendBeat
  PROVE  MatchInv'
<1>1. phase = "send" /\ test' = test /\ reported' = reported
      /\ n2k' = Append(n2k, NewBeat) /\ pair' = pair /\ packet_byte_idx' = packet_byte_idx
      /\ phase' \in {"send", "scan"}
  BY DEF SendBeat, NewBeat, scanVars
<1>2. SoundInv'
  BY <1>1, SoundStays DEF MatchInv
<1>3. n2k \in Seq(BeatType) /\ NewBeat \in BeatType /\ NewBeat.packet = sent
  BY <1>1, NewBeatOK DEF DataInv, BeatsInv, BeatType
<1>4. n2k' # <<>> /\ n2k'[1].packet = 0
  <2>1. CASE n2k = <<>>
    <3>1. sent = 0 /\ Len(n2k) = 0
      BY <1>1, <1>3, <2>1, EmptyLen DEF DataInv, SendInv
    <3>2. n2k'[0 + 1] = NewBeat /\ n2k' # <<>>
      BY <1>1, <1>3, <3>1, AppendOne
    <3>3. QED
      BY <1>3, <3>1, <3>2
  <2>2. CASE n2k # <<>>
    <3>1. 1 \in 1 .. Len(n2k)
      BY <1>3, <2>2, EmptyLen
    <3>2. n2k'[1] = n2k[1] /\ n2k' # <<>>
      BY <1>1, <1>3, <3>1, AppendOne
    <3>3. n2k[1].packet = 0
      BY <1>1, <2>2 DEF DataInv, SendInv
    <3>4. QED
      BY <3>2, <3>3
  <2>3. QED
    BY <2>1, <2>2
<1>5. pair = 0 /\ packet_byte_idx = 0
  BY <1>1 DEF DataInv, PosInv
<1>6. ASSUME NEW n \in Nat, NEW i \in Nat PROVE ~(IsScanned(n, i))'
  <2>1. ~(n < 0) /\ ~(i < 0 + 2 * 0)
    OBVIOUS
  <2>2. QED
    BY <1>1, <1>4, <1>5, <2>1 DEF IsScanned, DCAM_P
<1>7. CompleteInv'
  <2>1. Len(test'.data) \in Nat
    BY <1>1, TestTypes DEF DataInv, SendInv
  <2>2. \A n \in 0 .. Len(test'.data), i \in 0 .. PacketBytes - 1 : n \in Nat /\ i \in Nat
    BY <2>1, Sizes
  <2>3. \A n \in 0 .. Len(test'.data), i \in 0 .. PacketBytes - 1 : ~(IsScanned(n, i))'
    BY <1>6, <2>2
  <2>4. QED
    BY <2>3 DEF CompleteInv
<1>8. QED
  BY <1>2, <1>7 DEF MatchInv

LEMMA MatchLater ==
  ASSUME DataInv, MatchInv,
         EndOfScan \/ ReadMatch \/ EndOfBeat \/ EndOfCollect \/ Receive \/ Parse \/ Judge
         \/ Done \/ UNCHANGED <<vars, testBenchVars>>
  PROVE  MatchInv'
<1>1. Idle
  BY LaterSteps
<1>2. \/ phase' = phase
      \/ /\ phase # "send" /\ phase' \in {"collect", "receive", "parse", "judge", "done"}
         /\ n2k = <<>>
  BY LaterPhases
<1>3. SoundInv'
  BY <1>1, SoundStays DEF MatchInv, Idle
<1>4. \A n, i : (IsScanned(n, i))' => IsScanned(n, i)
  BY <1>1, <1>2 DEF IsScanned, Idle
<1>5. \A x, n, i : (SeenAt(x, n, i))' <=> SeenAt(x, n, i)
  BY <1>1, SeenStays DEF Idle
<1>6. CompleteInv'
  BY <1>1, <1>4, <1>5 DEF CompleteInv, MatchInv, Idle
<1>7. QED
  BY <1>3, <1>6 DEF MatchInv

LEMMA MatchStep ==
  AllInv /\ [TestBenchNext]_<<vars, testBenchVars>> => AllInv'
<1> SUFFICES ASSUME AllInv, [TestBenchNext]_<<vars, testBenchVars>> PROVE AllInv'
  OBVIOUS
<1>1. DataInv' /\ [Next]_vars
  BY DataStep DEF AllInv
<1>2. ScanInv' /\ OutputOK'
  BY <1>1, ScanStep DEF AllInv
<1>3. MatchInv'
  <2>1. CASE SendBeat
    BY <2>1, MatchSendBeat DEF AllInv
  <2>2. CASE ScanPair
    BY <2>2, SoundScanPair, CompleteScanPair DEF AllInv, MatchInv
  <2>3. CASE EndOfScan \/ ReadMatch \/ EndOfBeat \/ EndOfCollect \/ Receive \/ Parse \/ Judge
             \/ Done \/ UNCHANGED <<vars, testBenchVars>>
    BY <2>3, MatchLater DEF AllInv
  <2>4. QED
    BY <2>1, <2>2, <2>3 DEF TestBenchNext
<1>4. QED
  BY <1>1, <1>2, <1>3 DEF AllInv

(***************************************************************************)
(* The way of the matches.  Slot is what a place for an event may hold.    *)
(***************************************************************************)
Slot == reported \cup Unassigned

\* x may come before the event e: it is no event, or it is in its turn.
Old(x, e) == x \in Unassigned \/ Before(x, e)

AllOld(s, e) == \A j \in 1 .. Len(s) : Old(s[j], e)

InSeq(e, s) == \E i \in 1 .. Len(s) : s[i] = e

\* e is in s, for the first time in its turn.
InTurn(e, s) == \E k \in 1 .. Len(s) : s[k] = e /\ \A j \in 1 .. k - 1 : Old(s[j], e)

Sorted(s) == \A i, j \in 1 .. Len(s) : i < j => Before(s[i], s[j])

AllBefore(s, t) == \A i \in 1 .. Len(s), j \in 1 .. Len(t) : Before(s[i], t[j])

StreamType == [matches : Seq(reported), last : BOOLEAN]
ReportType == [last : BOOLEAN, torn : BOOLEAN, slots : Seq(Slot)]

StreamOK ==
  /\ m_stream \in Seq(StreamType)
  /\ \A b \in 1 .. Len(m_stream) : Sorted(m_stream[b].matches)
  /\ \A b, c \in 1 .. Len(m_stream) :
       b < c => AllBefore(m_stream[b].matches, m_stream[c].matches)

InStream(e) == \E b \in 1 .. Len(m_stream) : InSeq(e, m_stream[b].matches)

\* The events of the beat that is scanned are of the calls so far, those in the
\* stream of the beats before it.
LaneOK(p) ==
  /\ \A i \in 1 .. Len(lanes[p]) :
       /\ n2k # <<>>
       /\ lanes[p][i].packet = n2k[1].packet /\ lanes[p][i].lane = p
       /\ lanes[p][i].byte_index >= packet_byte_idx
       /\ lanes[p][i].byte_index < packet_byte_idx + 2 * pair
  /\ \A i, j \in 1 .. Len(lanes[p]) :
       i < j => lanes[p][i].byte_index < lanes[p][j].byte_index

IsPast(e) == \/ e.packet < n2k[1].packet
             \/ e.packet = n2k[1].packet /\ e.byte_index < packet_byte_idx

Unreported ==
  /\ k2n = <<>> /\ count = 0 /\ reg \in [1 .. Slots -> Unassigned]
  /\ output_buffer = <<>> /\ events = <<>>

SendFlow ==
  /\ Unreported
  /\ m_stream = <<>> /\ reported = {} /\ lanes = [p \in Lane |-> <<>>]

ScanFlow ==
  /\ Unreported
  /\ StreamOK
  /\ lanes \in [Lane -> Seq(reported)] /\ \A p \in Lane : LaneOK(p)
  /\ n2k # <<>> => \A b \in 1 .. Len(m_stream) :
                     \A i \in 1 .. Len(m_stream[b].matches) : IsPast(m_stream[b].matches[i])
  /\ \A e \in reported : (\E p \in Lane : InSeq(e, lanes[p])) \/ InStream(e)

ReportOK ==
  /\ k2n \in Seq(ReportType)
  /\ reg \in [1 .. Slots -> Slot] /\ count \in 0 .. Slots - 1

OldReports(e, q) == \A b \in 1 .. Len(q) : AllOld(q[b].slots, e)

\* e is in its turn in the report beats q.
InReports(e, q) ==
  \E b \in 1 .. Len(q) :
    InTurn(e, q[b].slots) /\ \A c \in 1 .. b - 1 : AllOld(q[c].slots, e)

\* The event waits for its register.
Waits(e) == OldReports(e, k2n) /\ \A s \in 1 .. Slots : Old(reg[s], e)

\* The event of register i is next to leave.
Holds(i) ==
  /\ reg[i] \in reported /\ OldReports(reg[i], k2n)
  /\ \A s \in 1 .. Slots : s < i \/ s > count => Old(reg[s], reg[i])

CollectFlow ==
  /\ output_buffer = <<>> /\ events = <<>>
  /\ StreamOK
  /\ \A b \in 1 .. Len(m_stream) :
       \A i \in 1 .. Len(m_stream[b].matches) : Waits(m_stream[b].matches[i])
  /\ \A i \in 1 .. count : Holds(i)
  /\ count > 0 => m_stream # <<>>
  /\ \A e \in reported :
       InStream(e) \/ (\E i \in 1 .. count : reg[i] = e) \/ InReports(e, k2n)

ReceiveFlow ==
  /\ m_stream = <<>> /\ events = <<>>
  /\ output_buffer \in Seq(Slot)
  /\ Legible => \A e \in reported :
       InTurn(e, output_buffer) \/ (InReports(e, k2n) /\ AllOld(output_buffer, e))

ParseFlow ==
  /\ m_stream = <<>>
  /\ output_buffer \in Seq(Slot)
  /\ Legible => \A e \in reported : IsEvent(e) =>
       InTurn(e, events) \/ (InTurn(e, output_buffer) /\ AllOld(events, e))

JudgeFlow ==
  /\ m_stream = <<>>
  /\ Legible => \A e \in reported : IsEvent(e) => InTurn(e, events)

EventsOK == events \in Seq(Slot) /\ \A k \in 1 .. Len(events) : IsEvent(events[k])

FlowInv ==
  /\ ReportOK
  /\ EventsOK
  /\ phase = "send" => SendFlow
  /\ phase = "scan" => ScanFlow
  /\ phase = "collect" => CollectFlow
  /\ phase = "receive" => ReceiveFlow
  /\ phase = "parse" => ParseFlow
  /\ phase \in {"judge", "done"} => JudgeFlow

----------------------------------------------------------------------------
\* The packets that end in q.
Lasts(q) == Cardinality({k \in 1 .. Len(q) : q[k].last})

Closed(q) == q # <<>> => q[Len(q)].last

CountInv ==
  /\ received \in Nat /\ aligned \in BOOLEAN
  /\ sent = received + Lasts(k2n) + Lasts(m_stream) + Lasts(n2k)
  /\ phase \in {"send", "scan", "collect"} => received = 0 /\ aligned
  /\ ~aligned => received > 0
  /\ \A b \in 1 .. Len(k2n) : k2n[b].torn => k2n[b].last
  /\ phase = "scan" => IF n2k # <<>> THEN Closed(n2k) ELSE Closed(m_stream)
  /\ phase = "collect" => IF m_stream # <<>> THEN Closed(m_stream) ELSE Closed(k2n)
  /\ phase = "receive" => Closed(k2n)
  /\ phase \notin {"send", "scan", "collect", "receive"} => k2n = <<>> /\ sent = received

----------------------------------------------------------------------------
LEMMA SeqLarger ==
  ASSUME NEW S, NEW T, S \subseteq T
  PROVE  Seq(S) \subseteq Seq(T)
OBVIOUS

LEMMA ConcatTwo ==
  ASSUME NEW S, NEW s \in Seq(S), NEW t \in Seq(S)
  PROVE  /\ s \o t \in Seq(S) /\ Len(s \o t) = Len(s) + Len(t)
         /\ Len(s) \in Nat /\ Len(t) \in Nat
         /\ \A k \in 1 .. Len(s) : (s \o t)[k] = s[k]
         /\ \A k \in 1 .. Len(t) : (s \o t)[Len(s) + k] = t[k]
OBVIOUS

\* An element of a concatenation is one of the parts.
LEMMA ConcatIndex ==
  ASSUME NEW m \in Nat, NEW n \in Nat, NEW k \in 1 .. m + n
  PROVE  k \in 1 .. m \/ \E j \in 1 .. n : k = m + j
<1>1. CASE k <= m
  BY <1>1
<1>2. CASE k > m
  <2>1. k - m \in 1 .. n /\ k = m + (k - m)
    BY <1>2
  <2>2. QED
    BY <2>1
<1>3. QED
  BY <1>1, <1>2

LEMMA AllOldConcat ==
  ASSUME NEW S, NEW s \in Seq(S), NEW t \in Seq(S), NEW e
  PROVE  AllOld(s \o t, e) <=> AllOld(s, e) /\ AllOld(t, e)
<1>1. /\ Len(s \o t) = Len(s) + Len(t) /\ Len(s) \in Nat /\ Len(t) \in Nat
      /\ \A k \in 1 .. Len(s) : (s \o t)[k] = s[k]
      /\ \A k \in 1 .. Len(t) : (s \o t)[Len(s) + k] = t[k]
  BY ConcatTwo
<1>2. /\ \A k \in 1 .. Len(s) : k \in 1 .. Len(s) + Len(t)
      /\ \A k \in 1 .. Len(t) : Len(s) + k \in 1 .. Len(s) + Len(t)
  BY <1>1
<1>3. \A k \in 1 .. Len(s) + Len(t) :
        k \in 1 .. Len(s) \/ \E j \in 1 .. Len(t) : k = Len(s) + j
  BY <1>1, ConcatIndex
<1>4. QED
  BY <1>1, <1>2, <1>3 DEF AllOld

LEMMA InTurnConcat ==
  ASSUME NEW S, NEW s \in Seq(S), NEW t \in Seq(S), NEW e
  PROVE  /\ InTurn(e, s) => InTurn(e, s \o t)
         /\ AllOld(s, e) /\ InTurn(e, t) => InTurn(e, s \o t)
<1>1. /\ Len(s \o t) = Len(s) + Len(t) /\ Len(s) \in Nat /\ Len(t) \in Nat
      /\ \A k \in 1 .. Len(s) : (s \o t)[k] = s[k]
      /\ \A k \in 1 .. Len(t) : (s \o t)[Len(s) + k] = t[k]
  BY ConcatTwo
<1>2. ASSUME InTurn(e, s) PROVE InTurn(e, s \o t)
  <2>1. PICK k \in 1 .. Len(s) : s[k] = e /\ \A j \in 1 .. k - 1 : Old(s[j], e)
    BY <1>2 DEF InTurn
  <2>2. k \in 1 .. Len(s \o t) /\ \A j \in 1 .. k - 1 : j \in 1 .. Len(s)
    BY <1>1
  <2>3. QED
    BY <1>1, <2>1, <2>2 DEF InTurn
<1>3. ASSUME AllOld(s, e), InTurn(e, t) PROVE InTurn(e, s \o t)
  <2>1. PICK k \in 1 .. Len(t) : t[k] = e /\ \A j \in 1 .. k - 1 : Old(t[j], e)
    BY <1>3 DEF InTurn
  <2>2. Len(s) + k \in 1 .. Len(s \o t) /\ (s \o t)[Len(s) + k] = e
    BY <1>1, <2>1
  <2>3. ASSUME NEW j \in 1 .. (Len(s) + k) - 1
        PROVE  Old((s \o t)[j], e)
    <3>1. k - 1 \in Nat /\ j \in 1 .. Len(s) + (k - 1)
      BY <1>1
    <3>2. j \in 1 .. Len(s) \/ \E i \in 1 .. k - 1 : j = Len(s) + i
      BY <1>1, <3>1, ConcatIndex
    <3>3. CASE j \in 1 .. Len(s)
      BY <1>1, <1>3, <3>3 DEF AllOld
    <3>4. ASSUME NEW i \in 1 .. k - 1, j = Len(s) + i PROVE Old((s \o t)[j], e)
      <4>1. i \in 1 .. Len(t)
        BY <1>1
      <4>2. QED
        BY <1>1, <2>1, <3>4, <4>1
    <3>5. QED
      BY <3>2, <3>3, <3>4
  <2>4. QED
    BY <2>2, <2>3 DEF InTurn
<1>4. QED
  BY <1>2, <1>3

LEMMA AppendAsConcat ==
  ASSUME NEW S, NEW s \in Seq(S), NEW x \in S
  PROVE  Append(s, x) = s \o <<x>> /\ <<x>> \in Seq(S)
OBVIOUS

\* e stays in its turn when something is appended, and gets it at the end.
LEMMA InTurnAppend ==
  ASSUME NEW S, NEW s \in Seq(S), NEW x \in S, NEW e
  PROVE  /\ InTurn(e, s) => InTurn(e, Append(s, x))
         /\ AllOld(s, e) => InTurn(e, Append(s, e)) \/ e \notin S
         /\ AllOld(s, e) /\ Old(x, e) => AllOld(Append(s, x), e)
<1>1. Append(s, x) = s \o <<x>> /\ <<x>> \in Seq(S) /\ Len(<<x>>) = 1 /\ <<x>>[1] = x
  BY AppendAsConcat
<1>2. InTurn(e, s) => InTurn(e, Append(s, x))
  BY <1>1, InTurnConcat
<1>3. ASSUME AllOld(s, e), e \in S PROVE InTurn(e, Append(s, e))
  <2>1. Append(s, e) = s \o <<e>> /\ <<e>> \in Seq(S)
    BY <1>3, AppendAsConcat
  <2>2. InTurn(e, <<e>>)
    <3>1. Len(<<e>>) = 1 /\ <<e>>[1] = e /\ 1 \in 1 .. 1 /\ ~(\E j \in 1 .. 1 - 1 : TRUE)
      OBVIOUS
    <3>2. QED
      BY <3>1 DEF InTurn
  <2>3. QED
    BY <1>3, <2>1, <2>2, InTurnConcat
<1>4. ASSUME AllOld(s, e), Old(x, e) PROVE AllOld(Append(s, x), e)
  <2>1. AllOld(<<x>>, e)
    <3>1. \A j \in 1 .. 1 : <<x>>[j] = x
      OBVIOUS
    <3>2. QED
      BY <1>1, <1>4, <3>1 DEF AllOld
  <2>2. QED
    BY <1>1, <1>4, <2>1, AllOldConcat
<1>5. QED
  BY <1>2, <1>3, <1>4

\* The first of a sequence is e or comes before e in its turn, which is then in the rest.
LEMMA InTurnTail ==
  ASSUME NEW S, NEW s \in Seq(S), NEW e, InTurn(e, s)
  PROVE  s # <<>> /\ (Head(s) = e \/ (Old(Head(s), e) /\ InTurn(e, Tail(s))))
<1>1. PICK k \in 1 .. Len(s) : s[k] = e /\ \A j \in 1 .. k - 1 : Old(s[j], e)
  BY DEF InTurn
<1>2. s # <<>>
  <2>1. Len(s) # 0 /\ Len(<<>>) = 0
    BY <1>1
  <2>2. QED
    BY <2>1
<1>3. /\ Len(Tail(s)) = Len(s) - 1 /\ Len(s) \in Nat \ {0}
      /\ \A i \in 1 .. Len(s) - 1 : Tail(s)[i] = s[i + 1]
      /\ Head(s) = s[1]
  BY <1>2, TailOne
<1>4. CASE k = 1
  BY <1>1, <1>2, <1>3, <1>4
<1>5. CASE k # 1
  <2>1. 1 \in 1 .. k - 1 /\ k - 1 \in 1 .. Len(Tail(s)) /\ (k - 1) + 1 = k
    BY <1>3, <1>5
  <2>2. Old(Head(s), e) /\ Tail(s)[k - 1] = e
    BY <1>1, <1>3, <2>1
  <2>3. ASSUME NEW j \in 1 .. (k - 1) - 1 PROVE Old(Tail(s)[j], e)
    <3>1. j + 1 \in 1 .. k - 1 /\ j \in 1 .. Len(s) - 1
      BY <1>3
    <3>2. QED
      BY <1>1, <1>3, <3>1
  <2>4. QED
    BY <1>2, <2>1, <2>2, <2>3 DEF InTurn
<1>6. QED
  BY <1>4, <1>5

LastIndices(q) == {k \in 1 .. Len(q) : q[k].last}

LEMMA LastsNat ==
  ASSUME NEW S, NEW q \in Seq(S)
  PROVE  IsFiniteSet(LastIndices(q)) /\ Lasts(q) = Cardinality(LastIndices(q))
         /\ Lasts(q) \in Nat
<1>1. Len(q) \in Nat /\ LastIndices(q) \subseteq 1 .. Len(q)
  BY DEF LastIndices
<1>2. IsFiniteSet(1 .. Len(q))
  BY <1>1, FS_Interval
<1>3. IsFiniteSet(LastIndices(q))
  BY <1>1, <1>2, FS_Subset
<1>4. Lasts(q) = Cardinality(LastIndices(q))
  BY DEF Lasts, LastIndices
<1>5. QED
  BY <1>3, <1>4, FS_CardinalityType

LEMMA LastsEmpty == Lasts(<<>>) = 0
<1>1. {k \in 1 .. Len(<<>>) : <<>>[k].last} = {}
  OBVIOUS
<1>2. QED
  BY <1>1, FS_EmptySet DEF Lasts

LEMMA LastsAppend ==
  ASSUME NEW S, NEW q \in Seq(S), NEW x \in S, x.last \in BOOLEAN
  PROVE  Lasts(Append(q, x)) = Lasts(q) + (IF x.last THEN 1 ELSE 0)
<1>1. /\ Append(q, x) \in Seq(S) /\ Len(Append(q, x)) = Len(q) + 1 /\ Len(q) \in Nat
      /\ \A k \in 1 .. Len(q) : Append(q, x)[k] = q[k]
      /\ Append(q, x)[Len(q) + 1] = x
  BY AppendOne
<1>2. /\ IsFiniteSet(LastIndices(q)) /\ Lasts(q) = Cardinality(LastIndices(q))
      /\ Lasts(q) \in Nat
  BY LastsNat
<1>3. Lasts(Append(q, x)) = Cardinality(LastIndices(Append(q, x)))
  BY <1>1, LastsNat
<1>4. \A k \in 1 .. Len(q) + 1 : k \in 1 .. Len(q) \/ k = Len(q) + 1
  BY <1>1
<1>5. 1 .. Len(q) \subseteq 1 .. Len(q) + 1 /\ Len(q) + 1 \in 1 .. Len(q) + 1
      /\ Len(q) + 1 \notin 1 .. Len(q)
  BY <1>1
<1>6. CASE x.last
  <2>1. LastIndices(Append(q, x)) = LastIndices(q) \cup {Len(q) + 1}
    BY <1>1, <1>4, <1>5, <1>6 DEF LastIndices
  <2>2. Len(q) + 1 \notin LastIndices(q)
    BY <1>5 DEF LastIndices
  <2>3. Cardinality(LastIndices(q) \cup {Len(q) + 1}) = Cardinality(LastIndices(q)) + 1
    BY <1>2, <2>2, FS_AddElement
  <2>4. QED
    BY <1>2, <1>3, <1>6, <2>1, <2>3
<1>7. CASE ~x.last
  <2>1. LastIndices(Append(q, x)) = LastIndices(q)
    BY <1>1, <1>4, <1>5, <1>7 DEF LastIndices
  <2>2. QED
    BY <1>2, <1>3, <1>7, <2>1
<1>8. QED
  BY <1>6, <1>7

\* The indices of the rest are those of the whole but the first, moved by one.
LEMMA LastsTail ==
  ASSUME NEW S, NEW q \in Seq(S), q # <<>>, q[1].last \in BOOLEAN
  PROVE  Lasts(q) = Lasts(Tail(q)) + (IF q[1].last THEN 1 ELSE 0)
<1> DEFINE T == LastIndices(Tail(q))
           U == {k \in LastIndices(q) : k # 1}
<1>1. /\ Tail(q) \in Seq(S) /\ Len(Tail(q)) = Len(q) - 1 /\ Len(q) \in Nat \ {0}
      /\ \A k \in 1 .. Len(q) - 1 : Tail(q)[k] = q[k + 1]
  BY TailOne
<1>2. /\ IsFiniteSet(LastIndices(q)) /\ Lasts(q) = Cardinality(LastIndices(q))
      /\ IsFiniteSet(T) /\ Lasts(Tail(q)) = Cardinality(T) /\ Lasts(Tail(q)) \in Nat
  BY <1>1, LastsNat
<1>3. Cardinality(U) = Cardinality(T)
  <2> DEFINE up == [k \in T |-> k + 1]
  <2>1. \A k \in T : k \in 1 .. Len(q) - 1 /\ Tail(q)[k].last /\ k \in Nat
    BY <1>1 DEF LastIndices
  <2>2. \A k \in T : k + 1 \in U
    <3> SUFFICES ASSUME NEW k \in T PROVE k + 1 \in U
      OBVIOUS
    <3>1. k + 1 \in 1 .. Len(q) /\ k + 1 # 1
      BY <1>1, <2>1
    <3>2. q[k + 1].last
      BY <1>1, <2>1
    <3>3. QED
      BY <3>1, <3>2 DEF LastIndices
  <2>3. \A k \in U : k - 1 \in T /\ (k - 1) + 1 = k
    <3> SUFFICES ASSUME NEW k \in U PROVE k - 1 \in T /\ (k - 1) + 1 = k
      OBVIOUS
    <3>1. k \in 1 .. Len(q) /\ k # 1 /\ q[k].last
      BY DEF LastIndices
    <3>2. k - 1 \in 1 .. Len(q) - 1 /\ (k - 1) + 1 = k
      BY <1>1, <3>1
    <3>3. Tail(q)[k - 1] = q[k]
      BY <1>1, <3>2
    <3>4. QED
      BY <1>1, <3>1, <3>2, <3>3 DEF LastIndices
  <2>4. up \in Bijection(T, U)
    <3>1. up \in [T -> U]
      BY <2>2
    <3>2. \A a, b \in T : up[a] = up[b] => a = b
      BY <2>1
    <3>3. \A u \in U : \E a \in T : up[a] = u
      BY <2>3
    <3>4. QED
      BY <3>1, <3>2, <3>3, Fun_IsBij DEF ExistsBijection
  <2>5. QED
    BY <1>2, <2>4, FS_Bijection DEF ExistsBijection
<1>4. CASE q[1].last
  <2>1. LastIndices(q) = U \cup {1} /\ 1 \notin U
    BY <1>1, <1>4 DEF LastIndices
  <2>2. IsFiniteSet(U)
    <3>1. U \subseteq LastIndices(q)
      OBVIOUS
    <3>2. QED
      BY <1>2, <3>1, FS_Subset
  <2>3. Cardinality(U \cup {1}) = Cardinality(U) + 1
    BY <2>1, <2>2, FS_AddElement
  <2>4. QED
    BY <1>2, <1>3, <1>4, <2>1, <2>3
<1>5. CASE ~q[1].last
  <2>1. LastIndices(q) = U
    BY <1>5 DEF LastIndices
  <2>2. Cardinality(LastIndices(q)) = Cardinality(U)
    BY <2>1
  <2> HIDE DEF T, U
  <2>3. QED
    BY <1>2, <1>3, <1>5, <2>2
<1>6. QED
  BY <1>4, <1>5

LEMMA LastsSame ==
  ASSUME NEW q, NEW r, Len(q) = Len(r), \A k \in 1 .. Len(q) : q[k].last = r[k].last
  PROVE  Lasts(q) = Lasts(r)
<1>1. {k \in 1 .. Len(q) : q[k].last} = {k \in 1 .. Len(r) : r[k].last}
  OBVIOUS
<1>2. QED
  BY <1>1 DEF Lasts

LEMMA LastsClosed ==
  ASSUME NEW S, NEW q \in Seq(S), q # <<>>, Closed(q)
  PROVE  Lasts(q) > 0
<1>1. Len(q) \in LastIndices(q) /\ Len(q) \in Nat \ {0}
  BY DEF Closed, LastIndices
<1>2. IsFiniteSet(LastIndices(q)) /\ Lasts(q) = Cardinality(LastIndices(q))
  BY LastsNat
<1>3. Cardinality(LastIndices(q)) # 0 /\ Cardinality(LastIndices(q)) \in Nat
  BY <1>1, <1>2, FS_EmptySet, FS_CardinalityType
<1>4. QED
  BY <1>2, <1>3

LEMMA ClosedTail ==
  ASSUME NEW S, NEW q \in Seq(S), q # <<>>, Closed(q)
  PROVE  Closed(Tail(q)) /\ (Tail(q) = <<>> => q[1].last)
<1>1. /\ Tail(q) \in Seq(S) /\ Len(Tail(q)) = Len(q) - 1 /\ Len(q) \in Nat \ {0}
      /\ \A k \in 1 .. Len(q) - 1 : Tail(q)[k] = q[k + 1]
  BY TailOne
<1>2. q[Len(q)].last
  BY DEF Closed
<1>3. CASE Tail(q) = <<>>
  <2>1. Len(q) = 1
    <3> DEFINE t == Tail(q)
    <3>1. t \in Seq(S) /\ Len(t) = Len(q) - 1 /\ t = <<>> /\ Len(q) \in Nat
      BY <1>1, <1>3
    <3> HIDE DEF t
    <3>2. Len(t) = 0
      BY <3>1, EmptyLen
    <3>3. QED
      BY <3>1, <3>2
  <2>2. QED
    BY <1>2, <1>3, <2>1 DEF Closed
<1>4. CASE Tail(q) # <<>>
  <2>1. Len(Tail(q)) # 0
    BY <1>1, <1>4, EmptyLen
  <2>2. Len(q) - 1 \in 1 .. Len(q) - 1 /\ (Len(q) - 1) + 1 = Len(q)
    BY <1>1, <2>1
  <2>3. Tail(q)[Len(Tail(q))] = q[Len(q)]
    BY <1>1, <2>2
  <2>4. QED
    BY <1>2, <1>4, <2>3 DEF Closed
<1>5. QED
  BY <1>3, <1>4

LEMMA SlotsLarger == [1 .. Slots -> Unassigned] \subseteq [1 .. Slots -> Slot]
BY DEF Slot

LEMMA FlowInit == TestBenchInit => FlowInv
<1> SUFFICES ASSUME TestBenchInit PROVE FlowInv
  OBVIOUS
<1>1. /\ phase = "send" /\ k2n = <<>> /\ count = 0 /\ events = <<>> /\ output_buffer = <<>>
      /\ reg \in [1 .. Slots -> Unassigned]
      /\ m_stream = <<>> /\ reported = {} /\ lanes = [p \in Lane |-> <<>>]
  BY DEF TestBenchInit
<1>2. SendFlow
  BY <1>1 DEF SendFlow, Unreported
<1>3. ReportOK
  BY <1>1, SlotsLarger, Sizes DEF ReportOK
<1>4. EventsOK
  BY <1>1 DEF EventsOK
<1>5. QED
  BY <1>1, <1>2, <1>3, <1>4 DEF FlowInv

LEMMA CountInit == TestBenchInit => CountInv
<1> SUFFICES ASSUME TestBenchInit PROVE CountInv
  OBVIOUS
<1>1. /\ phase = "send" /\ sent = 0 /\ received = 0 /\ aligned = TRUE
      /\ k2n = <<>> /\ m_stream = <<>> /\ n2k = <<>>
  BY DEF TestBenchInit
<1>2. Lasts(k2n) = 0 /\ Lasts(m_stream) = 0 /\ Lasts(n2k) = 0
  BY <1>1, LastsEmpty
<1>3. Len(k2n) = 0
  BY <1>1
<1>4. QED
  BY <1>1, <1>2, <1>3 DEF CountInv

----------------------------------------------------------------------------
LEMMA FlowSendBeat ==
  ASSUME DataInv, FlowInv, SendBeat
  PROVE  FlowInv'
<1>1. /\ phase = "send" /\ phase' \in {"send", "scan"}
      /\ k2n' = k2n /\ count' = count /\ reg' = reg /\ output_buffer' = output_buffer
      /\ events' = events /\ m_stream' = m_stream /\ reported' = reported /\ lanes' = lanes
  BY DEF SendBeat, scanVars, collectVars
<1>2. SendFlow
  BY <1>1 DEF FlowInv
<1>3. SendFlow'
  BY <1>1, <1>2 DEF SendFlow, Unreported
<1>4. ReportOK' /\ EventsOK'
  BY <1>1 DEF FlowInv, ReportOK, EventsOK, Slot, ReportType
<1>5. ScanFlow'
  <2>1. Unreported' /\ m_stream' = <<>> /\ reported' = {}
    BY <1>3 DEF SendFlow
  <2>2. StreamOK'
    BY <2>1 DEF StreamOK
  <2>3. lanes' = [p \in Lane |-> <<>>]
    BY <1>3 DEF SendFlow
  <2>4. lanes' \in [Lane -> Seq(reported')]
    BY <2>3
  <2>5. \A p \in Lane : Len(lanes'[p]) = 0
    BY <2>3
  <2>6. \A p \in Lane : LaneOK(p)'
    BY <2>5 DEF LaneOK
  <2>7. QED
    BY <2>1, <2>2, <2>4, <2>6 DEF ScanFlow
<1>6. QED
  BY <1>1, <1>3, <1>4, <1>5 DEF FlowInv

LEMMA CountSendBeat ==
  ASSUME DataInv, FlowInv, CountInv, SendBeat
  PROVE  CountInv'
<1>1. /\ phase = "send" /\ n2k' = Append(n2k, NewBeat)
      /\ phase' = IF bytes_sent' < Len(test.data) THEN "send" ELSE "scan"
      /\ k2n' = k2n /\ m_stream' = m_stream /\ received' = received /\ aligned' = aligned
  BY DEF SendBeat, NewBeat, receiveVars
<1>2. /\ IF IsLastBeat THEN sent' = sent + 1
         ELSE sent' = sent /\ bytes_sent' = bytes_sent
      /\ phase' \in {"send", "scan"}
  BY DEF SendBeat
<1>3. n2k \in Seq(BeatType) /\ NewBeat \in BeatType /\ (NewBeat.last <=> IsLastBeat)
  BY <1>1, NewBeatOK DEF DataInv, BeatsInv, BeatType
<1>4. NewBeat.last \in BOOLEAN /\ Lasts(n2k) \in Nat
  BY <1>3, LastsNat DEF BeatType
<1>5. Lasts(n2k') = Lasts(n2k) + (IF NewBeat.last THEN 1 ELSE 0)
  BY <1>1, <1>3, <1>4, LastsAppend
<1>6. k2n = <<>> /\ m_stream = <<>>
  BY <1>1 DEF FlowInv, SendFlow, Unreported
<1>7. Lasts(k2n) = 0 /\ Lasts(m_stream) = 0
  BY <1>6, LastsEmpty
<1>8. /\ received = 0 /\ aligned = TRUE /\ sent \in Nat
      /\ sent = received + Lasts(k2n) + Lasts(m_stream) + Lasts(n2k)
  BY <1>1 DEF CountInv, DataInv, SendInv
<1>9. sent' = received' + Lasts(k2n') + Lasts(m_stream') + Lasts(n2k')
  <2>1. Lasts(k2n') = 0 /\ Lasts(m_stream') = 0 /\ received' = 0
    BY <1>1, <1>7, <1>8
  <2>2. sent = Lasts(n2k)
    BY <1>4, <1>7, <1>8
  <2>3. sent' = Lasts(n2k')
    BY <1>2, <1>3, <1>4, <1>5, <2>2
  <2>4. QED
    BY <1>8, <2>1, <2>3, <1>4, <1>5
<1>10. ASSUME phase' = "scan" PROVE n2k' # <<>> /\ Closed(n2k')
  <2>1. IsLastBeat
    <3>1. bytes_sent < Len(test.data)
      <4>1. bytes_sent + beat_offset < Len(test.data) /\ bytes_sent \in Nat /\ beat_offset \in Nat
        BY <1>1 DEF DataInv, SendInv
      <4>2. Len(test.data) \in Nat
        BY TestTypes DEF DataInv, SendInv
      <4>3. QED
        BY <4>1, <4>2
    <3>2. QED
      BY <1>1, <1>2, <1>10, <3>1
  <2>2. n2k' # <<>> /\ n2k'[Len(n2k')] = NewBeat
    BY <1>1, <1>3, AppendOne
  <2>3. QED
    BY <1>3, <2>1, <2>2 DEF Closed
<1>11. Len(k2n') = 0
  BY <1>1, <1>6
<1>12. QED
  BY <1>1, <1>2, <1>8, <1>9, <1>10, <1>11 DEF CountInv

----------------------------------------------------------------------------
LEMMA FlowEndOfScan ==
  ASSUME FlowInv, EndOfScan
  PROVE  FlowInv'
<1>1. /\ phase = "scan" /\ phase' = "collect" /\ n2k = <<>>
      /\ k2n' = k2n /\ count' = count /\ reg' = reg /\ output_buffer' = output_buffer
      /\ events' = events /\ m_stream' = m_stream /\ reported' = reported
  BY DEF EndOfScan, scanVars, collectVars
<1>2. ScanFlow
  BY <1>1 DEF FlowInv
<1>3. ReportOK' /\ EventsOK'
  BY <1>1 DEF FlowInv, ReportOK, EventsOK, Slot, ReportType
<1>4. \A p \in Lane : lanes[p] \in Seq(reported) /\ Len(lanes[p]) \in Nat
  BY <1>2 DEF ScanFlow
<1>5. \A p \in Lane : \A i \in 1 .. Len(lanes[p]) : FALSE
  BY <1>1, <1>2 DEF ScanFlow, LaneOK
<1>6. \A e \in reported : InStream(e)
  BY <1>2, <1>5 DEF ScanFlow, InSeq
<1>7. CollectFlow'
  <2>1. StreamOK'
    BY <1>1, <1>2 DEF ScanFlow, StreamOK, StreamType
  <2>2. /\ output_buffer = <<>> /\ events = <<>> /\ k2n = <<>> /\ count = 0
        /\ reg \in [1 .. Slots -> Unassigned]
    BY <1>2 DEF ScanFlow, Unreported
  <2>3. \A s \in 1 .. Slots : reg[s] \in Unassigned
    BY <2>2
  <2>4. \A e : Waits(e)'
    <3>1. Len(k2n') = 0
      BY <1>1, <2>2
    <3>2. QED
      BY <1>1, <2>3, <3>1 DEF Waits, OldReports, Old
  <2>5. \A e \in reported : InStream(e)'
    BY <1>1, <1>6 DEF InStream
  <2>6. count' = 0 /\ ~(count' > 0) /\ ~(\E i \in 1 .. count' : TRUE)
    BY <1>1, <2>2
  <2>7. QED
    BY <1>1, <2>1, <2>2, <2>4, <2>5, <2>6 DEF CollectFlow
<1>8. QED
  BY <1>1, <1>3, <1>7 DEF FlowInv

LEMMA CountEndOfScan ==
  ASSUME FlowInv, CountInv, EndOfScan
  PROVE  CountInv'
<1>1. /\ phase = "scan" /\ phase' = "collect" /\ n2k = <<>> /\ n2k' = n2k
      /\ k2n' = k2n /\ m_stream' = m_stream /\ received' = received /\ aligned' = aligned
      /\ sent' = sent
  BY DEF EndOfScan, sendVars, receiveVars
<1>2. k2n = <<>>
  BY <1>1 DEF FlowInv, ScanFlow, Unreported
<1>3. Closed(m_stream) /\ Closed(k2n)
  BY <1>1, <1>2 DEF CountInv, Closed
<1>4. QED
  BY <1>1, <1>3 DEF CountInv

LEMMA DivBounds ==
  ASSUME NEW i \in Nat
  PROVE  /\ i \div BeatBytes \in Nat
         /\ (i \div BeatBytes) * BeatBytes <= i
         /\ i < (i \div BeatBytes + 1) * BeatBytes
<1>1. i \div BeatBytes \in Nat /\ i % BeatBytes \in 0 .. BeatBytes - 1
      /\ i = BeatBytes * (i \div BeatBytes) + (i % BeatBytes)
  BY Sizes
<1> DEFINE d == i \div BeatBytes
<1>2. BeatBytes * d = d * BeatBytes /\ (d + 1) * BeatBytes = d * BeatBytes + BeatBytes
      /\ d * BeatBytes \in Nat
  BY <1>1, Sizes
<1>3. QED
  BY <1>1, <1>2, Sizes

\* Where a beat starts, the number of the beat goes up.
LEMMA BeatNumber ==
  ASSUME NEW off \in Nat, Whole(off)
  PROVE  \E j \in Nat :
           /\ \A i \in Nat : off <= i /\ i < off + BeatBytes => i \div BeatBytes = j
           /\ \A i \in Nat : i < off => i \div BeatBytes < j
           /\ \A i \in Nat : off <= i => i \div BeatBytes >= j
<1>1. PICK j \in Nat : off = j * BeatBytes
  BY DEF Whole
<1>2. off + BeatBytes = (j + 1) * BeatBytes
  BY <1>1, Sizes
<1>3. ASSUME NEW i \in Nat, off <= i PROVE i \div BeatBytes >= j
  <2>1. SUFFICES ASSUME i \div BeatBytes + 1 <= j PROVE FALSE
    BY DivBounds
  <2>2. (i \div BeatBytes + 1) * BeatBytes <= j * BeatBytes
    BY <2>1, DivBounds, TimesMonotonic, Sizes
  <2>3. i < (i \div BeatBytes + 1) * BeatBytes
    BY DivBounds
  <2> DEFINE c == (i \div BeatBytes + 1) * BeatBytes
  <2>4. c \in Nat
    BY DivBounds, Sizes
  <2> HIDE DEF c
  <2>5. QED
    BY <1>1, <1>3, <2>2, <2>3, <2>4 DEF c
<1>4. ASSUME NEW i \in Nat, i < off PROVE i \div BeatBytes < j
  <2>1. SUFFICES ASSUME j <= i \div BeatBytes PROVE FALSE
    BY DivBounds
  <2>2. j * BeatBytes <= (i \div BeatBytes) * BeatBytes
    BY <2>1, DivBounds, TimesMonotonic, Sizes
  <2>3. (i \div BeatBytes) * BeatBytes <= i /\ (i \div BeatBytes) * BeatBytes \in Nat
    BY DivBounds, Sizes
  <2>4. QED
    BY <1>1, <1>4, <2>2, <2>3
<1>5. ASSUME NEW i \in Nat, i < off + BeatBytes PROVE i \div BeatBytes <= j
  <2>1. SUFFICES ASSUME j + 1 <= i \div BeatBytes PROVE FALSE
    BY DivBounds
  <2>2. (j + 1) * BeatBytes <= (i \div BeatBytes) * BeatBytes
    BY <2>1, DivBounds, TimesMonotonic, Sizes
  <2>3. (i \div BeatBytes) * BeatBytes <= i /\ (i \div BeatBytes) * BeatBytes \in Nat
    BY DivBounds, Sizes
  <2>4. QED
    BY <1>2, <1>5, <2>2, <2>3, Sizes
<1>6. \A i \in Nat : off <= i /\ i < off + BeatBytes => i \div BeatBytes = j
  BY <1>3, <1>5, DivBounds
<1>7. QED
  BY <1>3, <1>4, <1>6

\* The order of the events of a beat, and of those before it.
LEMMA BeatOrder ==
  ASSUME NEW off \in Nat, Whole(off), NEW e \in Events, NEW f \in Events,
         f.byte_index >= off
  PROVE  /\ e.packet < f.packet \/ (e.packet = f.packet /\ e.byte_index < off) => Before(e, f)
         /\ e.packet = f.packet /\ e.byte_index >= off
              /\ e.byte_index < off + BeatBytes /\ f.byte_index < off + BeatBytes
              /\ (e.lane < f.lane \/ (e.lane = f.lane /\ e.byte_index < f.byte_index))
            => Before(e, f)
<1>1. PICK j \in Nat :
        /\ \A i \in Nat : off <= i /\ i < off + BeatBytes => i \div BeatBytes = j
        /\ \A i \in Nat : i < off => i \div BeatBytes < j
        /\ \A i \in Nat : off <= i => i \div BeatBytes >= j
  BY BeatNumber
<1>2. e.byte_index \in Nat /\ f.byte_index \in Nat
  BY DEF Events
<1>3. Beat(e) \in Nat /\ Beat(f) \in Nat
  BY <1>2, DivBounds DEF Beat
<1>4. e.byte_index < off => Beat(e) < j
  BY <1>1, <1>2 DEF Beat
<1>5. Beat(f) >= j
  BY <1>1, <1>2 DEF Beat
<1>6. e.byte_index < off => Beat(e) < Beat(f)
  BY <1>3, <1>4, <1>5
<1>7. e.byte_index >= off /\ e.byte_index < off + BeatBytes /\ f.byte_index < off + BeatBytes
        => Beat(e) = Beat(f)
  BY <1>1, <1>2 DEF Beat
<1>8. QED
  BY <1>6, <1>7 DEF Before

----------------------------------------------------------------------------
\* The events of the beat, in one lane, with those of the present call.
LaneSeq(s, p, from, to) ==
  /\ \A i \in 1 .. Len(s) :
       /\ s[i].packet = n2k[1].packet /\ s[i].lane = p
       /\ s[i].byte_index >= from /\ s[i].byte_index < to
  /\ \A i, j \in 1 .. Len(s) : i < j => s[i].byte_index < s[j].byte_index

LEMMA WithMatchOK ==
  ASSUME DataInv, ScanInv, OutputOK, SoundInv, FlowInv, ScanPair, NEW p \in Lane
  PROVE  /\ WithMatch(p) \in Seq(reported')
         /\ LaneSeq(WithMatch(p), p, packet_byte_idx, packet_byte_idx + 2 * pair + 2)
         /\ \A e \in reported : InSeq(e, lanes[p]) => InSeq(e, WithMatch(p))
         /\ outIds'[p] # 0 => InSeq(EventAt(p), WithMatch(p))
<1>1. phase = "scan" /\ n2k # <<>>
      /\ reported' = reported \cup {EventAt(q) : q \in {r \in Lane : outIds'[r] # 0}}
  BY DEF ScanPair
<1>2. ScanFlow
  BY <1>1 DEF FlowInv
<1>3. pair \in Nat /\ packet_byte_idx \in Nat /\ p \in {0, 1} /\ p \in Nat
  BY LanePair DEF DataInv, PosInv
<1>4. lanes[p] \in Seq(reported) /\ lanes[p] \in Seq(reported') /\ Len(lanes[p]) \in Nat
  BY <1>1, <1>2, SeqLarger DEF ScanFlow
<1>5. LaneOK(p)
  BY <1>2 DEF ScanFlow
<1>6. \A i \in 1 .. Len(lanes[p]) : lanes[p][i] \in Events
  <2>1. \A e \in reported : e \in Events
    BY DEF SoundInv
  <2>2. QED
    BY <1>4, <2>1
<1>7. CASE outIds'[p] = 0
  <2>1. WithMatch(p) = lanes[p]
    BY <1>7 DEF WithMatch
  <2>2. \A i \in 1 .. Len(lanes[p]) :
          lanes[p][i].byte_index < packet_byte_idx + 2 * pair + 2
    BY <1>3, <1>5, <1>6 DEF LaneOK, Events
  <2>3. LaneSeq(lanes[p], p, packet_byte_idx, packet_byte_idx + 2 * pair + 2)
    BY <1>5, <2>2 DEF LaneOK, LaneSeq
  <2>4. QED
    BY <1>4, <1>7, <2>1, <2>3
<1>8. CASE outIds'[p] # 0
  <2> DEFINE x == EventAt(p)
             s == WithMatch(p)
             n == Len(lanes[p])
  <2>1. s = Append(lanes[p], x)
    BY <1>8 DEF WithMatch
  <2>2. x \in reported'
    BY <1>1, <1>8
  <2>3. /\ s \in Seq(reported') /\ Len(s) = n + 1 /\ n \in Nat
        /\ \A k \in 1 .. n : s[k] = lanes[p][k]
        /\ s[n + 1] = x
    BY <1>4, <2>1, <2>2, AppendOne
  <2>4. /\ x.byte_index = packet_byte_idx + 2 * pair + p /\ x.lane = p
        /\ x.packet = n2k[1].packet
    BY EventOfCall DEF CallPos
  <2> HIDE DEF x, s, n
  <2>5. /\ x.byte_index >= packet_byte_idx
        /\ x.byte_index < packet_byte_idx + 2 * pair + 2
        /\ \A k \in 1 .. n : /\ lanes[p][k].byte_index < x.byte_index
                             /\ lanes[p][k].byte_index < packet_byte_idx + 2 * pair + 2
    <3>1. \A k \in 1 .. n : /\ lanes[p][k].byte_index \in Nat
                            /\ lanes[p][k].byte_index < packet_byte_idx + 2 * pair
      BY <1>5, <1>6 DEF LaneOK, Events, n
    <3>2. QED
      BY <1>3, <2>4, <3>1
  <2>6. \A k \in 1 .. n + 1 : k \in 1 .. n \/ k = n + 1
    BY <2>3
  <2>7. ASSUME NEW i \in 1 .. Len(s)
        PROVE  /\ s[i].packet = n2k[1].packet /\ s[i].lane = p
               /\ s[i].byte_index >= packet_byte_idx
               /\ s[i].byte_index < packet_byte_idx + 2 * pair + 2
    BY <1>5, <2>3, <2>4, <2>5, <2>6 DEF LaneOK, n
  <2>8. ASSUME NEW i \in 1 .. Len(s), NEW j \in 1 .. Len(s), i < j
        PROVE  s[i].byte_index < s[j].byte_index
    <3>1. i \in 1 .. n
      BY <2>3, <2>8
    <3>2. CASE j \in 1 .. n
      BY <1>5, <2>3, <2>8, <3>1, <3>2 DEF LaneOK, n
    <3>3. CASE j = n + 1
      BY <2>3, <2>5, <3>1, <3>3
    <3>4. QED
      BY <2>3, <2>6, <3>2, <3>3
  <2>9. LaneSeq(s, p, packet_byte_idx, packet_byte_idx + 2 * pair + 2)
    BY <2>7, <2>8 DEF LaneSeq
  <2>10. \A e \in reported : InSeq(e, lanes[p]) => InSeq(e, s)
    <3>1. \A k \in 1 .. n : k \in 1 .. n + 1
      BY <2>3
    <3>2. QED
      BY <2>3, <3>1 DEF InSeq, n
  <2>11. InSeq(x, s)
    <3>1. n + 1 \in 1 .. Len(s)
      BY <2>3
    <3>2. QED
      BY <2>3, <3>1 DEF InSeq
  <2>12. QED
    BY <2>3, <2>9, <2>10, <2>11 DEF x, s
<1>9. QED
  BY <1>7, <1>8

\* The matches of a finished beat.
BeatMatches == WithMatch(0) \o WithMatch(1)

\* The matches of a beat leave in their order.
LEMMA BeatMatchesOK ==
  ASSUME DataInv, ScanInv, OutputOK, SoundInv, SoundInv', FlowInv, ScanPair
  PROVE  /\ BeatMatches \in Seq(reported')
         /\ Sorted(BeatMatches)
         /\ \A k \in 1 .. Len(BeatMatches) :
              /\ BeatMatches[k].packet = n2k[1].packet
              /\ BeatMatches[k].byte_index >= packet_byte_idx
              /\ BeatMatches[k].byte_index < packet_byte_idx + 2 * pair + 2
         /\ \A e, p : p \in Lane /\ InSeq(e, WithMatch(p)) => InSeq(e, BeatMatches)
<1> DEFINE s == WithMatch(0)
           t == WithMatch(1)
           m == Len(WithMatch(0))
           n == Len(WithMatch(1))
           end == packet_byte_idx + 2 * pair + 2
<1>1. phase = "scan" /\ n2k # <<>>
  BY DEF ScanPair
<1>2. pair \in Nat /\ packet_byte_idx \in Nat /\ 2 * pair + 2 <= BeatBytes
      /\ Whole(packet_byte_idx)
  BY <1>1, CallBytes DEF DataInv, PosInv, BeatOK, DCAM_P
<1>3. /\ s \in Seq(reported') /\ t \in Seq(reported')
      /\ LaneSeq(s, 0, packet_byte_idx, end) /\ LaneSeq(t, 1, packet_byte_idx, end)
  BY LanePair, WithMatchOK
<1>4. \A e \in reported' : e \in Events
  BY DEF SoundInv
<1> HIDE DEF s, t, end
<1>5. /\ BeatMatches \in Seq(reported') /\ Len(BeatMatches) = m + n
      /\ m \in Nat /\ n \in Nat
      /\ \A k \in 1 .. m : BeatMatches[k] = s[k]
      /\ \A k \in 1 .. n : BeatMatches[m + k] = t[k]
  BY <1>3, ConcatTwo DEF BeatMatches, s, t
<1>6. m = Len(s) /\ n = Len(t)
  BY DEF s, t
<1> HIDE DEF m, n
<1>7. \A k \in 1 .. Len(BeatMatches) : k \in 1 .. m \/ \E j \in 1 .. n : k = m + j
  BY <1>5, ConcatIndex
<1>8. ASSUME NEW k \in 1 .. Len(BeatMatches)
      PROVE  /\ BeatMatches[k].packet = n2k[1].packet
             /\ BeatMatches[k].byte_index >= packet_byte_idx
             /\ BeatMatches[k].byte_index < end
  <2>1. CASE k \in 1 .. m
    BY <1>3, <1>5, <1>6, <2>1 DEF LaneSeq
  <2>2. ASSUME NEW j \in 1 .. n, k = m + j
        PROVE  /\ BeatMatches[k].packet = n2k[1].packet
               /\ BeatMatches[k].byte_index >= packet_byte_idx
               /\ BeatMatches[k].byte_index < end
    <3>1. BeatMatches[k] = t[j]
      BY <1>5, <2>2
    <3>2. QED
      BY <1>3, <1>6, <3>1 DEF LaneSeq
  <2>3. QED
    BY <1>7, <2>1, <2>2
<1>9. \A k \in 1 .. Len(BeatMatches) : BeatMatches[k] \in Events
  BY <1>4, <1>5
<1>10. ASSUME NEW i \in 1 .. Len(BeatMatches), NEW j \in 1 .. Len(BeatMatches), i < j
       PROVE  Before(BeatMatches[i], BeatMatches[j])
  <2> DEFINE e == BeatMatches[i]
             f == BeatMatches[j]
  <2>1. /\ e \in Events /\ f \in Events /\ e.packet = f.packet
        /\ e.byte_index >= packet_byte_idx /\ e.byte_index < end
        /\ f.byte_index >= packet_byte_idx /\ f.byte_index < end
    BY <1>8, <1>9
  <2>2. e.lane < f.lane \/ (e.lane = f.lane /\ e.byte_index < f.byte_index)
    <3>1. CASE j \in 1 .. m
      <4>1. i \in 1 .. m
        BY <1>5, <1>10, <3>1
      <4>2. e = s[i] /\ f = s[j]
        BY <1>5, <3>1, <4>1
      <4>3. s[i].lane = s[j].lane /\ s[i].byte_index < s[j].byte_index
        BY <1>3, <1>6, <1>10, <3>1, <4>1 DEF LaneSeq
      <4>4. QED
        BY <4>2, <4>3
    <3>2. ASSUME NEW b \in 1 .. n, j = m + b
          PROVE  e.lane < f.lane \/ (e.lane = f.lane /\ e.byte_index < f.byte_index)
      <4>1. f = t[b] /\ t[b].lane = 1
        BY <1>3, <1>5, <1>6, <3>2 DEF LaneSeq
      <4>2. CASE i \in 1 .. m
        <5>1. e = s[i] /\ s[i].lane = 0
          BY <1>3, <1>5, <1>6, <4>2 DEF LaneSeq
        <5>2. QED
          BY <4>1, <5>1
      <4>3. ASSUME NEW a \in 1 .. n, i = m + a
            PROVE  e.lane = f.lane /\ e.byte_index < f.byte_index
        <5>1. e = t[a] /\ t[a].lane = 1
          BY <1>3, <1>5, <1>6, <4>3 DEF LaneSeq
        <5>2. a < b
          BY <1>5, <1>10, <3>2, <4>3
        <5>3. t[a].byte_index < t[b].byte_index
          BY <1>3, <1>6, <5>2 DEF LaneSeq
        <5>4. QED
          BY <4>1, <5>1, <5>3
      <4>4. QED
        BY <1>7, <4>2, <4>3
    <3>3. QED
      BY <1>7, <3>1, <3>2
  <2> HIDE DEF e, f
  <2>3. e.byte_index < packet_byte_idx + BeatBytes /\ f.byte_index < packet_byte_idx + BeatBytes
    <3>1. e.byte_index \in Nat /\ f.byte_index \in Nat
      BY <2>1 DEF Events
    <3>2. end <= packet_byte_idx + BeatBytes /\ end \in Nat
      BY <1>2, Sizes DEF end
    <3>3. QED
      BY <1>2, <2>1, <3>1, <3>2, Sizes
  <2>4. Before(e, f)
    BY <1>2, <2>1, <2>2, <2>3, BeatOrder
  <2>5. QED
    BY <2>4 DEF e, f
<1>11. ASSUME NEW e, NEW p \in Lane, InSeq(e, WithMatch(p))
       PROVE  InSeq(e, BeatMatches)
  <2>1. CASE p = 0
    <3>1. PICK k \in 1 .. m : s[k] = e
      BY <1>6, <1>11, <2>1 DEF InSeq, s
    <3>2. k \in 1 .. Len(BeatMatches) /\ BeatMatches[k] = e
      BY <1>5, <3>1
    <3>3. QED
      BY <3>2 DEF InSeq
  <2>2. CASE p = 1
    <3>1. PICK k \in 1 .. n : t[k] = e
      BY <1>6, <1>11, <2>2 DEF InSeq, t
    <3>2. m + k \in 1 .. Len(BeatMatches) /\ BeatMatches[m + k] = e
      BY <1>5, <3>1
    <3>3. QED
      BY <3>2 DEF InSeq
  <2>3. QED
    BY <2>1, <2>2, LanePair
<1>12. QED
  BY <1>5, <1>8, <1>10, <1>11 DEF Sorted, end

NewMark == [matches |-> BeatMatches, last |-> n2k[1].last]

LEMMA FlowScanPair ==
  ASSUME DataInv, ScanInv, OutputOK, SoundInv, SoundInv', FlowInv, ScanPair
  PROVE  FlowInv'
<1>1. /\ phase = "scan" /\ phase' = "scan" /\ n2k # <<>>
      /\ k2n' = k2n /\ count' = count /\ reg' = reg /\ output_buffer' = output_buffer
      /\ events' = events
      /\ reported' = reported \cup {EventAt(p) : p \in {q \in Lane : outIds'[q] # 0}}
  BY DEF ScanPair, collectVars
<1>2. ScanFlow
  BY <1>1 DEF FlowInv
<1>3. Unreported /\ Unreported'
  BY <1>1, <1>2 DEF ScanFlow, Unreported
<1>4. ReportOK' /\ EventsOK'
  <2>1. k2n' = <<>> /\ count' = 0 /\ reg' \in [1 .. Slots -> Unassigned] /\ events' = <<>>
    BY <1>3 DEF Unreported
  <2>2. reg' \in [1 .. Slots -> Slot']
    BY <2>1 DEF Slot
  <2>3. QED
    BY <2>1, <2>2, Sizes DEF ReportOK, EventsOK
<1>5. pair \in Nat /\ packet_byte_idx \in Nat /\ 2 * pair + 2 <= BeatBytes
      /\ Whole(packet_byte_idx) /\ packet_byte_idx = n2k[1].offset
      /\ n2k[1] \in BeatType /\ Head(n2k) = n2k[1]
  BY <1>1, CallBytes DEF DataInv, PosInv, BeatOK, DCAM_P
<1>6. \A e \in reported' : e \in Events
  BY DEF SoundInv
<1>7. /\ m_stream \in Seq([matches : Seq(reported), last : BOOLEAN])
      /\ m_stream \in Seq([matches : Seq(reported'), last : BOOLEAN])
  <2>1. m_stream \in Seq([matches : Seq(reported), last : BOOLEAN])
    BY <1>2 DEF ScanFlow, StreamOK, StreamType
  <2>2. Seq(reported) \subseteq Seq(reported')
    BY <1>1, SeqLarger
  <2>3. [matches : Seq(reported), last : BOOLEAN] \subseteq [matches : Seq(reported'), last : BOOLEAN]
    BY <2>2
  <2>4. QED
    BY <2>1, <2>3, SeqLarger
<1>8. \A e \in reported' : (\E p \in Lane : InSeq(e, WithMatch(p))) \/ InStream(e)
  <2> SUFFICES ASSUME NEW e \in reported'
               PROVE  (\E p \in Lane : InSeq(e, WithMatch(p))) \/ InStream(e)
    OBVIOUS
  <2>1. CASE e \in reported
    <3>1. (\E p \in Lane : InSeq(e, lanes[p])) \/ InStream(e)
      BY <1>2, <2>1 DEF ScanFlow
    <3>2. QED
      BY <2>1, <3>1, WithMatchOK
  <2>2. CASE e \notin reported
    <3>1. PICK p \in Lane : outIds'[p] # 0 /\ e = EventAt(p)
      BY <1>1, <2>2
    <3>2. QED
      BY <3>1, WithMatchOK
  <2>3. QED
    BY <2>1, <2>2
<1>9. /\ \A b \in 1 .. Len(m_stream) : Sorted(m_stream[b].matches)
      /\ \A b, c \in 1 .. Len(m_stream) :
           b < c => AllBefore(m_stream[b].matches, m_stream[c].matches)
      /\ \A b \in 1 .. Len(m_stream) :
           \A i \in 1 .. Len(m_stream[b].matches) : IsPast(m_stream[b].matches[i])
  BY <1>1, <1>2 DEF ScanFlow, StreamOK
<1>10. CASE 2 * (pair + 1) < BeatBytes
  <2>1. /\ pair' = pair + 1 /\ n2k' = n2k /\ packet_byte_idx' = packet_byte_idx
        /\ m_stream' = m_stream /\ lanes' = [p \in Lane |-> WithMatch(p)]
    BY <1>10 DEF ScanPair, DCAM_P
  <2>2. lanes' \in [Lane -> Seq(reported')] /\ \A p \in Lane : lanes'[p] = WithMatch(p)
    BY <2>1, WithMatchOK
  <2>3. ASSUME NEW p \in Lane PROVE LaneOK(p)'
    <3>1. LaneSeq(WithMatch(p), p, packet_byte_idx, packet_byte_idx + 2 * pair + 2)
      BY WithMatchOK
    <3>2. packet_byte_idx + 2 * pair + 2 = packet_byte_idx' + 2 * pair'
      BY <1>5, <2>1
    <3>3. LaneSeq(lanes'[p], p, packet_byte_idx', packet_byte_idx' + 2 * pair')
      BY <2>1, <2>2, <3>1, <3>2
    <3>4. QED
      BY <1>1, <2>1, <3>3 DEF LaneSeq, LaneOK
  <2>4. StreamOK'
    BY <1>7, <1>9, <2>1 DEF StreamOK, StreamType
  <2>5. \A b \in 1 .. Len(m_stream') :
          \A i \in 1 .. Len(m_stream'[b].matches) : IsPast(m_stream[b].matches[i])'
    BY <1>9, <2>1 DEF IsPast
  <2>6. \A e \in reported' : (\E p \in Lane : InSeq(e, lanes'[p])) \/ InStream(e)'
    BY <1>8, <2>1, <2>2 DEF InStream
  <2>7. ScanFlow'
    BY <1>3, <2>2, <2>3, <2>4, <2>5, <2>6 DEF ScanFlow
  <2>8. QED
    BY <1>1, <1>4, <2>7 DEF FlowInv
<1>11. CASE ~(2 * (pair + 1) < BeatBytes)
  <2>1. /\ pair' = 0 /\ n2k' = Tail(n2k)
        /\ lanes' = [p \in Lane |-> <<>>]
        /\ m_stream' = Append(m_stream, NewMark)
        /\ packet_byte_idx' = IF n2k[1].last THEN 0 ELSE packet_byte_idx + BeatBytes
    BY <1>5, <1>11 DEF ScanPair, DCAM_P, NewMark, BeatMatches
  <2> DEFINE N == n2k[1].packet
             L == Len(m_stream)
  <2>2. /\ BeatMatches \in Seq(reported')
        /\ Sorted(BeatMatches)
        /\ \A k \in 1 .. Len(BeatMatches) :
             /\ BeatMatches[k].packet = N
             /\ BeatMatches[k].byte_index >= packet_byte_idx
             /\ BeatMatches[k].byte_index < packet_byte_idx + 2 * pair + 2
        /\ \A e, p : p \in Lane /\ InSeq(e, WithMatch(p)) => InSeq(e, BeatMatches)
    BY BeatMatchesOK
  <2>3. 2 * pair + 2 = BeatBytes
    BY <1>5, <1>11, Sizes
  <2>4. NewMark \in [matches : Seq(reported'), last : BOOLEAN] /\ NewMark.matches = BeatMatches
    BY <1>5, <2>2 DEF NewMark, BeatType
  <2>5. /\ m_stream' \in Seq([matches : Seq(reported'), last : BOOLEAN])
        /\ Len(m_stream') = L + 1 /\ L \in Nat
        /\ \A b \in 1 .. L : m_stream'[b] = m_stream[b]
        /\ m_stream'[L + 1] = NewMark
    BY <1>7, <2>1, <2>4, AppendOne
  <2> HIDE DEF L, N
  <2>6. \A b \in 1 .. Len(m_stream') : b \in 1 .. L \/ b = L + 1
    BY <2>5
  <2>a. L = Len(m_stream) /\ N = n2k[1].packet
    BY DEF L, N
  <2>b. \A b \in 1 .. L : m_stream[b].matches \in Seq(reported')
    <3> SUFFICES ASSUME NEW b \in 1 .. L PROVE m_stream[b].matches \in Seq(reported')
      OBVIOUS
    <3>1. m_stream[b] \in [matches : Seq(reported'), last : BOOLEAN]
      BY <1>7, <2>a, SeqElement
    <3>2. QED
      BY <3>1
  <2>7. ASSUME NEW b \in 1 .. L
        PROVE  AllBefore(m_stream[b].matches, BeatMatches)
    <3> SUFFICES ASSUME NEW i \in 1 .. Len(m_stream[b].matches),
                        NEW j \in 1 .. Len(BeatMatches)
                 PROVE  Before(m_stream[b].matches[i], BeatMatches[j])
      BY DEF AllBefore
    <3> DEFINE e == m_stream[b].matches[i]
               f == BeatMatches[j]
    <3>1. e \in Events /\ f \in Events
      BY <1>6, <2>2, <2>b
    <3>2. f.packet = N /\ f.byte_index >= packet_byte_idx
      BY <2>2
    <3>3. e.packet < N \/ (e.packet = N /\ e.byte_index < packet_byte_idx)
      BY <1>9, <2>a DEF IsPast
    <3> HIDE DEF e, f
    <3>4. Before(e, f)
      BY <1>5, <3>1, <3>2, <3>3, BeatOrder
    <3>5. QED
      BY <3>4 DEF e, f
  <2>8. StreamOK'
    <3>1. \A b \in 1 .. Len(m_stream') : Sorted(m_stream'[b].matches)
      BY <1>9, <2>2, <2>4, <2>5, <2>6, <2>a
    <3>2. ASSUME NEW b \in 1 .. Len(m_stream'), NEW c \in 1 .. Len(m_stream'), b < c
          PROVE  AllBefore(m_stream'[b].matches, m_stream'[c].matches)
      <4>1. b \in 1 .. L
        BY <2>5, <3>2
      <4>2. CASE c \in 1 .. L
        BY <1>9, <2>5, <2>a, <3>2, <4>1, <4>2
      <4>3. CASE c = L + 1
        BY <2>4, <2>5, <2>7, <4>1, <4>3
      <4>4. QED
        BY <2>6, <4>2, <4>3
    <3>3. QED
      BY <2>5, <3>1, <3>2 DEF StreamOK, StreamType
  <2>9. ASSUME n2k' # <<>>
        PROVE  \/ n2k'[1].packet = N + 1 /\ packet_byte_idx' = 0
               \/ n2k'[1].packet = N /\ packet_byte_idx' = packet_byte_idx + BeatBytes
    <3>1. n2k \in Seq(BeatType)
      BY DEF DataInv, BeatsInv, BeatType
    <3>2. /\ n2k' \in Seq(BeatType) /\ Len(n2k') = Len(n2k) - 1 /\ Len(n2k) \in Nat \ {0}
          /\ \A k \in 1 .. Len(n2k) - 1 : n2k'[k] = n2k[k + 1]
      BY <1>1, <2>1, <3>1, TailOne
    <3>3. Len(n2k') # 0
      BY <2>9, <3>2, EmptyLen
    <3>4. 1 \in 1 .. Len(n2k) - 1
      BY <3>2, <3>3
    <3>5. n2k'[1] = n2k[1 + 1] /\ Follows(n2k[1], n2k[1 + 1].packet, n2k[1 + 1].offset)
      BY <3>2, <3>4 DEF DataInv, BeatsInv
    <3>6. QED
      BY <2>1, <2>a, <3>5 DEF Follows
  <2>10. ASSUME NEW b \in 1 .. Len(m_stream'), NEW i \in 1 .. Len(m_stream'[b].matches),
                n2k' # <<>>
         PROVE  IsPast(m_stream[b].matches[i])'
    <3> DEFINE e == m_stream'[b].matches[i]
    <3>1. e \in Events /\ (e.packet < N \/ (e.packet = N /\ e.byte_index < packet_byte_idx + BeatBytes))
      <4>1. CASE b \in 1 .. L
        <5>1. m_stream'[b] = m_stream[b] /\ m_stream[b].matches[i] \in Events
          BY <1>6, <2>5, <2>b, <4>1
        <5>2. e.packet < N \/ (e.packet = N /\ e.byte_index < packet_byte_idx)
          BY <1>9, <2>a, <4>1, <5>1 DEF IsPast
        <5>3. e \in Events /\ e.byte_index \in Nat
          BY <5>1 DEF Events
        <5> HIDE DEF e
        <5>4. QED
          BY <1>5, <5>2, <5>3, Sizes
      <4>2. CASE b = L + 1
        <5>1. m_stream'[b].matches = BeatMatches
          BY <2>4, <2>5, <4>2
        <5>2. e \in Events /\ e.packet = N /\ e.byte_index < packet_byte_idx + 2 * pair + 2
          BY <1>6, <2>2, <5>1
        <5>3. packet_byte_idx + 2 * pair + 2 = packet_byte_idx + BeatBytes
          <6>1. packet_byte_idx \in Nat /\ pair \in Nat
            BY <1>5
          <6>2. packet_byte_idx + 2 * pair + 2 = packet_byte_idx + (2 * pair + 2)
            BY <6>1
          <6>3. QED
            BY <2>3, <6>2
        <5>4. QED
          BY <5>2, <5>3
      <4>3. QED
        BY <2>6, <4>1, <4>2
    <3> HIDE DEF e
    <3>2. N \in Nat /\ e.packet \in Nat
      BY <1>5, <2>a, <3>1 DEF BeatType, Events
    <3>3. e.packet < n2k'[1].packet
            \/ (e.packet = n2k'[1].packet /\ e.byte_index < packet_byte_idx')
      BY <2>9, <2>10, <3>1, <3>2
    <3>4. QED
      BY <3>3 DEF IsPast, e
  <2>11. \A e \in reported' : InStream(e)'
    <3> SUFFICES ASSUME NEW e \in reported' PROVE InStream(e)'
      OBVIOUS
    <3>1. CASE \E p \in Lane : InSeq(e, WithMatch(p))
      <4>1. InSeq(e, m_stream'[L + 1].matches) /\ L + 1 \in 1 .. Len(m_stream')
        BY <2>2, <2>4, <2>5, <3>1
      <4>2. QED
        BY <4>1 DEF InStream
    <3>2. CASE InStream(e)
      <4>1. PICK b \in 1 .. L : InSeq(e, m_stream[b].matches)
        BY <2>a, <3>2 DEF InStream
      <4>2. InSeq(e, m_stream'[b].matches) /\ b \in 1 .. Len(m_stream')
        BY <2>5, <4>1
      <4>3. QED
        BY <4>2 DEF InStream
    <3>3. QED
      BY <1>8, <3>1, <3>2
  <2>12. lanes' \in [Lane -> Seq(reported')] /\ \A p \in Lane : LaneOK(p)'
    <3>1. lanes' \in [Lane -> Seq(reported')] /\ \A p \in Lane : Len(lanes'[p]) = 0
      BY <2>1
    <3>2. QED
      BY <3>1 DEF LaneOK
  <2>13. ScanFlow'
    BY <1>3, <2>8, <2>10, <2>11, <2>12 DEF ScanFlow
  <2>14. QED
    BY <1>1, <1>4, <2>13 DEF FlowInv
<1>12. QED
  BY <1>10, <1>11

LEMMA CountScanPair ==
  ASSUME DataInv, FlowInv, CountInv, SoundInv, SoundInv', ScanInv, OutputOK, ScanPair
  PROVE  CountInv'
<1>1. /\ phase = "scan" /\ phase' = "scan" /\ n2k # <<>> /\ k2n' = k2n /\ sent' = sent
      /\ received' = received /\ aligned' = aligned
  BY DEF ScanPair, sendVars, receiveVars
<1>2. /\ n2k \in Seq(BeatType) /\ n2k[1] \in BeatType /\ Head(n2k) = n2k[1]
      /\ n2k[1].last \in BOOLEAN
  BY <1>1, CallBytes DEF DataInv, BeatsInv, BeatType
<1>3. Closed(n2k) /\ sent = received + Lasts(k2n) + Lasts(m_stream) + Lasts(n2k)
  BY <1>1 DEF CountInv
<1>4. CASE 2 * (pair + 1) < BeatBytes
  <2>1. n2k' = n2k /\ m_stream' = m_stream
    BY <1>4 DEF ScanPair, DCAM_P
  <2>2. QED
    BY <1>1, <2>1 DEF CountInv
<1>5. CASE ~(2 * (pair + 1) < BeatBytes)
  <2>1. n2k' = Tail(n2k) /\ m_stream' = Append(m_stream, NewMark)
    BY <1>2, <1>5 DEF ScanPair, DCAM_P, NewMark, BeatMatches
  <2>2. m_stream \in Seq(StreamType)
    BY <1>1 DEF FlowInv, ScanFlow, StreamOK
  <2> DEFINE S == [matches : Seq(reported'), last : BOOLEAN]
  <2>3. m_stream \in Seq(S)
    <3>1. reported \subseteq reported'
      BY DEF ScanPair
    <3>2. StreamType \subseteq S
      BY <3>1, SeqLarger DEF StreamType
    <3>3. QED
      BY <2>2, <3>2, SeqLarger
  <2>4. NewMark \in S /\ NewMark.last = n2k[1].last
    BY <1>2, BeatMatchesOK DEF NewMark
  <2> HIDE DEF S
  <2>5. Lasts(m_stream') = Lasts(m_stream) + (IF n2k[1].last THEN 1 ELSE 0)
    BY <1>2, <2>1, <2>3, <2>4, LastsAppend
  <2>6. Lasts(n2k) = Lasts(n2k') + (IF n2k[1].last THEN 1 ELSE 0)
    BY <1>1, <1>2, <2>1, LastsTail
  <2>7. Lasts(m_stream) \in Nat /\ Lasts(n2k') \in Nat /\ Lasts(k2n) \in Nat
    <3>1. n2k' \in Seq(BeatType)
      BY <1>1, <1>2, <2>1, TailOne
    <3>2. k2n \in Seq(ReportType)
      BY DEF FlowInv, ReportOK
    <3>3. QED
      BY <2>2, <3>1, <3>2, LastsNat
  <2>8. sent' = received' + Lasts(k2n') + Lasts(m_stream') + Lasts(n2k')
    <3>1. received \in Nat
      BY DEF CountInv
    <3>2. Lasts(k2n') = Lasts(k2n)
      BY <1>1
    <3>3. QED
      BY <1>1, <1>2, <1>3, <2>5, <2>6, <2>7, <3>1, <3>2
  <2>9. Closed(n2k') /\ (n2k' = <<>> => Closed(m_stream'))
    <3>1. Closed(n2k') /\ (n2k' = <<>> => n2k[1].last)
      BY <1>1, <1>2, <1>3, <2>1, ClosedTail
    <3>2. m_stream'[Len(m_stream')] = NewMark
      BY <2>1, <2>3, <2>4, AppendOne
    <3>3. QED
      BY <2>4, <3>1, <3>2 DEF Closed
  <2>10. QED
    BY <1>1, <2>8, <2>9 DEF CountInv
<1>6. QED
  BY <1>4, <1>5

\* A further report beat.
LEMMA ReportsAppend ==
  ASSUME NEW S, NEW q \in Seq(S), NEW x \in S, NEW e
  PROVE  /\ InReports(e, q) => InReports(e, Append(q, x))
         /\ OldReports(e, q) /\ InTurn(e, x.slots) => InReports(e, Append(q, x))
         /\ OldReports(e, q) /\ AllOld(x.slots, e) => OldReports(e, Append(q, x))
<1>1. /\ Len(Append(q, x)) = Len(q) + 1 /\ Len(q) \in Nat
      /\ \A k \in 1 .. Len(q) : Append(q, x)[k] = q[k]
      /\ Append(q, x)[Len(q) + 1] = x
  BY AppendOne
<1>2. /\ \A k \in 1 .. Len(q) : k \in 1 .. Len(q) + 1 /\ \A c \in 1 .. k - 1 : c \in 1 .. Len(q)
      /\ Len(q) + 1 \in 1 .. Len(q) + 1
      /\ \A c \in 1 .. (Len(q) + 1) - 1 : c \in 1 .. Len(q)
      /\ \A k \in 1 .. Len(q) + 1 : k \in 1 .. Len(q) \/ k = Len(q) + 1
  BY <1>1
<1>3. ASSUME InReports(e, q) PROVE InReports(e, Append(q, x))
  <2>1. PICK b \in 1 .. Len(q) :
          InTurn(e, q[b].slots) /\ \A c \in 1 .. b - 1 : AllOld(q[c].slots, e)
    BY <1>3 DEF InReports
  <2>2. /\ b \in 1 .. Len(Append(q, x)) /\ InTurn(e, Append(q, x)[b].slots)
        /\ \A c \in 1 .. b - 1 : AllOld(Append(q, x)[c].slots, e)
    BY <1>1, <1>2, <2>1
  <2>3. QED
    BY <2>2 DEF InReports
<1>4. ASSUME OldReports(e, q), InTurn(e, x.slots) PROVE InReports(e, Append(q, x))
  <2>1. /\ Len(q) + 1 \in 1 .. Len(Append(q, x))
        /\ InTurn(e, Append(q, x)[Len(q) + 1].slots)
        /\ \A c \in 1 .. (Len(q) + 1) - 1 : AllOld(Append(q, x)[c].slots, e)
    BY <1>1, <1>2, <1>4 DEF OldReports
  <2>2. QED
    BY <2>1 DEF InReports
<1>5. ASSUME OldReports(e, q), AllOld(x.slots, e) PROVE OldReports(e, Append(q, x))
  BY <1>1, <1>2, <1>5 DEF OldReports
<1>6. QED
  BY <1>3, <1>4, <1>5

\* The first report beat has the event in its turn, or makes room for it.
LEMMA ReportsTail ==
  ASSUME NEW S, NEW q \in Seq(S), q # <<>>, NEW e, InReports(e, q)
  PROVE  InTurn(e, Head(q).slots) \/ (AllOld(Head(q).slots, e) /\ InReports(e, Tail(q)))
<1>1. PICK b \in 1 .. Len(q) :
        InTurn(e, q[b].slots) /\ \A c \in 1 .. b - 1 : AllOld(q[c].slots, e)
  BY DEF InReports
<1>2. /\ Len(Tail(q)) = Len(q) - 1 /\ Len(q) \in Nat \ {0} /\ Head(q) = q[1]
      /\ \A k \in 1 .. Len(q) - 1 : Tail(q)[k] = q[k + 1]
  BY TailOne
<1>3. CASE b = 1
  BY <1>1, <1>2, <1>3
<1>4. CASE b # 1
  <2>1. 1 \in 1 .. b - 1 /\ b - 1 \in 1 .. Len(Tail(q)) /\ (b - 1) + 1 = b
    BY <1>2, <1>4
  <2>2. AllOld(Head(q).slots, e) /\ InTurn(e, Tail(q)[b - 1].slots)
    BY <1>1, <1>2, <2>1
  <2>3. ASSUME NEW c \in 1 .. (b - 1) - 1 PROVE AllOld(Tail(q)[c].slots, e)
    <3>1. c + 1 \in 1 .. b - 1 /\ c \in 1 .. Len(q) - 1
      BY <1>2
    <3>2. QED
      BY <1>1, <1>2, <3>1
  <2>4. QED
    BY <2>1, <2>2, <2>3 DEF InReports
<1>5. QED
  BY <1>3, <1>4

----------------------------------------------------------------------------
LEMMA ExceptOne ==
  ASSUME NEW S, NEW s \in Seq(S), NEW i \in 1 .. Len(s), NEW x \in S
  PROVE  /\ [s EXCEPT ![i] = x] \in Seq(S) /\ Len([s EXCEPT ![i] = x]) = Len(s)
         /\ [s EXCEPT ![i] = x][i] = x
         /\ \A k \in 1 .. Len(s) : k # i => [s EXCEPT ![i] = x][k] = s[k]
OBVIOUS

LEMMA MatchesExcept ==
  ASSUME NEW q \in StreamType, NEW t
  PROVE  [q EXCEPT !.matches = t] = [matches |-> t, last |-> q.last]
BY DEF StreamType

\* The stream after the first match of its first beat is read.
LEMMA StreamAfterRead ==
  ASSUME m_stream \in Seq(StreamType), ReadMatch
  PROVE  /\ m_stream' \in Seq(StreamType) /\ Len(m_stream') = Len(m_stream)
         /\ Len(m_stream) \in Nat \ {0}
         /\ m_stream[1].matches \in Seq(reported) /\ m_stream[1].matches # <<>>
         /\ Head(Head(m_stream).matches) = m_stream[1].matches[1]
         /\ m_stream[1].matches[1] \in reported /\ 1 \in 1 .. Len(m_stream[1].matches)
         /\ m_stream'[1].matches = Tail(m_stream[1].matches)
         /\ \A b \in 1 .. Len(m_stream) : b # 1 => m_stream'[b] = m_stream[b]
         /\ \A b \in 1 .. Len(m_stream) : m_stream'[b].last = m_stream[b].last
<1>1. /\ m_stream # <<>> /\ Head(m_stream).matches # <<>>
      /\ m_stream' = [m_stream EXCEPT ![1].matches = Tail(@)]
  BY DEF ReadMatch
<1>2. Len(m_stream) \in Nat \ {0} /\ Head(m_stream) = m_stream[1] /\ m_stream[1] \in StreamType
  BY <1>1, TailOne
<1> DEFINE a == m_stream[1].matches
<1>3. a \in Seq(reported) /\ a # <<>> /\ m_stream[1].last \in BOOLEAN
      /\ m_stream[1] = [matches |-> a, last |-> m_stream[1].last]
  BY <1>1, <1>2 DEF StreamType
<1>4. /\ Tail(a) \in Seq(reported) /\ Head(a) = a[1] /\ a[1] \in reported
      /\ Len(a) \in Nat \ {0}
  BY <1>3, TailOne
<1> DEFINE r == [matches |-> Tail(a), last |-> m_stream[1].last]
<1>5. r \in StreamType
  BY <1>3, <1>4 DEF StreamType
<1>6. m_stream' = [m_stream EXCEPT ![1] = r]
  <2>1. [m_stream[1] EXCEPT !.matches = Tail(a)] = r
    BY <1>2, MatchesExcept
  <2>2. m_stream' = [m_stream EXCEPT ![1] = [m_stream[1] EXCEPT !.matches = Tail(a)]]
    BY <1>1
  <2>3. QED
    BY <2>1, <2>2
<1> HIDE DEF r
<1>7. 1 \in 1 .. Len(m_stream)
  BY <1>2
<1>8. /\ m_stream' \in Seq(StreamType) /\ Len(m_stream') = Len(m_stream)
      /\ m_stream'[1] = r /\ \A b \in 1 .. Len(m_stream) : b # 1 => m_stream'[b] = m_stream[b]
  BY <1>5, <1>6, <1>7, ExceptOne
<1>9. r.matches = Tail(a) /\ r.last = m_stream[1].last
  BY DEF r
<1>10. QED
  BY <1>1, <1>2, <1>3, <1>4, <1>8, <1>9

\* What remains of the stream is a part of it, and comes after the match that is read.
LEMMA RestAfterRead ==
  ASSUME StreamOK, ReadMatch,
         NEW b \in 1 .. Len(m_stream), NEW i \in 1 .. Len(m_stream'[b].matches)
  PROVE  /\ \E k \in 1 .. Len(m_stream[b].matches) :
              /\ m_stream'[b].matches[i] = m_stream[b].matches[k]
              /\ IF b = 1 THEN k = i + 1 ELSE k = i
         /\ Before(m_stream[1].matches[1], m_stream'[b].matches[i])
<1>1. /\ m_stream \in Seq(StreamType)
      /\ \A c \in 1 .. Len(m_stream) : Sorted(m_stream[c].matches)
      /\ \A c, d \in 1 .. Len(m_stream) :
           c < d => AllBefore(m_stream[c].matches, m_stream[d].matches)
  BY DEF StreamOK
<1>2. /\ Len(m_stream) \in Nat \ {0}
      /\ m_stream[1].matches \in Seq(reported) /\ m_stream[1].matches # <<>>
      /\ 1 \in 1 .. Len(m_stream[1].matches)
      /\ m_stream'[1].matches = Tail(m_stream[1].matches)
      /\ \A c \in 1 .. Len(m_stream) : c # 1 => m_stream'[c] = m_stream[c]
  BY <1>1, StreamAfterRead
<1>3. CASE b = 1
  <2> DEFINE a == m_stream[1].matches
             t == Tail(a)
  <2>1. /\ Len(t) = Len(a) - 1 /\ Len(a) \in Nat \ {0}
        /\ \A k \in 1 .. Len(a) - 1 : t[k] = a[k + 1]
    BY <1>2, TailOne
  <2>2. m_stream'[b].matches = t
    BY <1>2, <1>3
  <2> HIDE DEF t
  <2>3. i \in 1 .. Len(a) - 1 /\ m_stream'[b].matches[i] = a[i + 1]
    BY <2>1, <2>2
  <2>4. i + 1 \in 1 .. Len(a) /\ 1 < i + 1
    BY <2>1, <2>3
  <2>5. Before(a[1], a[i + 1])
    BY <1>1, <1>2, <2>4 DEF Sorted
  <2>6. QED
    BY <1>3, <2>3, <2>4, <2>5
<1>4. CASE b # 1
  <2>1. m_stream'[b] = m_stream[b] /\ i \in 1 .. Len(m_stream[b].matches)
        /\ 1 \in 1 .. Len(m_stream) /\ 1 < b
    BY <1>2, <1>4
  <2>2. AllBefore(m_stream[1].matches, m_stream[b].matches)
    BY <1>1, <2>1
  <2>3. Before(m_stream[1].matches[1], m_stream[b].matches[i])
    BY <1>2, <2>1, <2>2 DEF AllBefore
  <2>4. QED
    BY <1>4, <2>1, <2>3
<1>5. QED
  BY <1>3, <1>4

LEMMA StreamReadMatch ==
  ASSUME StreamOK, ReadMatch
  PROVE  /\ StreamOK'
         /\ \A e : InStream(e) => e = m_stream[1].matches[1] \/ InStream(e)'
<1>1. /\ m_stream \in Seq(StreamType)
      /\ \A c \in 1 .. Len(m_stream) : Sorted(m_stream[c].matches)
      /\ \A c, d \in 1 .. Len(m_stream) :
           c < d => AllBefore(m_stream[c].matches, m_stream[d].matches)
  BY DEF StreamOK
<1>2. /\ Len(m_stream) \in Nat \ {0} /\ Len(m_stream') = Len(m_stream)
      /\ m_stream' \in Seq(StreamType)
      /\ m_stream[1].matches \in Seq(reported) /\ m_stream[1].matches # <<>>
      /\ m_stream'[1].matches = Tail(m_stream[1].matches)
      /\ \A c \in 1 .. Len(m_stream) : c # 1 => m_stream'[c] = m_stream[c]
  BY <1>1, StreamAfterRead
<1>3. \A b \in 1 .. Len(m_stream) : \A i \in 1 .. Len(m_stream'[b].matches) :
        \E k \in 1 .. Len(m_stream[b].matches) :
          /\ m_stream'[b].matches[i] = m_stream[b].matches[k]
          /\ IF b = 1 THEN k = i + 1 ELSE k = i
  BY RestAfterRead
<1>4. ASSUME NEW b \in 1 .. Len(m_stream') PROVE Sorted(m_stream'[b].matches)
  <2> SUFFICES ASSUME NEW i \in 1 .. Len(m_stream'[b].matches),
                      NEW j \in 1 .. Len(m_stream'[b].matches), i < j
               PROVE  Before(m_stream'[b].matches[i], m_stream'[b].matches[j])
    BY DEF Sorted
  <2>1. b \in 1 .. Len(m_stream)
    BY <1>2
  <2>2. PICK k \in 1 .. Len(m_stream[b].matches) :
          /\ m_stream'[b].matches[i] = m_stream[b].matches[k]
          /\ IF b = 1 THEN k = i + 1 ELSE k = i
    BY <1>3, <2>1
  <2>3. PICK l \in 1 .. Len(m_stream[b].matches) :
          /\ m_stream'[b].matches[j] = m_stream[b].matches[l]
          /\ IF b = 1 THEN l = j + 1 ELSE l = j
    BY <1>3, <2>1
  <2>4. k < l
    BY <2>2, <2>3
  <2>5. QED
    BY <1>1, <2>1, <2>2, <2>3, <2>4 DEF Sorted
<1>5. ASSUME NEW b \in 1 .. Len(m_stream'), NEW c \in 1 .. Len(m_stream'), b < c
      PROVE  AllBefore(m_stream'[b].matches, m_stream'[c].matches)
  <2> SUFFICES ASSUME NEW i \in 1 .. Len(m_stream'[b].matches),
                      NEW j \in 1 .. Len(m_stream'[c].matches)
               PROVE  Before(m_stream'[b].matches[i], m_stream'[c].matches[j])
    BY DEF AllBefore
  <2>1. b \in 1 .. Len(m_stream) /\ c \in 1 .. Len(m_stream)
    BY <1>2
  <2>2. PICK k \in 1 .. Len(m_stream[b].matches) :
          m_stream'[b].matches[i] = m_stream[b].matches[k]
    BY <1>3, <2>1
  <2>3. PICK l \in 1 .. Len(m_stream[c].matches) :
          m_stream'[c].matches[j] = m_stream[c].matches[l]
    BY <1>3, <2>1
  <2>4. AllBefore(m_stream[b].matches, m_stream[c].matches)
    BY <1>1, <1>5, <2>1
  <2>5. QED
    BY <2>2, <2>3, <2>4 DEF AllBefore
<1>6. ASSUME NEW e, InStream(e), e # m_stream[1].matches[1] PROVE InStream(e)'
  <2>0. PICK b \in 1 .. Len(m_stream) : InSeq(e, m_stream[b].matches)
    BY <1>6 DEF InStream
  <2>1. PICK i \in 1 .. Len(m_stream[b].matches) : m_stream[b].matches[i] = e
    BY <2>0 DEF InSeq
  <2>2. CASE b = 1
    <3> DEFINE a == m_stream[1].matches
               t == Tail(a)
    <3>1. /\ Len(t) = Len(a) - 1 /\ Len(a) \in Nat \ {0}
          /\ \A k \in 1 .. Len(a) - 1 : t[k] = a[k + 1]
      BY <1>2, TailOne
    <3>2. m_stream'[1].matches = t
      BY <1>2
    <3> HIDE DEF t
    <3>3. i # 1 /\ i \in 1 .. Len(a)
      BY <1>6, <2>1, <2>2
    <3>4. i - 1 \in 1 .. Len(a) - 1 /\ (i - 1) + 1 = i
      BY <3>1, <3>3
    <3>5. t[i - 1] = e /\ i - 1 \in 1 .. Len(t)
      BY <2>1, <2>2, <3>1, <3>4
    <3>6. 1 \in 1 .. Len(m_stream')
      BY <1>2
    <3>7. QED
      BY <3>2, <3>5, <3>6 DEF InStream, InSeq
  <2>3. CASE b # 1
    <3>1. m_stream'[b] = m_stream[b] /\ b \in 1 .. Len(m_stream')
      BY <1>2, <2>3
    <3>2. QED
      BY <2>1, <3>1 DEF InStream, InSeq
  <2>4. QED
    BY <2>2, <2>3
<1>7. StreamOK'
  <2>1. StreamType' = StreamType
    BY DEF ReadMatch, scanVars, StreamType
  <2>2. QED
    BY <1>2, <1>4, <1>5, <2>1 DEF StreamOK
<1>8. QED
  BY <1>6, <1>7

----------------------------------------------------------------------------
LEMMA FlowReadMatch ==
  ASSUME FlowInv, ReadMatch
  PROVE  FlowInv'
<1> DEFINE h == m_stream[1].matches[1]
<1>1. /\ phase = "collect" /\ phase' = "collect" /\ output_buffer' = output_buffer
      /\ events' = events /\ reported' = reported
  BY DEF ReadMatch, scanVars
<1>2. CollectFlow /\ StreamOK
  BY <1>1 DEF FlowInv, CollectFlow
<1>3. /\ k2n \in Seq(ReportType) /\ reg \in [1 .. Slots -> Slot] /\ count \in 0 .. Slots - 1
  BY DEF FlowInv, ReportOK
<1>4. /\ m_stream' \in Seq(StreamType) /\ Len(m_stream') = Len(m_stream)
      /\ Len(m_stream) \in Nat \ {0} /\ 1 \in 1 .. Len(m_stream)
      /\ Head(Head(m_stream).matches) = h
      /\ h \in reported /\ 1 \in 1 .. Len(m_stream[1].matches)
  BY <1>2, StreamAfterRead DEF StreamOK
<1>5. reg' = [reg EXCEPT ![count + 1] = h]
  BY <1>4 DEF ReadMatch
<1>6. StreamOK' /\ \A e : InStream(e) => e = h \/ InStream(e)'
  BY <1>2, StreamReadMatch
<1>7. Waits(h)
  BY <1>2, <1>4 DEF CollectFlow
<1>8. \A b \in 1 .. Len(m_stream') : \A i \in 1 .. Len(m_stream'[b].matches) :
        Waits(m_stream'[b].matches[i]) /\ Before(h, m_stream'[b].matches[i])
  <2> SUFFICES ASSUME NEW b \in 1 .. Len(m_stream), NEW i \in 1 .. Len(m_stream'[b].matches)
               PROVE  Waits(m_stream'[b].matches[i]) /\ Before(h, m_stream'[b].matches[i])
    BY <1>4
  <2>1. PICK k \in 1 .. Len(m_stream[b].matches) :
          m_stream'[b].matches[i] = m_stream[b].matches[k]
    BY <1>2, RestAfterRead
  <2>2. Waits(m_stream[b].matches[k])
    BY <1>2 DEF CollectFlow
  <2>3. Before(h, m_stream'[b].matches[i])
    BY <1>2, RestAfterRead
  <2>4. QED
    BY <2>1, <2>2, <2>3
<1> HIDE DEF h
<1>9. /\ count + 1 \in 1 .. Slots /\ count \in Nat
      /\ \A i \in 1 .. count : i \in 1 .. Slots /\ i # count + 1
      /\ \A s \in 1 .. Slots : s < count + 1 \/ s = count + 1 \/ s > count + 1
  BY <1>3, Sizes
<1>10. /\ reg' \in [1 .. Slots -> Slot] /\ reg'[count + 1] = h
       /\ \A s \in 1 .. Slots : s # count + 1 => reg'[s] = reg[s]
  BY <1>3, <1>4, <1>5, <1>9 DEF Slot
<1>11. \A i \in 1 .. count : Holds(i)
  BY <1>2 DEF CollectFlow
<1>12. \A e \in reported : InStream(e) \/ (\E i \in 1 .. count : reg[i] = e) \/ InReports(e, k2n)
  BY <1>2 DEF CollectFlow
\* What still waits is in its turn after the register that is filled.
<1>13. \A e : Waits(e) /\ Before(h, e) => \A s \in 1 .. Slots : Old(reg'[s], e)
  BY <1>10 DEF Waits, Old
\* A register that is filled comes in its turn.
<1>14. ASSUME NEW i \in 1 .. count + 1
       PROVE  /\ reg'[i] \in reported /\ OldReports(reg'[i], k2n)
              /\ \A s \in 1 .. Slots : s < i \/ s > count + 1 => Old(reg'[s], reg'[i])
  <2>1. CASE i = count + 1
    BY <1>4, <1>7, <1>9, <1>10, <2>1 DEF Waits
  <2>2. CASE i # count + 1
    <3>1. i \in 1 .. count /\ i \in 1 .. Slots
      BY <1>9, <2>2
    <3>2. Holds(i) /\ reg'[i] = reg[i]
      BY <1>10, <1>11, <2>2, <3>1
    <3>3. ASSUME NEW s \in 1 .. Slots, s < i \/ s > count + 1 PROVE Old(reg'[s], reg'[i])
      <4>1. s # count + 1 /\ (s < i \/ s > count)
        BY <1>9, <3>1, <3>3
      <4>2. QED
        BY <1>10, <3>2, <4>1 DEF Holds
    <3>4. QED
      BY <3>2, <3>3 DEF Holds
  <2>3. QED
    BY <2>1, <2>2
<1>15. Slot' = Slot /\ ReportType' = ReportType
  BY <1>1 DEF Slot, ReportType
<1>16. EventsOK'
  BY <1>1, <1>15 DEF FlowInv, EventsOK
<1>17. m_stream' # <<>>
  <2>1. Len(m_stream') # 0
    BY <1>4
  <2>2. QED
    BY <1>4, <2>1, EmptyLen
<1>18. CASE Full(count + 1)
  <2>1. count' = 0 /\ k2n' = Append(k2n, Report(reg')) /\ count + 1 = Slots
    BY <1>18 DEF ReadMatch, Full
  <2>2. reg' \in Seq(Slot) /\ Len(reg') = Slots
    BY <1>10, Sizes
  <2>3. Report(reg') \in ReportType /\ Report(reg').slots = reg'
    BY <2>2 DEF Report, ReportType
  <2>4. ReportOK'
    <3>1. k2n' \in Seq(ReportType)
      BY <1>3, <2>1, <2>3, AppendOne
    <3>2. QED
      BY <1>10, <1>15, <2>1, <3>1, Sizes DEF ReportOK
  <2>5. ASSUME NEW e, Waits(e), Before(h, e) PROVE Waits(e)'
    <3>1. AllOld(reg', e) /\ OldReports(e, k2n)
      BY <1>13, <2>2, <2>5 DEF AllOld, Waits
    <3>2. OldReports(e, k2n')
      BY <1>3, <2>1, <2>3, <3>1, ReportsAppend
    <3>3. QED
      BY <1>13, <2>5, <3>2 DEF Waits
  <2>6. ASSUME NEW i \in 1 .. count + 1 PROVE InReports(reg'[i], k2n')
    <3>1. InTurn(reg'[i], reg')
      <4>1. i \in 1 .. Len(reg') /\ \A j \in 1 .. i - 1 : j \in 1 .. Slots /\ j < i
        BY <1>9, <2>1, <2>2
      <4>2. QED
        BY <1>14, <4>1 DEF InTurn
    <3>2. OldReports(reg'[i], k2n)
      BY <1>14
    <3>3. QED
      BY <1>3, <2>1, <2>3, <3>1, <3>2, ReportsAppend
  <2>7. ASSUME NEW e \in reported PROVE InStream(e)' \/ InReports(e, k2n')
    <3>1. CASE InStream(e)
      <4>1. e = h \/ InStream(e)'
        BY <1>6, <3>1
      <4>2. count + 1 \in 1 .. count + 1
        BY <1>9
      <4>3. QED
        BY <1>10, <2>6, <4>1, <4>2
    <3>2. ASSUME NEW i \in 1 .. count, reg[i] = e PROVE InReports(e, k2n')
      <4>1. i \in 1 .. count + 1 /\ reg'[i] = e
        BY <1>9, <1>10, <3>2
      <4>2. QED
        BY <2>6, <4>1
    <3>3. CASE InReports(e, k2n)
      BY <1>3, <2>1, <2>3, <3>3, ReportsAppend
    <3>4. QED
      BY <1>12, <3>1, <3>2, <3>3
  <2>8. CollectFlow'
    <3>1. \A b \in 1 .. Len(m_stream') : \A i \in 1 .. Len(m_stream'[b].matches) :
            Waits(m_stream[b].matches[i])'
      BY <1>8, <2>5
    <3>2. ~(count' > 0) /\ ~(\E i \in 1 .. count' : TRUE)
      BY <2>1
    <3>3. QED
      BY <1>1, <1>2, <1>6, <2>7, <3>1, <3>2 DEF CollectFlow
  <2>9. QED
    BY <1>1, <1>16, <2>4, <2>8 DEF FlowInv
<1>19. CASE ~Full(count + 1)
  <2>1. count' = count + 1 /\ k2n' = k2n /\ count + 1 # Slots
    BY <1>19 DEF ReadMatch, Full
  <2>2. ReportOK'
    <3>1. count' \in 0 .. Slots - 1
      BY <1>3, <2>1, Sizes
    <3>2. QED
      BY <1>3, <1>10, <1>15, <2>1, <3>1 DEF ReportOK
  <2>3. \A b \in 1 .. Len(m_stream') : \A i \in 1 .. Len(m_stream'[b].matches) :
          Waits(m_stream[b].matches[i])'
    BY <1>8, <1>13, <2>1 DEF Waits
  <2>4. \A i \in 1 .. count' : Holds(i)'
    BY <1>1, <1>14, <2>1 DEF Holds
  <2>5. ASSUME NEW e \in reported
        PROVE  InStream(e)' \/ (\E i \in 1 .. count' : reg'[i] = e) \/ InReports(e, k2n')
    <3>1. CASE InStream(e)
      <4>1. e = h \/ InStream(e)'
        BY <1>6, <3>1
      <4>2. count + 1 \in 1 .. count'
        BY <1>9, <2>1
      <4>3. QED
        BY <1>10, <4>1, <4>2
    <3>2. ASSUME NEW i \in 1 .. count, reg[i] = e PROVE \E k \in 1 .. count' : reg'[k] = e
      <4>1. i \in 1 .. count' /\ reg'[i] = e
        BY <1>9, <1>10, <2>1, <3>2
      <4>2. QED
        BY <4>1
    <3>3. QED
      BY <1>12, <2>1, <3>1, <3>2
  <2>6. CollectFlow'
    BY <1>1, <1>2, <1>6, <1>17, <2>3, <2>4, <2>5 DEF CollectFlow
  <2>7. QED
    BY <1>1, <1>16, <2>2, <2>6 DEF FlowInv
<1>20. QED
  BY <1>18, <1>19

\* The report after the flush at the end of a beat.
Flushed == IF count > 0 THEN Append(k2n, Report(reg)) ELSE k2n

LEMMA EndOfBeatSteps ==
  ASSUME FlowInv, EndOfBeat
  PROVE  /\ m_stream # <<>> /\ m_stream[1].matches = <<>> /\ m_stream[1] \in StreamType
         /\ m_stream' = Tail(m_stream) /\ count' = 0 /\ reg' = reg
         /\ IF m_stream[1].last
            THEN \E close \in CloseBeats : k2n' = Append(Flushed, close)
            ELSE k2n' = Flushed
         /\ m_stream \in Seq(StreamType)
<1>1. phase = "collect" /\ m_stream # <<>>
  BY DEF EndOfBeat
<1>2. m_stream \in Seq(StreamType)
  BY <1>1 DEF FlowInv, CollectFlow, StreamOK
<1>3. Head(m_stream) = m_stream[1] /\ m_stream[1] \in StreamType
  BY <1>1, <1>2, TailOne
<1>4. QED
  BY <1>1, <1>2, <1>3 DEF EndOfBeat, Flushed

\* A closing beat carries no event.
LEMMA CloseIsEmpty ==
  ASSUME NEW close \in CloseBeats
  PROVE  /\ close \in ReportType /\ close.last = TRUE
         /\ \A e : AllOld(close.slots, e)
<1> DEFINE blank == [s \in 1 .. Slots |-> NoEvent]
           none == <<>>
<1>1. \/ close = [last |-> TRUE, torn |-> FALSE, slots |-> blank]
      \/ close = [last |-> TRUE, torn |-> FALSE, slots |-> none]
      \/ close = [last |-> TRUE, torn |-> TRUE,  slots |-> none]
  BY DEF CloseBeats
<1>2. blank \in Seq(Slot) /\ none \in Seq(Slot)
  <2>1. blank \in [1 .. Slots -> Slot]
    BY DEF Slot, Unassigned
  <2> HIDE DEF blank
  <2>2. QED
    BY <2>1, Sizes
<1>3. \A e : AllOld(blank, e) /\ AllOld(none, e)
  <2>1. \A j \in 1 .. Len(blank) : blank[j] = NoEvent
    BY Sizes
  <2>2. Len(none) = 0
    OBVIOUS
  <2> HIDE DEF blank, none
  <2>3. QED
    BY <2>1, <2>2 DEF AllOld, Old, Unassigned
<1> HIDE DEF blank, none
<1>4. close.last = TRUE /\ (close.slots = blank \/ close.slots = none)
  BY <1>1
<1>5. close \in ReportType
  <2>1. ASSUME NEW torn \in BOOLEAN, NEW slots \in Seq(Slot)
        PROVE  [last |-> TRUE, torn |-> torn, slots |-> slots] \in ReportType
    BY DEF ReportType
  <2>2. QED
    BY <1>1, <1>2, <2>1
<1>6. QED
  BY <1>3, <1>4, <1>5

LEMMA FlushOK ==
  ASSUME FlowInv, CollectFlow
  PROVE  /\ Flushed \in Seq(ReportType)
         /\ \A e : Waits(e) => OldReports(e, Flushed)
         /\ \A e : InReports(e, k2n) => InReports(e, Flushed)
         /\ \A i \in 1 .. count : InReports(reg[i], Flushed)
<1>1. /\ k2n \in Seq(ReportType) /\ reg \in [1 .. Slots -> Slot] /\ count \in 0 .. Slots - 1
  BY DEF FlowInv, ReportOK
<1>2. \A i \in 1 .. count : Holds(i)
  BY DEF CollectFlow
<1>3. CASE count > 0
  <2>1. Flushed = Append(k2n, Report(reg))
    BY <1>3 DEF Flushed
  <2>2. reg \in Seq(Slot) /\ Len(reg) = Slots
    BY <1>1, Sizes
  <2>3. Report(reg) \in ReportType /\ Report(reg).slots = reg
    BY <2>2 DEF Report, ReportType
  <2>4. Flushed \in Seq(ReportType)
    BY <1>1, <2>1, <2>3, AppendOne
  <2>5. ASSUME NEW e, Waits(e) PROVE OldReports(e, Flushed)
    <3>1. AllOld(reg, e) /\ OldReports(e, k2n)
      BY <2>2, <2>5 DEF Waits, AllOld
    <3>2. QED
      BY <1>1, <2>1, <2>3, <3>1, ReportsAppend
  <2>6. ASSUME NEW i \in 1 .. count PROVE InReports(reg[i], Flushed)
    <3>1. OldReports(reg[i], k2n) /\ \A s \in 1 .. Slots : s < i => Old(reg[s], reg[i])
      BY <1>2 DEF Holds
    <3>2. i \in 1 .. Len(reg) /\ \A j \in 1 .. i - 1 : j \in 1 .. Slots /\ j < i
      BY <1>1, <2>2
    <3>3. InTurn(reg[i], reg)
      BY <3>1, <3>2 DEF InTurn
    <3>4. QED
      BY <1>1, <2>1, <2>3, <3>1, <3>3, ReportsAppend
  <2>7. \A e : InReports(e, k2n) => InReports(e, Flushed)
    BY <1>1, <2>1, <2>3, ReportsAppend
  <2>8. QED
    BY <2>4, <2>5, <2>6, <2>7
<1>4. CASE ~(count > 0)
  <2>1. Flushed = k2n /\ ~(\E i \in 1 .. count : TRUE)
    BY <1>1, <1>4, Sizes DEF Flushed
  <2>2. QED
    BY <1>1, <2>1 DEF Waits
<1>5. QED
  BY <1>3, <1>4

LEMMA FlowEndOfBeat ==
  ASSUME FlowInv, EndOfBeat
  PROVE  FlowInv'
<1>1. /\ phase = "collect" /\ phase' = "collect" /\ output_buffer' = output_buffer
      /\ events' = events /\ reported' = reported
  BY DEF EndOfBeat, scanVars
<1>2. CollectFlow /\ StreamOK
  BY <1>1 DEF FlowInv, CollectFlow
<1>3. /\ m_stream # <<>> /\ m_stream[1].matches = <<>> /\ m_stream' = Tail(m_stream)
      /\ count' = 0 /\ reg' = reg
      /\ IF m_stream[1].last
         THEN \E close \in CloseBeats : k2n' = Append(Flushed, close)
         ELSE k2n' = Flushed
  BY EndOfBeatSteps
<1>4. /\ m_stream \in Seq(StreamType)
      /\ \A b \in 1 .. Len(m_stream) : Sorted(m_stream[b].matches)
      /\ \A b, c \in 1 .. Len(m_stream) :
           b < c => AllBefore(m_stream[b].matches, m_stream[c].matches)
  BY <1>2 DEF StreamOK
<1>5. /\ m_stream' \in Seq(StreamType) /\ Len(m_stream') = Len(m_stream) - 1
      /\ Len(m_stream) \in Nat \ {0}
      /\ \A k \in 1 .. Len(m_stream) - 1 : m_stream'[k] = m_stream[k + 1]
  BY <1>3, <1>4, TailOne
<1>6. \A k \in 1 .. Len(m_stream') :
        k + 1 \in 1 .. Len(m_stream) /\ m_stream'[k] = m_stream[k + 1]
  BY <1>5
<1>7. /\ Flushed \in Seq(ReportType)
      /\ \A e : Waits(e) => OldReports(e, Flushed)
      /\ \A e : InReports(e, k2n) => InReports(e, Flushed)
      /\ \A i \in 1 .. count : InReports(reg[i], Flushed)
  BY <1>2, FlushOK
<1>8. /\ k2n' \in Seq(ReportType)
      /\ \A e : OldReports(e, Flushed) => OldReports(e, k2n')
      /\ \A e : InReports(e, Flushed) => InReports(e, k2n')
  <2>1. CASE m_stream[1].last
    <3>1. PICK close \in CloseBeats : k2n' = Append(Flushed, close)
      BY <1>3, <2>1
    <3>2. close \in ReportType /\ \A e : AllOld(close.slots, e)
      BY CloseIsEmpty
    <3>3. QED
      BY <1>7, <3>1, <3>2, AppendOne, ReportsAppend
  <2>2. CASE ~m_stream[1].last
    BY <1>3, <1>7, <2>2
  <2>3. QED
    BY <2>1, <2>2
<1>9. StreamType' = StreamType /\ ReportType' = ReportType /\ Slot' = Slot
  BY <1>1 DEF StreamType, ReportType, Slot
<1>10. StreamOK'
  <2>1. \A b \in 1 .. Len(m_stream') : Sorted(m_stream'[b].matches)
    BY <1>4, <1>6
  <2>2. ASSUME NEW b \in 1 .. Len(m_stream'), NEW c \in 1 .. Len(m_stream'), b < c
        PROVE  AllBefore(m_stream'[b].matches, m_stream'[c].matches)
    <3>1. b + 1 \in 1 .. Len(m_stream) /\ c + 1 \in 1 .. Len(m_stream) /\ b + 1 < c + 1
      BY <1>6, <2>2
    <3>2. QED
      BY <1>4, <1>6, <3>1
  <2>3. QED
    BY <1>5, <1>9, <2>1, <2>2 DEF StreamOK
<1>11. ASSUME NEW b \in 1 .. Len(m_stream'), NEW i \in 1 .. Len(m_stream'[b].matches)
       PROVE  Waits(m_stream[b].matches[i])'
  <2>1. Waits(m_stream'[b].matches[i])
    BY <1>2, <1>6 DEF CollectFlow
  <2>2. QED
    BY <1>3, <1>7, <1>8, <2>1 DEF Waits
<1>12. ASSUME NEW e \in reported PROVE InStream(e)' \/ InReports(e, k2n')
  <2>1. ASSUME InStream(e) PROVE InStream(e)'
    <3>1. PICK b \in 1 .. Len(m_stream) : InSeq(e, m_stream[b].matches)
      BY <2>1 DEF InStream
    <3>2. b # 1
      <4>1. Len(<<>>) = 0
        OBVIOUS
      <4>2. QED
        BY <1>3, <3>1, <4>1 DEF InSeq
    <3>3. b - 1 \in 1 .. Len(m_stream) - 1 /\ (b - 1) + 1 = b
      BY <1>5, <3>2
    <3>4. m_stream'[b - 1] = m_stream[b] /\ b - 1 \in 1 .. Len(m_stream')
      BY <1>5, <3>3
    <3>5. QED
      BY <3>1, <3>4 DEF InStream
  <2>2. InStream(e) \/ (\E i \in 1 .. count : reg[i] = e) \/ InReports(e, k2n)
    BY <1>2 DEF CollectFlow
  <2>3. QED
    BY <1>7, <1>8, <2>1, <2>2
<1>13. CollectFlow'
  <2>1. ~(count' > 0) /\ ~(\E i \in 1 .. count' : TRUE)
    BY <1>3
  <2>2. QED
    BY <1>1, <1>2, <1>10, <1>11, <1>12, <2>1 DEF CollectFlow
<1>14. ReportOK' /\ EventsOK'
  BY <1>1, <1>3, <1>8, <1>9, Sizes DEF FlowInv, ReportOK, EventsOK
<1>15. QED
  BY <1>1, <1>13, <1>14 DEF FlowInv

LEMMA FlowEndOfCollect ==
  ASSUME FlowInv, EndOfCollect
  PROVE  FlowInv'
<1>1. /\ phase = "collect" /\ phase' = "receive" /\ output_buffer' = output_buffer
      /\ events' = events /\ reported' = reported /\ m_stream = <<>> /\ m_stream' = m_stream
      /\ k2n' = k2n /\ count' = count /\ reg' = reg
  BY DEF EndOfCollect, scanVars, collectVars
<1>2. CollectFlow
  BY <1>1 DEF FlowInv
<1>3. ReportOK' /\ EventsOK'
  BY <1>1 DEF FlowInv, ReportOK, EventsOK, Slot, ReportType
<1>4. ~(\E i \in 1 .. count : TRUE)
  <2>1. ~(count > 0) /\ count \in 0 .. Slots - 1
    BY <1>1, <1>2 DEF CollectFlow, FlowInv, ReportOK
  <2>2. QED
    BY <2>1, Sizes
<1>5. \A e : ~InStream(e)
  <2>1. Len(m_stream) = 0
    BY <1>1
  <2>2. QED
    BY <2>1 DEF InStream
<1>6. \A e \in reported : InReports(e, k2n)
  BY <1>2, <1>4, <1>5 DEF CollectFlow
<1>7. output_buffer = <<>> /\ events = <<>> /\ output_buffer \in Seq(Slot')
  BY <1>2 DEF CollectFlow
<1>8. \A e : AllOld(output_buffer, e)
  <2>1. Len(output_buffer) = 0
    BY <1>7
  <2>2. QED
    BY <2>1 DEF AllOld
<1>9. ReceiveFlow'
  BY <1>1, <1>6, <1>7, <1>8 DEF ReceiveFlow
<1>10. QED
  BY <1>1, <1>3, <1>9 DEF FlowInv

----------------------------------------------------------------------------
LEMMA ReportLasts ==
  ASSUME FlowInv, NEW q \in Seq(ReportType), NEW x \in ReportType,
         \A b \in 1 .. Len(q) : q[b].torn => q[b].last, x.torn => x.last
  PROVE  /\ Append(q, x) \in Seq(ReportType)
         /\ Lasts(Append(q, x)) = Lasts(q) + (IF x.last THEN 1 ELSE 0)
         /\ \A b \in 1 .. Len(Append(q, x)) : Append(q, x)[b].torn => Append(q, x)[b].last
         /\ Lasts(q) \in Nat
         /\ x.last => Closed(Append(q, x))
<1>1. x.last \in BOOLEAN
  BY DEF ReportType
<1>2. /\ Append(q, x) \in Seq(ReportType)
      /\ Len(Append(q, x)) = Len(q) + 1 /\ Len(q) \in Nat
      /\ \A k \in 1 .. Len(q) : Append(q, x)[k] = q[k]
      /\ Append(q, x)[Len(q) + 1] = x
  BY AppendOne
<1>3. Lasts(Append(q, x)) = Lasts(q) + (IF x.last THEN 1 ELSE 0)
  BY <1>1, LastsAppend
<1>4. ASSUME NEW b \in 1 .. Len(Append(q, x)), Append(q, x)[b].torn
      PROVE  Append(q, x)[b].last
  <2>1. b \in 1 .. Len(q) \/ b = Len(q) + 1
    BY <1>2
  <2>2. QED
    BY <1>2, <1>4, <2>1
<1>5. x.last => Closed(Append(q, x))
  BY <1>2 DEF Closed
<1>6. QED
  BY <1>2, <1>3, <1>4, <1>5, LastsNat

LEMMA CountReadMatch ==
  ASSUME DataInv, FlowInv, CountInv, ReadMatch
  PROVE  CountInv'
<1>1. /\ phase = "collect" /\ phase' = "collect" /\ n2k' = n2k /\ sent' = sent
      /\ received' = received /\ aligned' = aligned
      /\ k2n' = Append(k2n, Report(reg')) \/ k2n' = k2n
  BY DEF ReadMatch, sendVars, receiveVars
<1>2. m_stream \in Seq(StreamType) /\ k2n \in Seq(ReportType)
  BY <1>1 DEF FlowInv, CollectFlow, StreamOK, ReportOK
<1>3. /\ Len(m_stream') = Len(m_stream) /\ Len(m_stream) \in Nat \ {0}
      /\ m_stream' \in Seq(StreamType)
      /\ \A b \in 1 .. Len(m_stream) : m_stream'[b].last = m_stream[b].last
  BY <1>2, StreamAfterRead
<1>4. Lasts(m_stream') = Lasts(m_stream)
  BY <1>3, LastsSame
<1>5. m_stream # <<>> /\ m_stream' # <<>>
  BY <1>2, <1>3, EmptyLen
<1>6. Closed(m_stream')
  <2>1. Closed(m_stream)
    BY <1>1, <1>5 DEF CountInv
  <2>2. Len(m_stream) \in 1 .. Len(m_stream)
    BY <1>3
  <2>3. QED
    BY <1>3, <1>5, <2>1, <2>2 DEF Closed
<1>7. /\ Lasts(k2n') = Lasts(k2n)
      /\ \A b \in 1 .. Len(k2n') : k2n'[b].torn => k2n'[b].last
  <2>1. CASE k2n' = k2n
    BY <2>1 DEF CountInv
  <2>2. CASE k2n' = Append(k2n, Report(reg'))
    <3>1. ReportType' = ReportType
      BY DEF ReadMatch, scanVars, ReportType, Slot
    <3>2. (ReportOK)'
      BY FlowReadMatch DEF FlowInv
    <3>3. reg' \in Seq(Slot)
      <4>1. reg' \in [1 .. Slots -> Slot]
        BY <3>2 DEF ReportOK, ReadMatch, scanVars, Slot
      <4>2. QED
        BY <4>1, Sizes
    <3>4. Report(reg') \in ReportType /\ Report(reg').last = FALSE /\ Report(reg').torn = FALSE
      BY <3>3 DEF Report, ReportType
    <3>5. \A b \in 1 .. Len(k2n) : k2n[b].torn => k2n[b].last
      BY DEF CountInv
    <3>6. /\ Lasts(k2n') = Lasts(k2n) + 0 /\ Lasts(k2n) \in Nat
          /\ \A b \in 1 .. Len(k2n') : k2n'[b].torn => k2n'[b].last
      BY <1>2, <2>2, <3>4, <3>5, ReportLasts
    <3>7. QED
      BY <3>6
  <2>3. QED
    BY <1>1, <2>1, <2>2
<1>8. QED
  BY <1>1, <1>4, <1>5, <1>6, <1>7 DEF CountInv

LEMMA CountEndOfBeat ==
  ASSUME DataInv, FlowInv, CountInv, EndOfBeat
  PROVE  CountInv'
<1>1. /\ phase = "collect" /\ phase' = "collect" /\ n2k' = n2k /\ sent' = sent
      /\ received' = received /\ aligned' = aligned
  BY DEF EndOfBeat, sendVars, receiveVars
<1>2. CollectFlow /\ k2n \in Seq(ReportType)
  BY <1>1 DEF FlowInv, ReportOK
<1>3. /\ m_stream # <<>> /\ m_stream[1] \in StreamType
      /\ m_stream' = Tail(m_stream)
      /\ IF m_stream[1].last
         THEN \E close \in CloseBeats : k2n' = Append(Flushed, close)
         ELSE k2n' = Flushed
      /\ m_stream \in Seq(StreamType)
  BY EndOfBeatSteps
<1>4. m_stream[1].last \in BOOLEAN /\ Closed(m_stream)
  BY <1>1, <1>3 DEF StreamType, CountInv
<1>5. Lasts(m_stream) = Lasts(m_stream') + (IF m_stream[1].last THEN 1 ELSE 0)
  BY <1>3, <1>4, LastsTail
<1>6. Closed(m_stream') /\ (m_stream' = <<>> => m_stream[1].last)
  BY <1>3, <1>4, ClosedTail
<1>7. \A b \in 1 .. Len(k2n) : k2n[b].torn => k2n[b].last
  BY DEF CountInv
<1>8. /\ Flushed \in Seq(ReportType) /\ Lasts(Flushed) = Lasts(k2n) /\ Lasts(k2n) \in Nat
      /\ \A b \in 1 .. Len(Flushed) : Flushed[b].torn => Flushed[b].last
  <2>1. CASE count > 0
    <3>1. Flushed = Append(k2n, Report(reg))
      BY <2>1 DEF Flushed
    <3>2. reg \in Seq(Slot)
      BY Sizes DEF FlowInv, ReportOK
    <3>3. Report(reg) \in ReportType /\ Report(reg).last = FALSE /\ Report(reg).torn = FALSE
      BY <3>2 DEF Report, ReportType
    <3>4. /\ Flushed \in Seq(ReportType) /\ Lasts(Flushed) = Lasts(k2n) + 0
          /\ Lasts(k2n) \in Nat
          /\ \A b \in 1 .. Len(Flushed) : Flushed[b].torn => Flushed[b].last
      BY <1>2, <1>7, <3>1, <3>3, ReportLasts
    <3>5. QED
      BY <3>4
  <2>2. CASE ~(count > 0)
    BY <1>2, <1>7, <2>2, LastsNat DEF Flushed
  <2>3. QED
    BY <2>1, <2>2
<1>9. /\ Lasts(k2n') = Lasts(k2n) + (IF m_stream[1].last THEN 1 ELSE 0)
      /\ \A b \in 1 .. Len(k2n') : k2n'[b].torn => k2n'[b].last
      /\ m_stream[1].last => Closed(k2n')
  <2>1. CASE m_stream[1].last
    <3>1. PICK close \in CloseBeats : k2n' = Append(Flushed, close)
      BY <1>3, <2>1
    <3>2. close \in ReportType /\ close.last = TRUE
      BY CloseIsEmpty
    <3>3. QED
      BY <1>8, <2>1, <3>1, <3>2, ReportLasts
  <2>2. CASE ~m_stream[1].last
    BY <1>3, <1>8, <2>2
  <2>3. QED
    BY <2>1, <2>2
<1>10. sent' = received' + Lasts(k2n') + Lasts(m_stream') + Lasts(n2k')
  <2>1. sent = received + Lasts(k2n) + Lasts(m_stream) + Lasts(n2k) /\ received \in Nat
    BY DEF CountInv
  <2>2. m_stream' \in Seq(StreamType) /\ n2k \in Seq(BeatType)
    BY <1>3, TailOne DEF DataInv, BeatsInv, BeatType
  <2>3. Lasts(m_stream') \in Nat /\ Lasts(n2k) \in Nat
    BY <2>2, LastsNat
  <2>4. Lasts(n2k') = Lasts(n2k)
    BY <1>1
  <2>5. QED
    BY <1>1, <1>4, <1>5, <1>8, <1>9, <2>1, <2>3, <2>4
<1>11. QED
  BY <1>1, <1>6, <1>9, <1>10 DEF CountInv

LEMMA CountEndOfCollect ==
  ASSUME FlowInv, CountInv, EndOfCollect
  PROVE  CountInv'
<1>1. /\ phase = "collect" /\ phase' = "receive" /\ n2k' = n2k /\ sent' = sent
      /\ received' = received /\ aligned' = aligned /\ k2n' = k2n
      /\ m_stream = <<>> /\ m_stream' = m_stream
  BY DEF EndOfCollect, sendVars, receiveVars
<1>2. QED
  BY <1>1 DEF CountInv

\* What is received is what was sent, as long as nothing has torn the buffer.
LEMMA ReceiveBeat ==
  ASSUME FlowInv, Receive, received < sent, k2n # <<>>
  PROVE  /\ k2n \in Seq(ReportType) /\ k2n[1] \in ReportType /\ Head(k2n) = k2n[1]
         /\ k2n' = Tail(k2n) /\ phase' = phase
         /\ received' = received + (IF k2n[1].last THEN 1 ELSE 0)
         /\ aligned' = (aligned /\ ~k2n[1].torn)
         /\ \E slots \in Seq(Slot) : /\ output_buffer' = output_buffer \o slots
                                     /\ aligned => slots = k2n[1].slots
<1>1. k2n \in Seq(ReportType)
  BY DEF FlowInv, ReportOK
<1>2. Head(k2n) = k2n[1] /\ k2n[1] \in ReportType
  BY <1>1, TailOne
<1>3. /\ k2n' = Tail(k2n) /\ phase' = phase
      /\ received' = received + (IF k2n[1].last THEN 1 ELSE 0)
      /\ aligned' = (aligned /\ ~k2n[1].torn)
      /\ \E slots \in SlotsRead(k2n[1].slots) : output_buffer' = output_buffer \o slots
  BY <1>2 DEF Receive
<1>4. k2n[1].slots \in Seq(Slot)
  BY <1>2 DEF ReportType
<1>5. ASSUME NEW slots \in SlotsRead(k2n[1].slots)
      PROVE  slots \in Seq(Slot) /\ (aligned => slots = k2n[1].slots)
  <2>1. CASE aligned
    BY <1>4, <1>5, <2>1 DEF SlotsRead
  <2>2. CASE ~aligned
    <3> DEFINE n == Len(k2n[1].slots)
    <3>1. DOMAIN k2n[1].slots = 1 .. n /\ n \in Nat
      BY <1>4
    <3> HIDE DEF n
    <3>2. PICK x \in Unassigned : slots = [s \in 1 .. n |-> x]
      BY <1>5, <2>2, <3>1 DEF SlotsRead
    <3>3. slots \in [1 .. n -> Slot]
      BY <3>2 DEF Slot
    <3>4. QED
      BY <2>2, <3>1, <3>3
  <2>3. QED
    BY <2>1, <2>2
<1>6. QED
  BY <1>1, <1>2, <1>3, <1>5

\* When the receiving ends nothing of the report is left.
LEMMA AllReceived ==
  ASSUME FlowInv, CountInv, phase = "receive", ~(received < sent /\ k2n # <<>>),
         sent \in Nat, n2k = <<>>
  PROVE  k2n = <<>> /\ sent = received
<1>1. m_stream = <<>> /\ k2n \in Seq(ReportType)
  BY DEF FlowInv, ReceiveFlow, ReportOK
<1>2. Lasts(m_stream) = 0 /\ Lasts(n2k) = 0 /\ Lasts(k2n) \in Nat
  BY <1>1, LastsEmpty, LastsNat
<1>3. sent = received + Lasts(k2n) /\ received \in Nat
  <2>1. sent = received + Lasts(k2n) + Lasts(m_stream) + Lasts(n2k) /\ received \in Nat
    BY DEF CountInv
  <2>2. QED
    BY <1>2, <2>1
<1>4. CASE k2n = <<>>
  <2>1. Lasts(k2n) = 0
    BY <1>4, LastsEmpty
  <2>2. QED
    BY <1>3, <1>4, <2>1
<1>5. CASE k2n # <<>>
  <2>1. Closed(k2n)
    BY DEF CountInv
  <2>2. Lasts(k2n) > 0
    BY <1>1, <1>5, <2>1, LastsClosed
  <2>3. received < sent
    BY <1>2, <1>3, <2>2
  <2>4. QED
    BY <1>5, <2>3
<1>6. QED
  BY <1>4, <1>5

LEMMA FlowReceive ==
  ASSUME DataInv, FlowInv, CountInv, Receive
  PROVE  FlowInv'
<1>1. /\ phase = "receive" /\ m_stream' = m_stream /\ events' = events /\ reported' = reported
      /\ count' = count /\ reg' = reg /\ sent' = sent
  BY DEF Receive, scanVars, collectVars, sendVars
<1>2. ReceiveFlow
  BY <1>1 DEF FlowInv
<1>3. Slot' = Slot /\ ReportType' = ReportType
  BY <1>1 DEF Slot, ReportType
<1>4. EventsOK'
  BY <1>1, <1>3 DEF FlowInv, EventsOK
<1>5. /\ m_stream = <<>> /\ events = <<>> /\ output_buffer \in Seq(Slot)
      /\ Legible => \A e \in reported :
           InTurn(e, output_buffer) \/ (InReports(e, k2n) /\ AllOld(output_buffer, e))
  BY <1>2 DEF ReceiveFlow
<1>6. /\ k2n \in Seq(ReportType) /\ reg \in [1 .. Slots -> Slot] /\ count \in 0 .. Slots - 1
  BY DEF FlowInv, ReportOK
<1>7. CASE received < sent /\ k2n # <<>>
  <2>1. /\ k2n[1] \in ReportType /\ Head(k2n) = k2n[1]
        /\ k2n' = Tail(k2n) /\ phase' = phase
        /\ aligned' = (aligned /\ ~k2n[1].torn)
    BY <1>7, ReceiveBeat
  <2>2. PICK slots \in Seq(Slot) : /\ output_buffer' = output_buffer \o slots
                                   /\ aligned => slots = k2n[1].slots
    BY <1>7, ReceiveBeat
  <2>3. k2n' \in Seq(ReportType)
    BY <1>6, <1>7, <2>1, TailOne
  <2>4. output_buffer' \in Seq(Slot)
    BY <1>5, <2>2, ConcatTwo
  \* A buffer that is torn is so by the only packet, whose report is received.
  <2>5. ASSUME Legible' PROVE aligned
    <3>1. aligned' \/ sent = 1
      BY <1>1, <2>5 DEF Legible
    <3>2. ~aligned => received > 0 /\ received \in Nat
      BY DEF CountInv
    <3>3. ~(received > 0 /\ received < 1 /\ received \in Nat)
      OBVIOUS
    <3>4. QED
      BY <1>7, <2>1, <3>1, <3>2, <3>3
  <2>6. ASSUME Legible', NEW e \in reported
        PROVE  InTurn(e, output_buffer')
                 \/ (InReports(e, k2n') /\ AllOld(output_buffer', e))
    <3>1. aligned /\ slots = k2n[1].slots /\ Legible
      BY <2>2, <2>5, <2>6 DEF Legible
    <3>2. CASE InTurn(e, output_buffer)
      BY <1>5, <2>2, <3>2, InTurnConcat
    <3>3. CASE InReports(e, k2n) /\ AllOld(output_buffer, e)
      <4>1. InTurn(e, slots) \/ (AllOld(slots, e) /\ InReports(e, k2n'))
        BY <1>6, <1>7, <2>1, <3>1, <3>3, ReportsTail
      <4>2. QED
        BY <1>5, <2>2, <3>3, <4>1, InTurnConcat, AllOldConcat
    <3>4. QED
      BY <1>5, <3>1, <3>2, <3>3
  <2>7. ReceiveFlow'
    BY <1>1, <1>3, <1>5, <2>4, <2>6 DEF ReceiveFlow
  <2>8. QED
    BY <1>1, <1>3, <1>4, <1>6, <2>1, <2>3, <2>7 DEF FlowInv, ReportOK
<1>8. CASE ~(received < sent /\ k2n # <<>>)
  <2>1. phase' = "parse" /\ k2n' = k2n /\ output_buffer' = output_buffer /\ aligned' = aligned
    BY <1>8 DEF Receive, receiveVars
  <2>2. k2n = <<>>
    BY <1>1, <1>8, AllReceived DEF DataInv, BeatsInv, SendInv
  <2>3. \A e : ~InReports(e, k2n) /\ AllOld(events, e)
    <3>1. Len(k2n) = 0 /\ Len(events) = 0
      BY <1>5, <2>2
    <3>2. QED
      BY <3>1 DEF InReports, AllOld
  <2>4. Legible' <=> Legible
    BY <1>1, <2>1 DEF Legible
  <2>5. ParseFlow'
    BY <1>1, <1>3, <1>5, <2>1, <2>3, <2>4 DEF ParseFlow
  <2>6. QED
    BY <1>1, <1>3, <1>4, <1>6, <2>1, <2>5 DEF FlowInv, ReportOK
<1>9. QED
  BY <1>7, <1>8

LEMMA CountReceive ==
  ASSUME DataInv, FlowInv, CountInv, Receive
  PROVE  CountInv'
<1>1. /\ phase = "receive" /\ m_stream' = m_stream /\ sent' = sent /\ n2k' = n2k
  BY DEF Receive, sendVars
<1>2. /\ received \in Nat /\ aligned \in BOOLEAN /\ Closed(k2n)
      /\ sent = received + Lasts(k2n) + Lasts(m_stream) + Lasts(n2k)
      /\ ~aligned => received > 0
      /\ \A b \in 1 .. Len(k2n) : k2n[b].torn => k2n[b].last
  BY <1>1 DEF CountInv
<1>3. m_stream = <<>> /\ n2k = <<>>
  BY <1>1 DEF FlowInv, ReceiveFlow, DataInv, BeatsInv
<1>4. Lasts(m_stream) = 0 /\ Lasts(n2k) = 0
  BY <1>3, LastsEmpty
<1>5. CASE received < sent /\ k2n # <<>>
  <2>1. /\ k2n \in Seq(ReportType) /\ k2n[1] \in ReportType /\ Head(k2n) = k2n[1]
        /\ k2n' = Tail(k2n) /\ phase' = phase
        /\ received' = received + (IF k2n[1].last THEN 1 ELSE 0)
        /\ aligned' = (aligned /\ ~k2n[1].torn)
    BY <1>5, ReceiveBeat
  <2>2. k2n[1].last \in BOOLEAN /\ k2n[1].torn \in BOOLEAN
    BY <2>1 DEF ReportType
  <2>3. /\ k2n' \in Seq(ReportType) /\ Len(k2n') = Len(k2n) - 1 /\ Len(k2n) \in Nat \ {0}
        /\ \A k \in 1 .. Len(k2n) - 1 : k2n'[k] = k2n[k + 1]
    BY <1>5, <2>1, TailOne
  <2>4. Lasts(k2n) = Lasts(k2n') + (IF k2n[1].last THEN 1 ELSE 0)
    BY <1>5, <2>1, <2>2, LastsTail
  <2>5. Lasts(k2n') \in Nat
    BY <2>3, LastsNat
  <2>6. sent' = received' + Lasts(k2n') + Lasts(m_stream') + Lasts(n2k')
    <3>1. Lasts(m_stream') = 0 /\ Lasts(n2k') = 0
      BY <1>1, <1>4
    <3>2. QED
      BY <1>1, <1>2, <1>4, <2>1, <2>2, <2>4, <2>5, <3>1
  <2>7. received' \in Nat /\ aligned' \in BOOLEAN
    BY <1>2, <2>1, <2>2
  <2>8. ~aligned' => received' > 0
    <3>1. 1 \in 1 .. Len(k2n)
      BY <2>3
    <3>2. k2n[1].torn => k2n[1].last
      BY <1>2, <3>1
    <3>3. CASE ~aligned
      BY <1>2, <2>1, <2>2, <3>3
    <3>4. CASE k2n[1].torn
      BY <1>2, <2>1, <3>2, <3>4
    <3>5. QED
      BY <2>1, <3>3, <3>4
  <2>9. \A b \in 1 .. Len(k2n') : k2n'[b].torn => k2n'[b].last
    <3>1. \A b \in 1 .. Len(k2n') : b \in 1 .. Len(k2n) - 1 /\ b + 1 \in 1 .. Len(k2n)
      BY <2>3
    <3>2. QED
      BY <1>2, <2>3, <3>1
  <2>10. Closed(k2n')
    BY <1>2, <1>5, <2>1, ClosedTail
  <2>11. QED
    BY <1>1, <2>1, <2>6, <2>7, <2>8, <2>9, <2>10 DEF CountInv
<1>6. CASE ~(received < sent /\ k2n # <<>>)
  <2>1. phase' = "parse" /\ k2n' = k2n /\ received' = received /\ aligned' = aligned
    BY <1>6 DEF Receive, receiveVars
  <2>2. k2n = <<>> /\ sent = received
    BY <1>1, <1>3, <1>6, AllReceived DEF DataInv, SendInv
  <2>3. QED
    BY <1>1, <1>2, <2>1, <2>2 DEF CountInv
<1>7. QED
  BY <1>5, <1>6

LEMMA FlowParse ==
  ASSUME FlowInv, Parse
  PROVE  FlowInv'
<1>1. /\ phase = "parse" /\ m_stream' = m_stream /\ reported' = reported /\ k2n' = k2n
      /\ count' = count /\ reg' = reg /\ sent' = sent /\ aligned' = aligned
  BY DEF Parse, scanVars, collectVars, sendVars, receiveVars
<1>2. /\ m_stream = <<>> /\ output_buffer \in Seq(Slot)
      /\ Legible => \A e \in reported : IsEvent(e) =>
           InTurn(e, events) \/ (InTurn(e, output_buffer) /\ AllOld(events, e))
  BY <1>1 DEF FlowInv, ParseFlow
<1>3. Slot' = Slot /\ ReportType' = ReportType /\ (Legible' <=> Legible)
  BY <1>1 DEF Slot, ReportType, Legible
<1>4. ReportOK'
  BY <1>1, <1>3 DEF FlowInv, ReportOK
<1>5. events \in Seq(Slot) /\ \A k \in 1 .. Len(events) : IsEvent(events[k])
  BY DEF FlowInv, EventsOK
<1>6. CASE output_buffer # <<>>
  <2> DEFINE x == Head(output_buffer)
  <2>1. /\ output_buffer' = Tail(output_buffer) /\ phase' = phase
        /\ events' = IF IsEvent(x) THEN Append(events, x) ELSE events
    BY <1>6 DEF Parse
  <2>2. x \in Slot /\ output_buffer' \in Seq(Slot)
    BY <1>2, <1>6, <2>1, TailOne
  <2> HIDE DEF x
  <2>3. EventsOK'
    <3>1. CASE IsEvent(x)
      <4>1. /\ Append(events, x) \in Seq(Slot)
            /\ Len(Append(events, x)) = Len(events) + 1 /\ Len(events) \in Nat
            /\ \A k \in 1 .. Len(events) : Append(events, x)[k] = events[k]
            /\ Append(events, x)[Len(events) + 1] = x
        BY <1>5, <2>2, AppendOne
      <4>2. \A k \in 1 .. Len(events) + 1 : k \in 1 .. Len(events) \/ k = Len(events) + 1
        BY <4>1
      <4>3. \A k \in 1 .. Len(events) + 1 : IsEvent(Append(events, x)[k])
        BY <1>5, <3>1, <4>1, <4>2
      <4>4. events' = Append(events, x)
        BY <2>1, <3>1
      <4>5. QED
        BY <1>3, <4>1, <4>3, <4>4 DEF EventsOK
    <3>2. CASE ~IsEvent(x)
      BY <1>3, <1>5, <2>1, <3>2 DEF EventsOK
    <3>3. QED
      BY <3>1, <3>2
  <2>4. ASSUME Legible, NEW e \in reported, IsEvent(e)
        PROVE  InTurn(e, events') \/ (InTurn(e, output_buffer') /\ AllOld(events', e))
    <3>1. CASE InTurn(e, events)
      <4>1. CASE IsEvent(x)
        BY <1>5, <2>1, <2>2, <3>1, <4>1, InTurnAppend
      <4>2. CASE ~IsEvent(x)
        BY <2>1, <3>1, <4>2
      <4>3. QED
        BY <4>1, <4>2
    <3>2. CASE InTurn(e, output_buffer) /\ AllOld(events, e)
      <4>1. x = e \/ (Old(x, e) /\ InTurn(e, output_buffer'))
        BY <1>2, <2>1, <3>2, InTurnTail DEF x
      <4>2. CASE x = e
        <5>1. events' = Append(events, e) /\ e \in Slot
          BY <2>1, <2>2, <2>4, <4>2
        <5>2. QED
          BY <1>5, <3>2, <5>1, InTurnAppend
      <4>3. CASE Old(x, e) /\ InTurn(e, output_buffer')
        <5>1. AllOld(events', e)
          <6>1. CASE IsEvent(x)
            BY <1>5, <2>1, <2>2, <3>2, <4>3, <6>1, InTurnAppend
          <6>2. CASE ~IsEvent(x)
            BY <2>1, <3>2, <6>2
          <6>3. QED
            BY <6>1, <6>2
        <5>2. QED
          BY <4>3, <5>1
      <4>4. QED
        BY <4>1, <4>2, <4>3
    <3>3. QED
      BY <1>2, <2>4, <3>1, <3>2
  <2>5. ParseFlow'
    BY <1>1, <1>2, <1>3, <2>2, <2>4 DEF ParseFlow
  <2>6. QED
    BY <1>1, <1>4, <2>1, <2>3, <2>5 DEF FlowInv
<1>7. CASE output_buffer = <<>>
  <2>1. phase' = "judge" /\ output_buffer' = output_buffer /\ events' = events
    BY <1>7 DEF Parse
  <2>2. \A e : ~InTurn(e, output_buffer)
    <3>1. Len(output_buffer) = 0
      BY <1>7
    <3>2. QED
      BY <3>1 DEF InTurn
  <2>3. JudgeFlow'
    BY <1>1, <1>2, <1>3, <2>1, <2>2 DEF JudgeFlow
  <2>4. EventsOK'
    BY <1>3, <1>5, <2>1 DEF EventsOK
  <2>5. QED
    BY <1>4, <2>1, <2>3, <2>4 DEF FlowInv
<1>8. QED
  BY <1>6, <1>7

\* Nothing of the report is touched any more.
Settled == UNCHANGED <<m_stream, reported, k2n, count, reg, sent, received, aligned, events,
                       output_buffer, n2k, lanes, pair, packet_byte_idx>>

LEMMA SettledJudge ==
  ASSUME Judge \/ Done \/ UNCHANGED <<vars, testBenchVars>>
  PROVE  Settled /\ (phase' = phase \/ (phase = "judge" /\ phase' = "done"))
<1>1. CASE Judge
  BY <1>1 DEF Judge, Settled, scanVars, collectVars, sendVars, receiveVars
<1>2. CASE Done \/ UNCHANGED <<vars, testBenchVars>>
  BY <1>2 DEF Done, Settled, testBenchVars, scanVars, collectVars, sendVars, receiveVars
<1>3. QED
  BY <1>1, <1>2

LEMMA FlowJudge ==
  ASSUME FlowInv, Judge \/ Done \/ UNCHANGED <<vars, testBenchVars>>
  PROVE  FlowInv'
<1>1. /\ Settled
      /\ phase' = phase \/ (phase = "judge" /\ phase' = "done")
  BY SettledJudge
<1>2. /\ Slot' = Slot /\ ReportType' = ReportType /\ StreamType' = StreamType
      /\ (Legible' <=> Legible)
  BY <1>1 DEF Slot, ReportType, StreamType, Legible, Settled
<1>3. ReportOK' /\ EventsOK'
  BY <1>1, <1>2 DEF FlowInv, ReportOK, EventsOK, Settled
<1>4. SendFlow => SendFlow'
  BY <1>1 DEF SendFlow, Unreported, Settled
<1>5. StreamOK => StreamOK'
  BY <1>1, <1>2 DEF StreamOK, Settled
<1>6. \A e : InStream(e) <=> InStream(e)'
  BY <1>1 DEF InStream, Settled
<1>7. ScanFlow => ScanFlow'
  <2>1. \A p : LaneOK(p) <=> LaneOK(p)'
    BY <1>1 DEF LaneOK, Settled
  <2>2. \A e : IsPast(e) <=> IsPast(e)'
    BY <1>1 DEF IsPast, Settled
  <2>3. Unreported => Unreported'
    BY <1>1 DEF Unreported, Settled
  <2>4. QED
    BY <1>1, <1>5, <1>6, <2>1, <2>2, <2>3 DEF ScanFlow, Settled
<1>8. CollectFlow => CollectFlow'
  <2>1. \A e : Waits(e) <=> Waits(e)'
    BY <1>1 DEF Waits, Settled
  <2>2. \A i : Holds(i) <=> Holds(i)'
    BY <1>1 DEF Holds, Settled
  <2>3. QED
    BY <1>1, <1>5, <1>6, <2>1, <2>2 DEF CollectFlow, Settled
<1>9. (ReceiveFlow => ReceiveFlow') /\ (ParseFlow => ParseFlow') /\ (JudgeFlow => JudgeFlow')
  BY <1>1, <1>2 DEF ReceiveFlow, ParseFlow, JudgeFlow, Settled
<1>10. QED
  BY <1>1, <1>3, <1>4, <1>7, <1>8, <1>9 DEF FlowInv

LEMMA CountLater ==
  ASSUME CountInv, Parse \/ Judge \/ Done \/ UNCHANGED <<vars, testBenchVars>>
  PROVE  CountInv'
<1>1. UNCHANGED <<m_stream, k2n, sent, received, aligned, n2k>>
  BY DEF Parse, Judge, Done, testBenchVars, sendVars, receiveVars
<1>2. \/ phase' = phase
      \/ phase \in {"parse", "judge"} /\ phase' \in {"judge", "done"}
  BY DEF Parse, Judge, Done, testBenchVars
<1>3. QED
  BY <1>1, <1>2 DEF CountInv

----------------------------------------------------------------------------
BenchInv == AllInv /\ FlowInv /\ CountInv

LEMMA BenchStep ==
  BenchInv /\ [TestBenchNext]_<<vars, testBenchVars>> => BenchInv'
<1> SUFFICES ASSUME BenchInv, [TestBenchNext]_<<vars, testBenchVars>> PROVE BenchInv'
  OBVIOUS
<1>1. /\ AllInv /\ AllInv' /\ FlowInv /\ CountInv
      /\ DataInv /\ ScanInv /\ OutputOK /\ SoundInv /\ SoundInv'
  BY MatchStep DEF BenchInv, AllInv, MatchInv
<1>2. CASE SendBeat
  BY <1>1, <1>2, FlowSendBeat, CountSendBeat DEF BenchInv
<1>3. CASE ScanPair
  BY <1>1, <1>3, FlowScanPair, CountScanPair DEF BenchInv
<1>4. CASE EndOfScan
  BY <1>1, <1>4, FlowEndOfScan, CountEndOfScan DEF BenchInv
<1>5. CASE ReadMatch
  BY <1>1, <1>5, FlowReadMatch, CountReadMatch DEF BenchInv
<1>6. CASE EndOfBeat
  BY <1>1, <1>6, FlowEndOfBeat, CountEndOfBeat DEF BenchInv
<1>7. CASE EndOfCollect
  BY <1>1, <1>7, FlowEndOfCollect, CountEndOfCollect DEF BenchInv
<1>8. CASE Receive
  BY <1>1, <1>8, FlowReceive, CountReceive DEF BenchInv
<1>9. CASE Parse
  BY <1>1, <1>9, FlowParse, CountLater DEF BenchInv
<1>10. CASE Judge \/ Done \/ UNCHANGED <<vars, testBenchVars>>
  BY <1>1, <1>10, FlowJudge, CountLater DEF BenchInv
<1>11. QED
  BY <1>2, <1>3, <1>4, <1>5, <1>6, <1>7, <1>8, <1>9, <1>10 DEF TestBenchNext

LEMMA BenchInvariant == TestBenchSpec => []BenchInv
<1>1. TestBenchInit => AllInv
  <2> SUFFICES ASSUME TestBenchInit PROVE AllInv
    OBVIOUS
  <2>1. DataInv /\ ScanInv /\ OutputOK
    BY DataInit, ScanInit DEF TestBenchInit, OutputOK, Init
  <2>2. reported = {} /\ phase = "send"
    BY DEF TestBenchInit
  <2>3. QED
    BY <2>1, <2>2 DEF AllInv, MatchInv, SoundInv, CompleteInv, IsScanned
<1>2. TestBenchInit => BenchInv
  BY <1>1, FlowInit, CountInit DEF BenchInv
<1>3. QED
  BY <1>2, BenchStep, PTL DEF TestBenchSpec

----------------------------------------------------------------------------
\* The way of every match through registers, report beats, buffer and parser
\* (krnl_proj.cpp:80-148, tb_proj.cpp:230-290).
THEOREM EventsParsedAlways == TestBenchSpec => []EventsParsed
<1>1. BenchInv => EventsParsed
  <2> SUFFICES ASSUME BenchInv, phase \in {"judge", "done"} PROVE EventsParsed
    BY DEF EventsParsed
  <2>1. /\ events \in Seq(Slot) /\ \A k \in 1 .. Len(events) : IsEvent(events[k])
        /\ Legible => \A e \in reported : IsEvent(e) => InTurn(e, events)
    BY DEF BenchInv, FlowInv, EventsOK, JudgeFlow
  <2>2. DOMAIN events = 1 .. Len(events) /\ Len(events) \in Nat
    BY <2>1
  <2>3. \A k \in DOMAIN events : events[k] \in reported \cup Garbage
    <3>1. \A k \in DOMAIN events : events[k] \in Slot /\ events[k] # NoEvent
      BY <2>1, <2>2 DEF IsEvent
    <3>2. QED
      BY <3>1 DEF Slot, Unassigned
  <2>4. ASSUME Legible, NEW e \in reported, IsEvent(e)
        PROVE  \E k \in DOMAIN events :
                 /\ events[k] = e
                 /\ \A j \in 1 .. k - 1 : events[j] \in Garbage \/ Before(events[j], e)
    <3>1. PICK k \in 1 .. Len(events) :
            events[k] = e /\ \A j \in 1 .. k - 1 : Old(events[j], e)
      BY <2>1, <2>4 DEF InTurn
    <3>2. \A j \in 1 .. k - 1 : j \in 1 .. Len(events)
      BY <2>2
    <3>3. \A j \in 1 .. k - 1 : events[j] \in Garbage \/ Before(events[j], e)
      BY <2>1, <3>1, <3>2 DEF Old, IsEvent, Unassigned
    <3>4. QED
      BY <2>2, <3>1, <3>3
  <2>5. QED
    BY <2>3, <2>4 DEF EventsParsed
<1>2. QED
  BY <1>1, BenchInvariant, PTL

----------------------------------------------------------------------------
\* An event that is no garbage is a match of the rule it names.
LEMMA EventIsMatch ==
  ASSUME BenchInv, NEW k \in DOMAIN events, events[k] \notin Garbage
  PROVE  /\ events[k] \in reported /\ events[k] \in Events /\ IsEvent(events[k])
         /\ events[k].byte_index < PacketBytes
         /\ events[k].packet * PacketBytes < Len(test.data)
         /\ Whole(Len(test.data)) =>
              events[k].packet * PacketBytes + events[k].byte_index < Len(test.data)
         /\ \E x \in RulePlaces :
              /\ events[k].id = IdAt(x)
              /\ FirstRuleAt(x, events[k].packet, events[k].byte_index)
<1>1. events \in Seq(Slot) /\ \A j \in 1 .. Len(events) : IsEvent(events[j])
  BY DEF BenchInv, FlowInv, EventsOK
<1>2. k \in 1 .. Len(events) /\ events[k] \in Slot
  BY <1>1
<1>3. IsEvent(events[k]) /\ events[k] # NoEvent
  BY <1>1, <1>2 DEF IsEvent
<1>4. events[k] \in reported
  BY <1>2, <1>3 DEF Slot, Unassigned
<1>5. SoundInv
  BY DEF BenchInv, AllInv, MatchInv
<1>6. QED
  BY <1>3, <1>4, <1>5 DEF SoundInv

LEMMA UniqueRule ==
  ASSUME NEW x \in RulePlaces
  PROVE  PatternOf(IdAt(x)) = PatternAt(x)
<1>1. (CHOOSE y \in RulePlaces : IdAt(y) = IdAt(x)) = x
  BY TestBenchAssumption
<1>2. QED
  BY <1>1 DEF PatternOf

\* No match is flagged as a false positive that is in the data (tb_proj.cpp:
\* verify_pattern_in_data, main's loop over the events).
THEOREM FlagsHonestAlways == TestBenchSpec => []FlagsHonest
<1>1. BenchInv => FlagsHonest
  <2> SUFFICES ASSUME BenchInv, Len(test.data) <= PacketBytes, NEW k \in DOMAIN events,
                      events[k] \notin Garbage, events[k].byte_index < Len(test.data)
               PROVE  Verified(events[k])
    BY DEF FlagsHonest
  <2> DEFINE e == events[k]
             i == e.byte_index
  <2>1. PICK x \in RulePlaces : e.id = IdAt(x) /\ FirstRuleAt(x, e.packet, i)
    BY EventIsMatch
  <2>2. e.packet \in Nat /\ i \in Nat /\ e.packet * PacketBytes < Len(test.data)
    BY EventIsMatch DEF Events
  <2>3. Len(test.data) \in Nat
    BY TestTypes DEF BenchInv, AllInv, DataInv, SendInv
  <2> DEFINE pat == PatternAt(x)
  <2>4. Len(pat) \in Nat \ {0} /\ pat \in Seq(Byte) /\ PatternOf(e.id) = pat
    BY <2>1, PlaceTypes, UniqueRule
  <2>5. e.packet = 0
    <3>1. ASSUME 1 <= e.packet PROVE FALSE
      <4>1. 1 * PacketBytes <= e.packet * PacketBytes
        BY <2>2, <3>1, TimesMonotonic, Sizes
      <4>2. 1 * PacketBytes = PacketBytes
        BY Sizes
      <4>3. QED
        BY <2>2, <2>3, <4>1, <4>2, WholeTimes, Sizes
    <3>2. QED
      BY <2>2, <3>1
  <2>6. 0 * PacketBytes = 0
    BY Sizes
  <2>7. SeenAt(x, 0, i) /\ i < Len(test.data)
    BY <2>1, <2>5 DEF FirstRuleAt
  <2> HIDE DEF i, pat
  <2>8. /\ i - Len(pat) + 1 >= 2
        /\ \A j \in 1 .. Len(pat) : Padded(0 + i - Len(pat) + j) = pat[j]
    BY <2>6, <2>7 DEF SeenAt, DCAM_P, pat
  <2>9. ASSUME NEW j \in 1 .. Len(pat)
        PROVE  test.data[(i + 0 - Len(pat) + 1) + j] = pat[j]
    <3>1. 0 + i - Len(pat) + j < Len(test.data)
      BY <2>2, <2>3, <2>4, <2>7, <2>9 DEF i
    <3>2. (0 + i - Len(pat) + j) + 1 = (i + 0 - Len(pat) + 1) + j
      BY <2>2, <2>4 DEF i
    <3>3. QED
      BY <2>8, <3>1, <3>2 DEF Padded
  <2>10. DOMAIN pat = 1 .. Len(pat)
    BY <2>4
  <2>11. /\ (i + 0 - Len(pat) + 1) >= 0
         /\ (i + 0 - Len(pat) + 1) + Len(pat) <= Len(test.data)
    BY <2>2, <2>3, <2>4, <2>7, <2>8 DEF i
  <2>12. 0 \in -2 .. 2
    OBVIOUS
  <2>13. QED
    BY <2>4, <2>9, <2>10, <2>11, <2>12 DEF Verified, i
<1>2. QED
  BY <1>1, BenchInvariant, PTL

----------------------------------------------------------------------------
(***************************************************************************)
(* The tests with a placed pattern: it occurs at its place and nowhere     *)
(* else, because the background is in no pattern.                          *)
(***************************************************************************)
LEMMA PlacedTest ==
  ASSUME test \in Tests, test.expected_id # None
  PROVE  /\ test.rule \in RulePlaces /\ test.expected_id = IdAt(test.rule)
         /\ test.pos \in Nat /\ LastPlace \in Nat /\ LastPlace < PlacedSize
         /\ test.data = Placed(PatternAt(test.rule), test.pos)
         /\ Len(test.data) = PlacedSize /\ Whole(Len(test.data))
<1>1. test \in PatternTests /\ test.pos + Len(PatternAt(test.rule)) <= PlacedSize
  BY DEF Tests, BlindTests
<1>2. PICK x \in RulePlaces, pos \in 0 .. PlacedSize - 1, w \in BOOLEAN :
        test = [data |-> Placed(PatternAt(x), pos), expected_id |-> IdAt(x), rule |-> x,
                pos |-> pos, withPos |-> w]
  BY <1>1 DEF PatternTests
<1>3. /\ test.rule = x /\ test.expected_id = IdAt(x) /\ test.pos = pos
      /\ test.data = Placed(PatternAt(x), pos)
  BY <1>2
<1>4. Len(PatternAt(x)) \in Nat \ {0} /\ pos \in Nat
  BY PlaceTypes
<1>5. LastPlace \in Nat /\ LastPlace < PlacedSize
  BY <1>1, <1>3, <1>4, Sizes DEF LastPlace
<1>6. Len(Placed(PatternAt(x), pos)) = PlacedSize
  BY Sizes DEF Placed
<1>7. QED
  BY <1>3, <1>4, <1>5, <1>6, WholeSizes

\* Where a pattern is seen in the data.
LEMMA SeenIsThere ==
  ASSUME test \in Tests, NEW y \in RulePlaces, NEW n \in Nat, NEW i \in Nat, SeenAt(y, n, i),
         n * PacketBytes + i < Len(test.data)
  PROVE  \A k \in 1 .. Len(PatternAt(y)) :
           /\ (n * PacketBytes + i) - Len(PatternAt(y)) + k \in 0 .. Len(test.data) - 1
           /\ test.data[(n * PacketBytes + i) - Len(PatternAt(y)) + 1 + k] = PatternAt(y)[k]
<1> DEFINE L == Len(PatternAt(y))
           b == n * PacketBytes
<1>1. L \in Nat \ {0} /\ b \in Nat /\ Len(test.data) \in Nat
  BY PlaceTypes, WholeTimes, TestTypes
<1>2. /\ i - L + 1 >= 2
      /\ \A k \in 1 .. L : Padded(b + i - L + k) = PatternAt(y)[k]
  BY DEF SeenAt, DCAM_P
<1>3. b + i < Len(test.data)
  OBVIOUS
<1> HIDE DEF L, b
<1>4. \A k \in 1 .. L : /\ (b + i) - L + k \in 0 .. Len(test.data) - 1
                        /\ (b + i) - L + 1 + k = (b + i - L + k) + 1
                        /\ b + i - L + k < Len(test.data)
  BY <1>1, <1>2, <1>3
<1>5. \A k \in 1 .. L : test.data[(b + i) - L + 1 + k] = PatternAt(y)[k]
  BY <1>2, <1>4 DEF Padded
<1>6. QED
  BY <1>4, <1>5 DEF L, b

LEMMA PlacedSeen ==
  ASSUME test \in Tests, test.expected_id # None, NEW n \in Nat, NEW i \in Nat,
         SeenAt(test.rule, n, i), n * PacketBytes + i < Len(test.data)
  PROVE  n * PacketBytes + i = LastPlace
<1> DEFINE pat == PatternAt(test.rule)
           L == Len(pat)
           place == n * PacketBytes + i
<1>1. /\ test.rule \in RulePlaces /\ test.pos \in Nat /\ Len(test.data) = PlacedSize
      /\ test.data = Placed(pat, test.pos)
  BY PlacedTest
<1>2. L \in Nat \ {0} /\ pat \in Seq(Byte) /\ place \in Nat
  BY <1>1, PlaceTypes, WholeTimes
<1>3. \A k \in 1 .. L : /\ place - L + k \in 0 .. Len(test.data) - 1
                        /\ test.data[place - L + 1 + k] = pat[k]
  <2>1. test.rule \in RulePlaces
    BY <1>1
  <2>2. \A k \in 1 .. Len(PatternAt(test.rule)) :
          /\ (n * PacketBytes + i) - Len(PatternAt(test.rule)) + k \in 0 .. Len(test.data) - 1
          /\ test.data[(n * PacketBytes + i) - Len(PatternAt(test.rule)) + 1 + k]
               = PatternAt(test.rule)[k]
    BY ONLY test \in Tests, <2>1, n \in Nat, i \in Nat, SeenAt(test.rule, n, i),
            n * PacketBytes + i < Len(test.data), SeenIsThere, Zenon
  <2>3. QED
    BY <2>2, Zenon
<1>4. \A k \in DOMAIN pat : pat[k] # Background
  BY <1>1, TestBenchAssumption
<1>5. DOMAIN pat = 1 .. L
  BY <1>2
<1>6. LastPlace = test.pos + L - 1
  BY DEF LastPlace
<1> HIDE DEF pat, L, place
<1>7. ASSUME NEW k \in 1 .. L
      PROVE  (place - L + 1 + k) - test.pos \in 1 .. L
  <2>1. place - L + 1 + k \in 1 .. PlacedSize
    <3>1. place - L + k \in 0 .. PlacedSize - 1
      BY <1>1, <1>3
    <3>2. QED
      BY <1>2, <3>1, Sizes
  <2>2. test.data[place - L + 1 + k] # Background
    BY <1>3, <1>4, <1>5
  <2>3. QED
    BY <1>1, <1>5, <2>1, <2>2 DEF Placed
<1>8. 1 \in 1 .. L /\ L \in 1 .. L
  BY <1>2
<1>9. (place - L + 1 + 1) - test.pos \in 1 .. L /\ (place - L + 1 + L) - test.pos \in 1 .. L
  BY <1>7, <1>8
<1>10. ASSUME NEW a \in Nat, NEW b \in Nat, NEW c \in Nat,
              (a - c + 1 + 1) - b \in 1 .. c, (a - c + 1 + c) - b \in 1 .. c
       PROVE  a = b + c - 1
  BY <1>10
<1>11. L \in Nat
  BY <1>2
<1>12. place = test.pos + L - 1
  BY <1>1, <1>2, <1>9, <1>10, <1>11
<1>13. QED
  BY <1>6, <1>12 DEF place

\* The packet of a place of the data, and the place in it.
LEMMA PacketOf ==
  ASSUME NEW c \in Nat
  PROVE  \E n \in 0 .. c : \E i \in 0 .. PacketBytes - 1 : c = n * PacketBytes + i
<1> DEFINE n == c \div PacketBytes
           i == c % PacketBytes
<1>1. /\ n \in Nat /\ i \in 0 .. PacketBytes - 1 /\ c = PacketBytes * n + i
  BY Sizes
<1> HIDE DEF n, i
<1>2. PacketBytes * n = n * PacketBytes /\ n * PacketBytes \in Nat /\ i \in Nat
  BY <1>1, Sizes
<1>3. n * 1 <= n * PacketBytes
  <2>1. 1 * n <= PacketBytes * n
    BY <1>1, TimesMonotonic, Sizes
  <2>2. QED
    BY <1>1, <1>2, <2>1, Sizes
<1>4. n \in 0 .. c
  BY <1>1, <1>2, <1>3
<1>5. c = n * PacketBytes + i
  BY <1>1, <1>2
<1>6. QED
  BY <1>1, <1>4, <1>5

LEMMA SamePacket ==
  ASSUME NEW n \in Nat, NEW m \in Nat, NEW i \in 0 .. PacketBytes - 1,
         m * PacketBytes <= n * PacketBytes + i, n * PacketBytes + i < (m + 1) * PacketBytes
  PROVE  m = n
<1>1. m <= n
  BY PlacesApart, Sizes
<1>2. n * PacketBytes \in Nat /\ m * PacketBytes \in Nat /\ i \in Nat
      /\ (m + 1) * PacketBytes = m * PacketBytes + PacketBytes
  BY WholeTimes, Sizes
<1>3. ASSUME m + 1 <= n PROVE FALSE
  <2>1. (m + 1) * PacketBytes <= n * PacketBytes
    BY <1>3, TimesMonotonic, Sizes
  <2>2. QED
    BY <1>2, <2>1, Sizes
<1>4. QED
  BY <1>1, <1>3

\* To be seen at a place of the data is to be seen in its packet.
LEMMA SeenInPacket ==
  ASSUME test \in Tests, NEW y \in RulePlaces, NEW n \in Nat, NEW i \in 0 .. PacketBytes - 1,
         n * PacketBytes + i < Len(test.data)
  PROVE  SeenInData(y, n * PacketBytes + i) <=> SeenAt(y, n, i)
<1> DEFINE pat == PatternAt(y)
           L == Len(pat)
           end == n * PacketBytes + i
<1>1. L \in Nat \ {0} /\ pat \in Seq(Byte) /\ i \in Nat /\ n * PacketBytes \in Nat
      /\ Len(test.data) \in Nat
  BY PlaceTypes, WholeTimes, TestTypes, Sizes
<1>2. DOMAIN pat = 1 .. L
  BY <1>1
<1>3. ASSUME SeenAt(y, n, i) PROVE SeenInData(y, end)
  <2>1. \A k \in 1 .. L : test.data[end - L + 1 + k] = pat[k]
    BY <1>1, <1>3, SeenIsThere
  <2>2. i - L + 1 >= 2
    BY <1>3 DEF SeenAt, DCAM_P
  <2>3. n * PacketBytes + 2 <= end - L + 1
    BY <1>1, <2>2
  <2>4. end < (n + 1) * PacketBytes
    BY <1>1, WholeTimes, Sizes
  <2>5. n \in 0 .. end
    <3>1. 1 * n <= PacketBytes * n
      BY TimesMonotonic, Sizes
    <3>2. n * PacketBytes = PacketBytes * n /\ 1 * n = n
      BY Sizes
    <3>3. QED
      BY <1>1, <3>1, <3>2
  <2>6. QED
    BY <1>2, <2>1, <2>3, <2>4, <2>5 DEF SeenInData, DCAM_P
<1>4. ASSUME SeenInData(y, end) PROVE SeenAt(y, n, i)
  <2>1. PICK m \in 0 .. end : m * PacketBytes + 2 <= end - L + 1 /\ end < (m + 1) * PacketBytes
    BY <1>4 DEF SeenInData, DCAM_P
  <2>2. \A k \in 1 .. L : test.data[end - L + 1 + k] = pat[k]
    BY <1>2, <1>4 DEF SeenInData
  <2>3. m \in Nat /\ m * PacketBytes \in Nat
    <3>1. m \in Nat
      BY <1>1
    <3>2. QED
      BY <3>1, WholeTimes
  <2>4. m * PacketBytes <= end
    BY <1>1, <2>1, <2>3
  <2>5. m = n
    BY <2>1, <2>3, <2>4, SamePacket
  <2>6. i - L + 1 >= 2
    <3>1. m * PacketBytes = n * PacketBytes
      BY <2>5
    <3>2. QED
      BY <1>1, <2>1, <2>3, <3>1
  <2>7. \A k \in 1 .. L : Padded(n * PacketBytes + i - L + k) = pat[k]
    <3> SUFFICES ASSUME NEW k \in 1 .. L PROVE Padded(n * PacketBytes + i - L + k) = pat[k]
      OBVIOUS
    <3> DEFINE at == n * PacketBytes + i - L + k
    <3>1. at \in Int /\ at < Len(test.data) /\ at + 1 = end - L + 1 + k
      BY <1>1
    <3> HIDE DEF at
    <3>2. test.data[at + 1] = pat[k]
      BY <2>2, <3>1
    <3>3. Padded(at) = pat[k]
      BY <3>1, <3>2 DEF Padded
    <3>4. QED
      BY <3>3 DEF at
  <2>8. SeenAt(y, n, i) <=> /\ i - Len(pat) + 1 >= 2
                            /\ \A k \in 1 .. Len(pat) :
                                 Padded(n * PacketBytes + i - Len(pat) + k) = pat[k]
    BY Zenon DEF SeenAt, DCAM_P
  <2>9. QED
    BY <2>6, <2>7, <2>8, Zenon
<1>5. QED
  BY <1>3, <1>4

----------------------------------------------------------------------------
\* What run_test has decided stays.
DoneInv ==
  phase = "done" =>
    /\ pass <=> sent = received /\ (test.expected_id # None => OfExpected # {})
    /\ at_position <=> /\ test.expected_id # None /\ OfExpected # {}
                       /\ InWindow(events[FirstOfExpected])

LEMMA DoneStep ==
  DoneInv /\ [TestBenchNext]_<<vars, testBenchVars>> => DoneInv'
<1> SUFFICES ASSUME DoneInv, [TestBenchNext]_<<vars, testBenchVars>>, phase' = "done"
             PROVE  DoneInv'
  BY DEF DoneInv
<1>1. Judge \/ (phase = "done" /\ UNCHANGED <<vars, testBenchVars>>)
  BY DEF TestBenchNext, SendBeat, ScanPair, EndOfScan, ReadMatch, EndOfBeat, EndOfCollect,
         Receive, Parse, Done, testBenchVars
<1>2. UNCHANGED <<test, sent, received, events>>
  BY <1>1 DEF Judge, testBenchVars, sendVars, receiveVars
<1>3. OfExpected' = OfExpected
  BY <1>2 DEF OfExpected
<1>4. FirstOfExpected' = FirstOfExpected
  BY <1>3 DEF FirstOfExpected
<1>5. \A e : (InWindow(e))' <=> InWindow(e)
  BY <1>2 DEF InWindow, ExpectedPos
<1>6. (InWindow(events[FirstOfExpected]))' <=> InWindow(events[FirstOfExpected])
  BY <1>2, <1>4 DEF InWindow, ExpectedPos
<1>7. CASE Judge
  BY <1>2, <1>3, <1>6, <1>7 DEF Judge, DoneInv
<1>8. CASE phase = "done" /\ UNCHANGED <<vars, testBenchVars>>
  <2>1. pass' = pass /\ at_position' = at_position
    BY <1>8 DEF testBenchVars, judgeVars
  <2>2. QED
    BY <1>2, <1>3, <1>6, <1>8, <2>1 DEF DoneInv
<1>9. QED
  BY <1>1, <1>7, <1>8

LEMMA DoneInvariant == TestBenchSpec => []DoneInv
<1>1. TestBenchInit => DoneInv
  BY DEF TestBenchInit, DoneInv
<1>2. QED
  BY <1>1, DoneStep, PTL DEF TestBenchSpec

LEMMA FirstExists ==
  ASSUME BenchInv, OfExpected # {}
  PROVE  FirstOfExpected \in OfExpected /\ OfExpected \subseteq DOMAIN events
<1>1. OfExpected \subseteq DOMAIN events
  BY DEF OfExpected
<1>2. DOMAIN events \subseteq Nat
  BY DEF BenchInv, FlowInv, EventsOK
<1>3. \E k \in OfExpected : \A j \in OfExpected : k <= j
  BY <1>1, <1>2, LeastExists
<1>4. QED
  BY <1>1, <1>3 DEF FirstOfExpected

\* Matches of the expected rule are at its place.
LEMMA ExpectedEvent ==
  ASSUME BenchInv, test.expected_id # None, NEW k \in OfExpected, events[k] \notin Garbage
  PROVE  LET e == events[k]
         IN  /\ e.packet \in Nat /\ e.byte_index \in 0 .. PacketBytes - 1
             /\ e.packet * PacketBytes + e.byte_index = LastPlace
             /\ FirstRuleAt(test.rule, e.packet, e.byte_index)
             /\ IsEvent(e) /\ e.id = test.expected_id
<1> DEFINE e == events[k]
           n == e.packet
           i == e.byte_index
<1>1. test \in Tests
  BY DEF BenchInv, AllInv, DataInv, SendInv
<1>2. test.rule \in RulePlaces /\ test.expected_id = IdAt(test.rule) /\ Whole(Len(test.data))
  BY <1>1, PlacedTest
<1>3. k \in DOMAIN events /\ e.id = test.expected_id
  BY DEF OfExpected
<1>5. /\ e \in Events /\ IsEvent(e) /\ i < PacketBytes
      /\ n * PacketBytes + i < Len(test.data)
      /\ \E x \in RulePlaces : e.id = IdAt(x) /\ FirstRuleAt(x, n, i)
  BY <1>2, <1>3, EventIsMatch
<1>6. FirstRuleAt(test.rule, n, i)
  BY <1>2, <1>3, <1>5, TestBenchAssumption
<1>7. n \in Nat /\ i \in Nat /\ i \in 0 .. PacketBytes - 1
  BY <1>5, Sizes DEF Events
<1>8. SeenAt(test.rule, n, i)
  BY <1>6 DEF FirstRuleAt
<1>9. n * PacketBytes + i = LastPlace
  BY <1>1, <1>5, <1>7, <1>8, PlacedSeen
<1>10. QED
  BY <1>3, <1>5, <1>6, <1>7, <1>9

LEMMA FoundIsDeserved ==
  ASSUME BenchInv, test.expected_id # None, OfExpected # {}, ~Misled
  PROVE  Deserved
<1>1. PICK k \in OfExpected : events[k] \notin Garbage
  BY DEF Misled
<1> DEFINE e == events[k]
           n == e.packet
           i == e.byte_index
<1>2. /\ n \in Nat /\ i \in 0 .. PacketBytes - 1 /\ n * PacketBytes + i = LastPlace
      /\ FirstRuleAt(test.rule, n, i) /\ IsEvent(e) /\ e.id = test.expected_id
  BY <1>1, ExpectedEvent
<1>3. /\ test \in Tests /\ test.rule \in RulePlaces /\ LastPlace < Len(test.data)
  BY PlacedTest DEF BenchInv, AllInv, DataInv, SendInv
<1> HIDE DEF e, n, i
<1>4. \A y \in RulePlaces : SeenInData(y, LastPlace) <=> SeenAt(y, n, i)
  <2> SUFFICES ASSUME NEW y \in RulePlaces
               PROVE  SeenInData(y, LastPlace) <=> SeenAt(y, n, i)
    OBVIOUS
  <2>1. SeenInData(y, n * PacketBytes + i) <=> SeenAt(y, n, i)
    BY <1>2, <1>3, SeenInPacket
  <2>2. QED
    BY <1>2, <2>1
<1>5. test.expected_id # EndMark
  BY <1>2 DEF IsEvent
<1>6. QED
  BY <1>2, <1>3, <1>4, <1>5 DEF Deserved, FirstRuleAt

LEMMA DeservedIsFound ==
  ASSUME BenchInv, phase = "done", test.expected_id # None, Legible, Deserved
  PROVE  OfExpected # {}
<1>1. /\ test \in Tests /\ test.rule \in RulePlaces /\ LastPlace < Len(test.data)
      /\ LastPlace \in Nat /\ test.expected_id = IdAt(test.rule) /\ Len(test.data) \in Nat
  BY PlacedTest, TestTypes DEF BenchInv, AllInv, DataInv, SendInv
<1>2. PICK n \in 0 .. LastPlace : \E i \in 0 .. PacketBytes - 1 : LastPlace = n * PacketBytes + i
  BY <1>1, PacketOf
<1>3. PICK i \in 0 .. PacketBytes - 1 : LastPlace = n * PacketBytes + i
  BY <1>2
<1>4. n \in Nat /\ n \in 0 .. Len(test.data)
  BY <1>1
<1>5. \A y \in RulePlaces : SeenInData(y, LastPlace) <=> SeenAt(y, n, i)
  <2> SUFFICES ASSUME NEW y \in RulePlaces
               PROVE  SeenInData(y, LastPlace) <=> SeenAt(y, n, i)
    OBVIOUS
  <2>1. SeenInData(y, n * PacketBytes + i) <=> SeenAt(y, n, i)
    BY <1>1, <1>3, <1>4, SeenInPacket
  <2>2. QED
    BY <1>3, <2>1
<1>6. FirstRuleAt(test.rule, n, i) /\ test.expected_id # EndMark
  BY <1>1, <1>5 DEF Deserved, FirstRuleAt
<1>7. PICK e \in reported : e.packet = n /\ e.byte_index = i
  <2>1. IsScanned(n, i)
    BY DEF IsScanned
  <2>2. SeenAt(test.rule, n, i) /\ n * PacketBytes + i < Len(test.data)
    BY <1>1, <1>3, <1>6 DEF FirstRuleAt
  <2>3. QED
    BY <1>1, <1>4, <2>1, <2>2 DEF BenchInv, AllInv, MatchInv, CompleteInv
<1>8. PICK y \in RulePlaces : e.id = IdAt(y) /\ FirstRuleAt(y, n, i)
  BY <1>7 DEF BenchInv, AllInv, MatchInv, SoundInv
<1>9. y = test.rule
  <2>1. ~Outranks(y, test.rule) /\ ~Outranks(test.rule, y)
    BY <1>1, <1>6, <1>8 DEF FirstRuleAt
  <2> DEFINE x == test.rule
  <2>2. /\ y = <<y[1], y[2]>> /\ y[1] \in Nat /\ y[2] \in Nat
        /\ x = <<x[1], x[2]>> /\ x[1] \in Nat /\ x[2] \in Nat
    BY <1>1, PlaceTypes
  <2>3. ~Outranks(y, x) /\ ~Outranks(x, y)
    BY <2>1
  <2> HIDE DEF x
  <2>4. y[1] = x[1] /\ y[2] = x[2]
    BY <2>2, <2>3 DEF Outranks
  <2>5. QED
    BY <2>2, <2>4 DEF x
<1>10. e.id = test.expected_id
  BY <1>1, <1>8, <1>9
<1>11. IsEvent(e)
  <2>1. e \in Events
    BY DEF BenchInv, AllInv, MatchInv, SoundInv
  <2>2. e \in [id : Nat, byte_index : Nat, lane : Lane, packet : Nat]
    BY <2>1 DEF Events
  <2>3. e # NoEvent
    BY <2>2, TestBenchAssumption
  <2>4. QED
    BY <1>6, <1>10, <2>3 DEF IsEvent
<1>12. InTurn(e, events) /\ DOMAIN events = 1 .. Len(events)
  BY <1>11 DEF BenchInv, FlowInv, JudgeFlow, EventsOK
<1>13. QED
  BY <1>10, <1>12 DEF InTurn, OfExpected

\* The position is right if the pattern lies in the first packet.
LEMMA WindowIsFirstPacket ==
  ASSUME BenchInv, test.expected_id # None, OfExpected # {}, ~Misled
  PROVE  InWindow(events[FirstOfExpected]) <=> (test.withPos => LastPlace < PacketBytes)
<1> DEFINE e == events[FirstOfExpected]
           n == e.packet
           i == e.byte_index
           L == Len(PatternAt(test.rule))
<1>1. FirstOfExpected \in OfExpected /\ events[FirstOfExpected] \notin Garbage
  BY FirstExists DEF Misled
<1>2. n \in Nat /\ i \in 0 .. PacketBytes - 1 /\ n * PacketBytes + i = LastPlace
  BY <1>1, ExpectedEvent
<1>3. test \in Tests /\ LastPlace \in Nat /\ L \in Nat
  <2>1. test \in Tests
    BY DEF BenchInv, AllInv, DataInv, SendInv
  <2>2. QED
    BY <2>1, PlacedTest, PlaceTypes
<1>4. InWindow(e) <=> (test.withPos => i >= LastPlace /\ i <= LastPlace + L)
  BY DEF InWindow, ExpectedPos, LastPlace
<1> HIDE DEF e, n, i, L
<1>5. n * PacketBytes \in Nat
  BY <1>2, WholeTimes
<1>6. i >= LastPlace /\ i <= LastPlace + L <=> LastPlace < PacketBytes
  <2>1. CASE n = 0
    <3>1. 0 * PacketBytes = 0
      BY Sizes
    <3>2. i = LastPlace
      BY <1>2, <2>1, <3>1, Sizes
    <3>3. QED
      BY <1>2, <1>3, <3>2, Sizes
  <2>2. CASE n # 0
    <3>1. 1 <= n
      BY <1>2, <2>2
    <3>2. 1 * PacketBytes <= n * PacketBytes
      BY <1>2, <3>1, TimesMonotonic, Sizes
    <3>3. PacketBytes <= n * PacketBytes
      BY <3>2, Sizes
    <3>4. QED
      BY <1>2, <1>3, <1>5, <3>3, Sizes
  <2>3. QED
    BY <2>1, <2>2
<1>7. QED
  BY <1>4, <1>6 DEF e

\* A test with an expected rule gets the verdict its data deserve, but for what registers
\* that nobody assigned happen to hold, which may be any event at all: that can make it
\* pass, and never fail (tb_proj.cpp:386-428, krnl_proj.cpp:71).
THEOREM VerdictHonestAlways == TestBenchSpec => []VerdictHonest
<1>1. BenchInv /\ DoneInv => VerdictHonest
  <2> SUFFICES ASSUME BenchInv /\ DoneInv, phase = "done", test.expected_id # None, Legible
               PROVE  /\ Deserved => pass
                      /\ pass => Deserved \/ Misled
                      /\ ~Misled =>
                           (at_position <=>
                              pass /\ (test.withPos => LastPlace < PacketBytes))
    BY Zenon DEF VerdictHonest
  <2>1. sent = received
    BY DEF BenchInv, CountInv
  <2>2. pass <=> OfExpected # {}
    BY <2>1 DEF DoneInv
  <2>3. Deserved => pass
    BY <2>2, DeservedIsFound
  <2>4. pass => Deserved \/ Misled
    BY <2>2, FoundIsDeserved
  <2>5. at_position <=> OfExpected # {} /\ InWindow(events[FirstOfExpected])
    BY DEF DoneInv
  <2>6. ASSUME ~Misled
        PROVE  at_position <=> pass /\ (test.withPos => LastPlace < PacketBytes)
    BY <2>2, <2>5, <2>6, WindowIsFirstPacket
  <2>7. QED
    BY <2>3, <2>4, <2>6
<1>2. QED
  BY <1>1, BenchInvariant, DoneInvariant, PTL
=============================================================================

------------------------------ MODULE Scanner ------------------------------
(***************************************************************************)
(* The pattern scanner of the project kernel (scanner.cpp): for every byte *)
(* value a group of rules uses, a shift register remembers at which of the *)
(* last HistoryLen byte positions the value was seen; a rule matches when  *)
(* the registers of its bytes carry a one at the offsets its pattern gives.*)
(* One call consumes DCAM_P bytes and returns one rule identifier, or 0,   *)
(* for each of them.                                                       *)
(*                                                                         *)
(* The generated tables of patterns.h (group_info, group_rules,            *)
(* group_bytes) are the constant Rules: a rule is its byte string and its  *)
(* original_id, and the indirection byte_index -> group_bytes is already   *)
(* resolved.  The position p of a byte in a call is 0-based as in the code,*)
(* sequences are 1-based.                                                  *)
(***************************************************************************)
EXTENDS Integers, Sequences

CONSTANTS
  Byte,            \* the values a byte can take
  HistoryLen,      \* width of a shift register (MAX_HISTORY_BITS)
  Rules,           \* Rules[g]: the sequence of rules of group g
  MaxPacketBytes   \* bound: bytes of a packet the model feeds

DCAM_P == 2        \* bytes consumed by a call

Group == DOMAIN Rules

(***************************************************************************)
(* What the generator of patterns.h guarantees: identifiers are line       *)
(* numbers, hence positive; patterns are not empty, and a register holds   *)
(* the longest pattern at every one of the DCAM_P alignments.              *)
(***************************************************************************)
ASSUME ScannerAssumption ==
  /\ HistoryLen \in Nat
  /\ MaxPacketBytes \in Nat
  /\ Rules \in Seq(Seq([pat : Seq(Byte), id : Nat \ {0}]))
  /\ \A g \in Group : \A r \in DOMAIN Rules[g] :
       Len(Rules[g][r].pat) \in 1 .. HistoryLen - (DCAM_P - 1)

VARIABLES
  history,  \* history[g][b]: shift register of byte b in group g
  outIds,   \* out_ids of the last call
  packet    \* history variable: the bytes of the current packet so far

vars == <<history, outIds, packet>>

----------------------------------------------------------------------------
Offset == 0 .. HistoryLen - 1
Lane   == 0 .. DCAM_P - 1

ZeroRegister == [k \in Offset |-> 0]

\* match_bits: byte p of the call lands in bit DCAM_P-1-p.
MatchBit(bytes, b, k) == IF bytes[DCAM_P - k] = b THEN 1 ELSE 0

\* Mutant: (history << 1) + match_bits.
ShiftInAdd(reg, bytes, b) ==
  [k \in Offset |-> (IF k < DCAM_P THEN MatchBit(bytes, b, k) ELSE 0)
                    + (IF k >= 1 THEN reg[k - 1] ELSE 0)]

\* (history << DCAM_P) | match_bits, in HistoryLen bits.
ShiftIn(reg, bytes, b) ==
  [k \in Offset |-> IF k < DCAM_P THEN MatchBit(bytes, b, k)
                                  ELSE reg[k - DCAM_P]]

\* Mutant: the bytes of a reset call are shifted into the cleared registers.
NewHistoryKeepBytes(hist, bytes, reset) ==
  [g \in Group |-> [b \in Byte |->
     ShiftIn(IF reset THEN ZeroRegister ELSE hist[g][b], bytes, b)]]

\* On a reset the registers are cleared and the bytes of the call are NOT
\* shifted in.
NewHistory(hist, bytes, reset) ==
  [g \in Group |-> [b \in Byte |-> IF reset THEN ZeroRegister
                                   ELSE ShiftIn(hist[g][b], bytes, b)]]

\* Mutant: the alignment DCAM_P - 1 - p of the byte in its call is ignored.
RuleMatchesUnaligned(hist, g, r, p) ==
  LET pat == Rules[g][r].pat
  IN  \A k \in 0 .. Len(pat) - 1 : hist[g][pat[k + 1]][Len(pat) - 1 - k] = 1

\* match_group, one rule: all bits the pattern names are set.
RuleMatches(hist, g, r, p) ==
  LET pat == Rules[g][r].pat
  IN  \A k \in 0 .. Len(pat) - 1 :
        hist[g][pat[k + 1]][(DCAM_P - 1 - p) + (Len(pat) - 1 - k)] = 1

Hits(hist, g, p) == {r \in DOMAIN Rules[g] : RuleMatches(hist, g, r, p)}

\* Mutant: the first match of a group is kept.
GroupResultFirst(hist, g, p) ==
  IF Hits(hist, g, p) = {} THEN 0
  ELSE Rules[g][CHOOSE r \in Hits(hist, g, p) :
                   \A q \in Hits(hist, g, p) : q >= r].id

\* local_best is overwritten by every later match.
GroupResult(hist, g, p) ==
  IF Hits(hist, g, p) = {} THEN 0
  ELSE Rules[g][CHOOSE r \in Hits(hist, g, p) :
                   \A q \in Hits(hist, g, p) : q <= r].id

HitGroups(hist, p) == {g \in Group : GroupResult(hist, g, p) # 0}

\* final_id is the first non-zero group result.
FinalId(hist, p) ==
  IF HitGroups(hist, p) = {} THEN 0
  ELSE GroupResult(hist, CHOOSE g \in HitGroups(hist, p) :
                           \A h \in HitGroups(hist, p) : g <= h, p)

----------------------------------------------------------------------------
Init ==
  /\ history = [g \in Group |-> [b \in Byte |-> ZeroRegister]]
  /\ outIds  = [p \in Lane |-> 0]
  /\ packet  = <<>>

(***************************************************************************)
(* One call of dcam_step_multi.  The caller (process_and_stream) passes    *)
(* reset with the first bytes of every packet and only with them.          *)
(***************************************************************************)
dcam_step_multi(bytes, reset) ==
  /\ history' = NewHistory(history, bytes, reset)
  /\ outIds'  = [p \in Lane |-> FinalId(history', p)]
  /\ packet'  = IF reset THEN bytes ELSE packet \o bytes

FirstBytes(bytes) == dcam_step_multi(bytes, TRUE)

LaterBytes(bytes) ==
  /\ packet # <<>>
  /\ Len(packet) + DCAM_P <= MaxPacketBytes
  /\ dcam_step_multi(bytes, FALSE)

Next == \E b1, b2 \in Byte : FirstBytes(<<b1, b2>>) \/ LaterBytes(<<b1, b2>>)

Spec == Init /\ [][Next]_vars

----------------------------------------------------------------------------
(***************************************************************************)
(* Reference: textual occurrences in the packet.                           *)
(***************************************************************************)
\* 1-based packet position of byte p of the last call.
EndOf(p) == Len(packet) - (DCAM_P - 1) + p

OccursAt(g, r, e) ==
  LET pat == Rules[g][r].pat
  IN  /\ Len(pat) <= e
      /\ \A k \in 1 .. Len(pat) : packet[e - Len(pat) + k] = pat[k]

\* An occurrence the scanner can see: none of its bytes is in the call that
\* carried the reset.
VisibleAt(g, r, e) == OccursAt(g, r, e) /\ e - Len(Rules[g][r].pat) >= DCAM_P

\* The registers hold bits, the results identifiers or 0.
TypeOK ==
  /\ history \in [Group -> [Byte -> [Offset -> {0, 1}]]]
  /\ outIds \in [Lane -> Nat]
  /\ packet \in Seq(Byte)

\* Every register is exactly the recent past of the packet: bit k of byte b is
\* set iff the byte k positions back is b and lies after the first call's bytes
\* (scanner.cpp: the shift-and-or update and its reset, over any sequence of
\* calls and packets).
HistoryMirrorsPacket ==
  \A g \in Group, b \in Byte, k \in Offset :
    history[g][b][k] = 1 <=> /\ k < Len(packet) - DCAM_P
                             /\ packet[Len(packet) - k] = b

\* A byte position is reported iff some rule's pattern ends there without
\* touching the bytes of the reset call: no false report (in particular none
\* that joins two packets) and no missed one, wherever the pattern is cut by
\* the DCAM_P-byte calls.
DetectsExactlyVisible ==
  packet # <<>> =>
    \A p \in Lane :
      outIds[p] # 0 <=>
        \E g \in Group : \E r \in DOMAIN Rules[g] : VisibleAt(g, r, EndOf(p))

\* When several rules end at the same byte only one is reported: the last rule
\* of the first group that has one (local_best is overwritten, final_id is not).
ReportsPriorityRule ==
  \A p \in Lane :
    outIds[p] # 0 =>
      \E g \in Group : \E r \in DOMAIN Rules[g] :
        /\ outIds[p] = Rules[g][r].id
        /\ VisibleAt(g, r, EndOf(p))
        /\ \A q \in DOMAIN Rules[g] : q > r => ~VisibleAt(g, q, EndOf(p))
        /\ \A h \in Group : h < g =>
             \A q \in DOMAIN Rules[h] : ~VisibleAt(h, q, EndOf(p))

\* Expected to be violated: a pattern planted anywhere in a packet is reported where it
\* ends, from offset 0 on.  (vnx-basic.ipynb:391, 491-493)
DetectsEveryPlanted ==
  packet # <<>> =>
    \A p \in Lane, g \in Group :
      (\E r \in DOMAIN Rules[g] : OccursAt(g, r, EndOf(p))) => outIds[p] # 0
=============================================================================

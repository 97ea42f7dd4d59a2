-------------------------- MODULE ProjectPipeline --------------------------
(***************************************************************************)
(* The kernels of the project configuration in a row, as the host starts   *)
(* them: krnl_mm2s cuts a buffer into packets, krnl_proj answers every beat*)
(* with report beats and every packet with a closing beat, krnl_s2mm stores*)
(* what arrives until it has seen num_packets closing beats.  The three    *)
(* kernels and the host count packets each on their own.                   *)
(*                                                                         *)
(* krnl_proj is taken at the grain of beats: module PatternKernel is the   *)
(* detailed one.  Sizes are in bytes; unsigned arithmetic wraps at Modulus.*)
(***************************************************************************)
EXTENDS Integers, Sequences, FiniteSets

CONSTANTS
  BeatBytes,     \* bytes of a beat (DWIDTH / 8)
  PacketBytes,   \* payload of a packet (1408)
  Modulus,       \* 2 ^ width of unsigned int
  Slots,         \* matches in a report beat
  MaxMatches,    \* matches an input beat can have
  Sizes,         \* sizes the host asks krnl_mm2s to send
  OutFactor,     \* bytes of report buffer per byte of input
  StreamDepth    \* beats a stream holds

ASSUME PipelineAssumption ==
  /\ {BeatBytes, PacketBytes, Modulus, Slots, StreamDepth} \subseteq Nat \ {0}
  /\ {MaxMatches, OutFactor} \subseteq Nat
  /\ Sizes \subseteq 0 .. Modulus - 1
  /\ PacketBytes % BeatBytes = 0

VARIABLES
  size,         \* krnl_mm2s: bytes to send
  i,            \* krnl_mm2s: beats sent
  n2k,          \* stream krnl_mm2s -> krnl_proj: TLAST of each beat
  projPkt,      \* krnl_proj: packets closed
  backlog,      \* krnl_proj: report beats it still has to write
  k2n,          \* stream krnl_proj -> krnl_s2mm
  p,            \* krnl_s2mm: packets received
  out,          \* krnl_s2mm: beats stored; w is its length
  \* history variables
  lasts,        \* krnl_mm2s: the values of i at which TLAST was set
  delivered     \* krnl_s2mm: beats read from k2n

vars == <<size, i, n2k, projPkt, backlog, k2n, p, out, lasts, delivered>>

----------------------------------------------------------------------------
\* Mutant: the host does not count the rest of the buffer as a packet.
NumPacketsFull(bytes) == bytes \div PacketBytes

\* The host computes the arguments of the other kernels from the size.
NumPackets(bytes) == (bytes + PacketBytes - 1) \div PacketBytes

num_packets == NumPackets(size)
size_out    == OutFactor * size

Beats == size \div BeatBytes

\* (((i + 1) * DWIDTH/8) % 1408) == 0, where the product is cut to the width of
\* unsigned int before the division.
AtPacketEnd(k) == ((((k + 1) * BeatBytes * 8) % Modulus) \div 8) % PacketBytes = 0

\* Mutant: the last piece of data gets no TLAST of its own.
LastOfFull(k) == AtPacketEnd(k)

\* v.last of beat k.
Last(k) == k = Beats - 1 \/ AtPacketEnd(k)

\* What krnl_proj writes for an input beat with n matches.
ReportOf(n, last) ==
  [b \in 1 .. (n + Slots - 1) \div Slots |-> "matches"]
    \o (IF last THEN <<"close">> ELSE <<>>)

Init ==
  /\ size \in Sizes
  /\ i = 0 /\ n2k = <<>>
  /\ projPkt = 0 /\ backlog = <<>> /\ k2n = <<>>
  /\ p = 0 /\ out = <<>>
  /\ lasts = {} /\ delivered = <<>>

----------------------------------------------------------------------------
\* krnl_mm2s: one turn of its loop.
SendBeat ==
  /\ i < Beats /\ Len(n2k) < StreamDepth
  /\ n2k' = Append(n2k, Last(i))
  /\ i'   = i + 1
  /\ lasts' = IF Last(i) THEN lasts \cup {i} ELSE lasts
  /\ UNCHANGED <<size, projPkt, backlog, k2n, p, out, delivered>>

\* krnl_proj: scan a beat.
ScanBeat ==
  /\ projPkt < num_packets /\ backlog = <<>> /\ n2k # <<>>
  /\ \E n \in 0 .. MaxMatches : backlog' = ReportOf(n, Head(n2k))
  /\ n2k' = Tail(n2k)
  /\ UNCHANGED <<size, i, projPkt, k2n, p, out, lasts, delivered>>

\* krnl_proj: write a report beat.
WriteReport ==
  /\ backlog # <<>> /\ Len(k2n) < StreamDepth
  /\ k2n'     = Append(k2n, Head(backlog))
  /\ backlog' = Tail(backlog)
  /\ projPkt' = IF Head(backlog) = "close" THEN projPkt + 1 ELSE projPkt
  /\ UNCHANGED <<size, i, n2k, p, out, lasts, delivered>>

\* Mutant: no check against the size of the buffer.
StoreBeatUnchecked ==
  /\ p < num_packets /\ k2n # <<>>
  /\ k2n' = Tail(k2n)
  /\ delivered' = Append(delivered, Head(k2n))
  /\ out' = Append(out, Head(k2n))
  /\ p'   = IF Head(k2n) = "close" THEN p + 1 ELSE p
  /\ UNCHANGED <<size, i, n2k, projPkt, backlog, lasts>>

\* krnl_s2mm: take a beat, store it while there is room, always drain.
StoreBeat ==
  /\ p < num_packets /\ k2n # <<>>
  /\ k2n' = Tail(k2n)
  /\ delivered' = Append(delivered, Head(k2n))
  /\ out' = IF Len(out) < size_out \div BeatBytes
            THEN Append(out, Head(k2n)) ELSE out
  /\ p'   = IF Head(k2n) = "close" THEN p + 1 ELSE p
  /\ UNCHANGED <<size, i, n2k, projPkt, backlog, lasts>>

\* The host sees all three kernels done.
Done == i = Beats /\ projPkt = num_packets /\ p = num_packets

Idle == Done /\ UNCHANGED vars

Next == SendBeat \/ ScanBeat \/ WriteReport \/ StoreBeat \/ Idle

Spec == Init /\ [][Next]_vars

\* Each kernel is a free-running circuit.
FairSpec ==
  Spec /\ WF_vars(SendBeat) /\ WF_vars(ScanBeat) /\ WF_vars(WriteReport)
       /\ WF_vars(StoreBeat)

----------------------------------------------------------------------------
\* No kernel counts more beats or packets than the host asked for, and the
\* streams keep to their depth.
TypeOK ==
  /\ size \in Sizes
  /\ i \in 0 .. Beats
  /\ n2k \in Seq(BOOLEAN) /\ Len(n2k) <= StreamDepth
  /\ projPkt \in 0 .. num_packets /\ p \in 0 .. num_packets
  /\ backlog \in Seq({"matches", "close"})
  /\ k2n \in Seq({"matches", "close"}) /\ Len(k2n) <= StreamDepth
  /\ out \in Seq({"matches", "close"}) /\ delivered \in Seq({"matches", "close"})

\* The report buffer of krnl_s2mm holds a prefix of what arrived: nothing is
\* written past size_out, nothing is skipped and stored later (krnl_s2mm.cpp,
\* the best-effort store).
StoredIsPrefix ==
  /\ Len(out) * BeatBytes <= size_out
  /\ out = SubSeq(delivered, 1, Len(out))
  /\ Len(out) < Len(delivered) => (Len(out) + 1) * BeatBytes > size_out

\* The ends of packets among the beats of a stream of either kind.
Ends(stream)   == Cardinality({k \in DOMAIN stream : stream[k]})
Closes(stream) == Cardinality({k \in DOMAIN stream : stream[k] = "close"})

\* Sizes in whole beats whose bits, which krnl_mm2s computes with, fit unsigned int.
Regular == size % BeatBytes = 0 /\ size * 8 < Modulus

\* The packets that three kernels and the host count each on their own are the same:
\* every packet krnl_mm2s has ended is closed once by krnl_proj and counted once by
\* krnl_s2mm, or is on its way between them, and when a regular size has been sent the
\* packets are as many as the host has told the other kernels to wait for.
\* (krnl_mm2s.cpp:78, krnl_proj.cpp:139-147, krnl_s2mm.cpp:68,
\* vnx-benchmark-project.ipynb:140)
PacketsAgree ==
  /\ Cardinality(lasts) = projPkt + Closes(backlog) + Ends(n2k)
  /\ projPkt = p + Closes(k2n)
  /\ Regular /\ i = Beats => Cardinality(lasts) = num_packets

\* Expected to be violated: TLAST is set "when last piece of data or multiple of 1408
\* bytes", and nowhere else.  (krnl_mm2s.cpp:76-77)
LastAtMultiples ==
  lasts = {e \in 0 .. i - 1 : e = Beats - 1 \/ ((e + 1) * BeatBytes) % PacketBytes = 0}

\* All three kernels return, whatever the matches and however often the buffer
\* overflows: the packets the host expects are the packets that are sent, for sizes in
\* whole beats that do not wrap.
AllDone == <>[]Done
=============================================================================

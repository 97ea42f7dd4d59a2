------------------------- MODULE LatencyCollector -------------------------
(***************************************************************************)
(* collector.cpp: reads the summaries of a latency run, computes the time  *)
(* every packet was under way and gathers the times, Lanes to a vector and *)
(* Rows vectors to the local memory, which goes to global memory whenever  *)
(* it is full and at the end.  One call of the kernel.  The summaries come *)
(* at their own pace through a stream.                                     *)
(*                                                                         *)
(* A summary is the pair of timestamps, or Closing.  A cell nothing was    *)
(* written to holds Unset.  nextId and total_consecutive are left out:     *)
(* nothing reads them.                                                     *)
(***************************************************************************)
EXTENDS Integers, Sequences

CONSTANTS
  Lanes,       \* 16: times in a vector
  Rows,        \* 64: vectors in the local memory
  Stamps,      \* 2^40: values of a timestamp
  Latencies,   \* 2^32: values of a time
  Times,       \* times packets may be under way
  Unset, Closing,
  Depth,       \* entries of the stream's FIFO
  MaxPackets   \* bound: summaries before the closing one

ASSUME SizeAssumption ==
  /\ {Lanes, Rows, Stamps, Latencies} \subseteq Nat \ {0}
  /\ Stamps % Latencies = 0
ASSUME TimesAssumption == \A t \in Times : t \in 0 .. Stamps - 1

\* What the stream carries of a packet: when it left and when it came back.
Summaries == [tx : 0 .. Stamps - 1, rx : 0 .. Stamps - 1]

ASSUME ClosingAssumption == Closing \notin Summaries /\ Unset \notin Nat

VARIABLES
  stream,        \* summary
  local_mem, vector_word, total_pkts_reg, move_data, end_loop,
  out,           \* global memory
  received_packets,
  rtts, closed   \* the sender's: the times of the packets so far, and its end

collectorVars == <<stream, local_mem, vector_word, total_pkts_reg, move_data, end_loop,
                   out, received_packets, rtts, closed>>

Row  == 0 .. Rows - 1
Lane == 0 .. Lanes - 1

CollectorInit ==
  /\ stream = << >>
  /\ vector_word = [i \in Lane |-> Unset]
  /\ local_mem = [j \in Row |-> [i \in Lane |-> Unset]]
  /\ total_pkts_reg = 0 /\ move_data = FALSE /\ end_loop = FALSE
  /\ out = << >> /\ received_packets = Unset
  /\ rtts = << >> /\ closed = FALSE

----------------------------------------------------------------------------
Latency(s) == (s.rx - s.tx) % Latencies

RowOf(n) == (n \div Lanes) % Rows

\* Mutant: a full memory is noticed a packet late.
FullLate(n) == n % (Lanes * Rows) = 1
Full(n) == n % (Lanes * Rows) = 0

\* The first n vectors of the local memory, in their order.
FirstRows(n) == [k \in 1 .. n |-> local_mem[k - 1]]

\* data_mover: the whole local memory.
MoveLocalMemory ==
  /\ ~end_loop /\ move_data
  /\ move_data' = FALSE
  /\ out' = out \o FirstRows(Rows)
  /\ UNCHANGED <<stream, local_mem, vector_word, total_pkts_reg, end_loop,
                 received_packets, rtts, closed>>

\* A time goes to its lane of the vector, the vector as it is to its row.
ReadSummary ==
  /\ ~end_loop /\ ~move_data /\ stream # << >> /\ Head(stream) # Closing
  /\ stream' = Tail(stream)
  /\ vector_word' = [vector_word EXCEPT ![total_pkts_reg % Lanes] = Latency(Head(stream))]
  /\ local_mem' = [local_mem EXCEPT ![RowOf(total_pkts_reg)] = vector_word']
  /\ total_pkts_reg' = total_pkts_reg + 1
  /\ move_data' = Full(total_pkts_reg + 1)
  /\ UNCHANGED <<end_loop, out, received_packets, rtts, closed>>

ReadClosing ==
  /\ ~end_loop /\ ~move_data /\ stream # << >> /\ Head(stream) = Closing
  /\ stream' = Tail(stream)
  /\ end_loop' = TRUE
  /\ UNCHANGED <<local_mem, vector_word, total_pkts_reg, move_data, out,
                 received_packets, rtts, closed>>

\* Mutant: a row that is not full is not moved.
OccupancyFull(n) == RowOf(n)

Occupancy(n) == RowOf(n) + (IF n % Lanes # 0 THEN 1 ELSE 0)

\* data_mover_partial, and the kernel returns.
MoveRest ==
  /\ end_loop /\ received_packets = Unset
  /\ out' = out \o FirstRows(Occupancy(total_pkts_reg))
  /\ received_packets' = total_pkts_reg
  /\ UNCHANGED <<stream, local_mem, vector_word, total_pkts_reg, move_data, end_loop,
                 rtts, closed>>

collector == MoveLocalMemory \/ ReadSummary \/ ReadClosing \/ MoveRest

----------------------------------------------------------------------------
\* The traffic generator, external: it stamps a packet when it leaves and when it
\* comes back, with a counter that may wrap in between.
Summarise ==
  /\ ~closed /\ Len(stream) < Depth /\ Len(rtts) < MaxPackets
  /\ \E tx \in 0 .. Stamps - 1, time \in Times :
       /\ stream' = Append(stream, [tx |-> tx, rx |-> (tx + time) % Stamps])
       /\ rtts' = Append(rtts, time)
  /\ UNCHANGED <<local_mem, vector_word, total_pkts_reg, move_data, end_loop, out,
                 received_packets, closed>>

Close ==
  /\ ~closed /\ Len(stream) < Depth
  /\ closed' = TRUE /\ stream' = Append(stream, Closing)
  /\ UNCHANGED <<local_mem, vector_word, total_pkts_reg, move_data, end_loop, out,
                 received_packets, rtts>>

\* The call is over; anything else that stands still is a deadlock.
Returned == received_packets # Unset /\ UNCHANGED collectorVars

CollectorNext == collector \/ Summarise \/ Close \/ Returned

CollectorSpec == CollectorInit /\ [][CollectorNext]_collectorVars

----------------------------------------------------------------------------
\* What global memory holds: the lanes of its vectors, one after the other.
Cells   == 1 .. Len(out) * Lanes
Cell(k) == out[(k - 1) \div Lanes + 1][(k - 1) % Lanes]

\* At any time the vectors that have been moved hold the times of the first packets,
\* in their order, none twice and none skipped.  When the kernel returns,
\* received_packets is the number of packets of the run and global memory starts with
\* the time of each of them, also when the timestamps wrapped and when the last vector
\* is not full.  (Benchmark_kernel/README.md:79-81)
AllCollected ==
  IF received_packets = Unset
  THEN Cells \subseteq DOMAIN rtts /\ \A k \in Cells : Cell(k) = rtts[k] % Latencies
  ELSE
    /\ received_packets = Len(rtts)
    /\ \A k \in DOMAIN rtts : k \in Cells /\ Cell(k) = rtts[k] % Latencies
    /\ Len(out) <= (Len(rtts) + Lanes - 1) \div Lanes
=============================================================================

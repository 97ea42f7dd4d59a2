-------------------------- MODULE PacketCounters --------------------------
(***************************************************************************)
(* krnl_counters.cpp: a free running kernel that passes a stream on and    *)
(* counts its packets, beats and bytes, and CounterIP of vnx_utils.py,     *)
(* which resets the counters by writing 0, 1, 0 to a register.  One call of*)
(* the kernel is one step; the sender, the receiver and the host go at     *)
(* their own pace.                                                         *)
(***************************************************************************)
EXTENDS Totals, FiniteSetsExt

CONSTANTS
  Counts,    \* 2^32: the number of values of a counter
  Keeps,     \* the TKEEP masks that arrive, each a set of byte positions
  None,      \* no beat
  MaxBeats   \* bound: beats sent in a behavior

ASSUME KeepsAssumption == \A keep \in Keeps : keep \subseteq 0 .. 63

ASSUME CountsAssumption == Counts \in Nat \ {0}

VARIABLES
  in, out,           \* the streams' registers: a beat or None
  pkts_i, beats_i, bytes_i, reset_1d,
  reset,             \* the control register
  host,              \* the values reset_counters has left to write
  sent, received,    \* for the properties: all beats, in order
  since              \* for the properties: beats sent before the last reset

counters == <<pkts_i, beats_i, bytes_i>>
counterVars == <<in, out, counters, reset_1d, reset, host, sent, received, since>>

Beat == [keep : Keeps, last : BOOLEAN]

ASSUME NoBeatAssumption == None \notin Beat

CountersInit ==
  /\ in = None /\ out = None
  /\ pkts_i = 0 /\ beats_i = 0 /\ bytes_i = 0 /\ reset_1d = FALSE
  /\ reset = FALSE /\ host = << >>
  /\ sent = << >> /\ received = << >> /\ since = 0

\* Mutant: the number of bytes that are set, holes not counted.
keep2lenOnes(keep) == Cardinality(keep)

\* The bytes up to the highest one that is set.
keep2len(keep) == IF keep = {} THEN 0 ELSE Max(keep) + 1

----------------------------------------------------------------------------
\* Mutant: the call does not wait for the receiver.
MayPassUnchecked == in # None

MayPass == in # None /\ out = None

CountOn(count, n) == (count + n) % Counts

\* A call that finds a beat waits until it can pass it on.
Pass ==
  /\ MayPass
  /\ out' = in /\ in' = None
  /\ beats_i' = CountOn(beats_i, 1)
  /\ bytes_i' = CountOn(bytes_i, keep2len(in.keep))
  /\ pkts_i' = IF in.last THEN CountOn(pkts_i, 1) ELSE pkts_i
  /\ UNCHANGED since

ResetOrIdle ==
  /\ in = None
  /\ IF reset /\ ~reset_1d
     THEN pkts_i' = 0 /\ beats_i' = 0 /\ bytes_i' = 0 /\ since' = Len(sent)
     ELSE UNCHANGED <<counters, since>>
  /\ UNCHANGED <<in, out>>

krnl_counters ==
  /\ Pass \/ ResetOrIdle
  /\ reset_1d' = reset
  /\ UNCHANGED <<reset, host, sent, received>>

----------------------------------------------------------------------------
ResetCounters ==
  /\ host = << >>
  /\ host' = <<FALSE, TRUE, FALSE>>
  /\ UNCHANGED <<in, out, counters, reset_1d, reset, sent, received, since>>

WriteReset ==
  /\ host # << >>
  /\ reset' = Head(host) /\ host' = Tail(host)
  /\ UNCHANGED <<in, out, counters, reset_1d, sent, received, since>>

Send ==
  /\ in = None /\ Len(sent) < MaxBeats
  /\ \E beat \in Beat : in' = beat /\ sent' = Append(sent, beat)
  /\ UNCHANGED <<out, counters, reset_1d, reset, host, received, since>>

Receive ==
  /\ out # None
  /\ out' = None /\ received' = Append(received, out)
  /\ UNCHANGED <<in, counters, reset_1d, reset, host, sent, since>>

CountersNext == krnl_counters \/ ResetCounters \/ WriteReset \/ Send \/ Receive

CountersSpec == CountersInit /\ [][CountersNext]_counterVars

----------------------------------------------------------------------------
Waiting(slot) == IF slot = None THEN << >> ELSE <<slot>>

\* Every beat is passed on once, in order and unchanged.
PassesOn == sent = received \o Waiting(out) \o Waiting(in)

Passed == received \o Waiting(out)
SinceReset == SubSeq(Passed, since + 1, Len(Passed))

\* The length a mask stands for: the shortest prefix that holds it.
Length(keep) == CHOOSE n \in 0 .. 64 : /\ \A b \in keep : b < n
                                       /\ n = 0 \/ n - 1 \in keep

\* The counters are those of the beats passed on since the last reset that was performed;
\* a rising edge that meets a beat performs none.  (krnl_counters.cpp:77-95)
CountersExact ==
  /\ beats_i = Len(SinceReset) % Counts
  /\ pkts_i = Cardinality({i \in DOMAIN SinceReset : SinceReset[i].last}) % Counts
  /\ bytes_i = Total([i \in DOMAIN SinceReset |-> Length(SinceReset[i].keep)]) % Counts

\* Expected to be violated: the counters are "reseted with a rising edge of reset", so
\* that the call that sees the edge leaves no beat counted but its own.
\* (krnl_counters.cpp:38; vnx_utils.py:902, "Reset internal counters")
EdgeResets ==
  [][reset /\ ~reset_1d /\ reset_1d' => beats_i' <= 1]_counterVars
=============================================================================

-------------------------- MODULE StreamThroughput --------------------------
(***************************************************************************)
(* The stream throughput kernel.  stream_throughput.sv watches a stream    *)
(* that passes through it and, once configured and from the first beat on, *)
(* counts its cycles, packs the counters into a sample every cfg_rate      *)
(* cycles and starts again when the sample is taken.  frontend.cpp is      *)
(* called by the host: it sends the configuration and copies the samples   *)
(* to memory, through the register slice of its input.                     *)
(*                                                                         *)
(* Clock is an edge of the sampler's clock; the front end goes at its own  *)
(* pace.  emit_pending always equals samples_TVALID and is left out.       *)
(***************************************************************************)
EXTENDS Totals, FiniteSets

CONSTANTS
  Modulus,       \* 2^32: the number of values of a counter
  MAX_SAMPLES,
  Requests,      \* the num_samples the host asks for
  Rates,         \* and the rates
  KeepBytes,     \* numbers of bytes a beat may have
  SliceDepth,    \* samples that the front end's input holds
  MaxCalls,      \* bound: calls of the front end
  MaxCycles      \* bound: cycles from one sample to the next

ASSUME ThroughputAssumption ==
  /\ {Modulus, MAX_SAMPLES, SliceDepth} \subseteq Nat \ {0}
  /\ Requests \cup Rates \cup KeepBytes \subseteq Nat

VARIABLES
  cfg_TREADY, sampling_active, started,
  cfg_num_samples, cfg_rate,
  cnt,                         \* the four counters
  sample_count, rate_count,
  samples_TDATA, samples_TVALID,
  pc, total_samples, rate,     \* frontend
  slice, stats_buf,
  calls,                       \* calls made
  unasked,                     \* for the properties: calls that asked for no sample
  seen                         \* for the properties: the cycles since the last sample

sampler == <<cfg_TREADY, sampling_active, started, cfg_num_samples, cfg_rate, cnt,
             sample_count, rate_count, samples_TDATA, samples_TVALID, seen>>
frontend == <<pc, total_samples, rate, stats_buf, calls, unasked>>
vars == <<sampler, frontend, slice>>

Zero == [cycles |-> 0, bytes |-> 0, ready_not_valid |-> 0, valid_not_ready |-> 0]

Init ==
  /\ cfg_TREADY = TRUE /\ sampling_active = FALSE /\ started = FALSE
  /\ cfg_num_samples = 0 /\ cfg_rate = 1 /\ cnt = Zero
  /\ sample_count = 0 /\ rate_count = 0
  /\ samples_TDATA = Zero /\ samples_TVALID = FALSE
  /\ pc = "idle" /\ total_samples = 0 /\ rate = 0
  /\ slice = << >> /\ stats_buf = << >>
  /\ calls = 0 /\ unasked = 0 /\ seen = << >>

----------------------------------------------------------------------------
(***************************************************************************)
(* The sampler.  A cycle of the stream is what it snoops.                  *)
(***************************************************************************)
Cycles ==
  {c \in [valid : BOOLEAN, ready : BOOLEAN, bytes : KeepBytes \cup {0}] :
     c.bytes # 0 <=> c.valid /\ c.ready}

Transfer(c) == c.valid /\ c.ready

Plus(count, n) == (count + n) % Modulus
Tick(count, condition) == IF condition THEN Plus(count, 1) ELSE count

Counted(c) ==
  [cycles          |-> Plus(cnt.cycles, 1),
   bytes           |-> Plus(cnt.bytes, c.bytes),
   ready_not_valid |-> Tick(cnt.ready_not_valid, ~c.valid /\ c.ready),
   valid_not_ready |-> Tick(cnt.valid_not_ready, c.valid /\ ~c.ready)]

\* Mutant: the rate is taken as it comes.
SaneRateAny(r) == r

\* A rate of 0 is taken as 1.
SaneRate(r) == IF r = 0 THEN 1 ELSE r

TakeConfig ==
  /\ ~sampling_active /\ pc = "write" /\ cfg_TREADY
  /\ cfg_num_samples' = total_samples
  /\ cfg_rate' = SaneRate(rate)
  /\ cnt' = Zero /\ sample_count' = 0 /\ rate_count' = 0
  /\ started' = FALSE /\ sampling_active' = TRUE
  /\ samples_TVALID' = FALSE /\ cfg_TREADY' = FALSE
  /\ pc' = "copy" /\ seen' = << >>
  /\ UNCHANGED <<samples_TDATA, total_samples, rate, stats_buf, calls, unasked, slice>>

Idle ==
  /\ ~sampling_active /\ ~(pc = "write" /\ cfg_TREADY)
  /\ cfg_TREADY' = TRUE
  /\ UNCHANGED <<sampling_active, started, cfg_num_samples, cfg_rate, cnt, sample_count,
                 rate_count, samples_TDATA, samples_TVALID, seen, frontend, slice>>

Prepares == started /\ rate_count = cfg_rate - 1

\* Mutant: the counters start again when the sample is packed.
NextCountersAtPack(c, taken) ==
  IF Prepares THEN Zero ELSE IF started THEN Counted(c) ELSE cnt

NextCounters(c, taken) ==
  IF taken THEN Zero ELSE IF started THEN Counted(c) ELSE cnt

\* Mutant: one sample too many.
LastSampleLate == sample_count >= cfg_num_samples

LastSample == sample_count + 1 >= cfg_num_samples

\* The sample is packed again in every cycle in which it waits.
Sample(c, samples_TREADY) ==
  LET taken == samples_TVALID /\ samples_TREADY
      last  == taken /\ LastSample
  IN  /\ sampling_active
      /\ taken \/ Len(seen) < MaxCycles
      /\ started' = (~last /\ (started \/ Transfer(c)))
      /\ cnt' = NextCounters(c, taken)
      /\ samples_TDATA' = IF Prepares THEN cnt ELSE samples_TDATA
      /\ samples_TVALID' = (~taken /\ (samples_TVALID \/ Prepares))
      /\ rate_count' = IF taken THEN 0
                       ELSE IF started /\ ~Prepares THEN rate_count + 1
                       ELSE rate_count
      /\ sample_count' = IF taken THEN sample_count + 1 ELSE sample_count
      /\ sampling_active' = ~last /\ cfg_TREADY' = last
      /\ slice' = IF taken THEN Append(slice, samples_TDATA) ELSE slice
      /\ seen' = IF taken THEN << >> ELSE IF started THEN Append(seen, c) ELSE seen
      /\ UNCHANGED <<cfg_num_samples, cfg_rate, frontend>>

Room == Len(slice) < SliceDepth

Clock ==
  \/ TakeConfig
  \/ Idle
  \/ \E c \in Cycles, samples_TREADY \in {FALSE, Room} : Sample(c, samples_TREADY)

----------------------------------------------------------------------------
(***************************************************************************)
(* The front end.                                                          *)
(***************************************************************************)
Capped(num_samples) == IF num_samples > MAX_SAMPLES THEN MAX_SAMPLES ELSE num_samples

Call ==
  /\ pc = "idle" /\ calls < MaxCalls
  /\ \E num_samples \in Requests, r \in Rates :
       total_samples' = Capped(num_samples) /\ rate' = r
  /\ pc' = "write" /\ stats_buf' = << >> /\ calls' = calls + 1
  /\ UNCHANGED <<sampler, slice, unasked>>

Full == Len(stats_buf) = total_samples

CopySample ==
  /\ pc = "copy" /\ ~Full /\ slice # << >>
  /\ stats_buf' = Append(stats_buf, Head(slice)) /\ slice' = Tail(slice)
  /\ UNCHANGED <<sampler, pc, total_samples, rate, calls, unasked>>

Return ==
  /\ pc = "copy" /\ Full
  /\ pc' = "idle"
  /\ unasked' = IF total_samples = 0 THEN unasked + 1 ELSE unasked
  /\ UNCHANGED <<sampler, total_samples, rate, stats_buf, calls, slice>>

Next == Clock \/ Call \/ CopySample \/ Return

Spec == Init /\ [][Next]_vars

\* Traffic: there are always more cycles in which a beat is transferred and the
\* front end, if it has room, takes what is offered.
Flow == TakeConfig \/ \E c \in Cycles : Transfer(c) /\ Sample(c, Room)

FairSpec == Spec /\ WF_vars(Flow) /\ WF_vars(CopySample) /\ WF_vars(Return)

----------------------------------------------------------------------------
Number(cycles, P(_)) == Cardinality({k \in DOMAIN cycles : P(cycles[k])}) % Modulus

Tally(cycles) ==
  [cycles          |-> Len(cycles) % Modulus,
   bytes           |-> Total([k \in DOMAIN cycles |-> cycles[k].bytes]) % Modulus,
   ready_not_valid |-> Number(cycles, LAMBDA c : c.ready /\ ~c.valid),
   valid_not_ready |-> Number(cycles, LAMBDA c : c.valid /\ ~c.ready)]

\* A sample on offer counts every cycle since the last one was taken, or since the
\* first beat, but the one in which it was packed, however often it was packed
\* again while the front end was not ready; so one that is taken misses exactly two
\* (stream_throughput.sv:142-187).
SampleExact ==
  samples_TVALID => samples_TDATA = Tally(SubSeq(seen, 1, Len(seen) - 1))

\* The samples the sampler still has to give: it gives one even if asked for none.
ToGive ==
  IF ~sampling_active THEN 0
  ELSE (IF cfg_num_samples = 0 THEN 1 ELSE cfg_num_samples) - sample_count

\* When the front end has returned, what the sampler has still to give and what waits
\* in the slice are together one sample for every call so far that asked for none, which
\* later calls take for their own; without such a call the sampler is ready for the next
\* one and nothing is left.  (frontend.cpp:23-28, stream_throughput.sv:182)
LeftOverExact ==
  pc = "idle" =>
    /\ Len(slice) + ToGive = unasked
    /\ unasked = 0 => cfg_TREADY /\ ~sampling_active /\ ~samples_TVALID

\* Every call returns, unless more calls have asked for no sample than the slice holds
\* samples: the sampler then never gets rid of its last one and takes no configuration.
Returns == pc # "idle" ~> pc = "idle" \/ unasked > SliceDepth
=============================================================================

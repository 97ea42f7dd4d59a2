--------------------------- MODULE MCStreamStages ---------------------------
(***************************************************************************)
(* The kernels a stream passes through, for TLC: krnl_counters, the        *)
(* registers and the padding of FrameStages, and the stream throughput     *)
(* kernel with its front end, each by itself.                              *)
(***************************************************************************)
EXTENDS PacketCounters, FrameStages, StreamThroughput

VARIABLE stages

mcVars == <<stages, counterVars, stageVars, vars>>

MCInit ==
  /\ stages \in {"counters", "frames", "throughput"}
  /\ CountersInit /\ StageInit /\ Init
  /\ stages # "frames" => inputReg.data[0] = 0

CountersTurn == stages = "counters" /\ CountersNext /\ UNCHANGED <<stages, stageVars, vars>>
FramesTurn == stages = "frames" /\ StageNext /\ UNCHANGED <<stages, counterVars, vars>>

Throughput(Action) ==
  stages = "throughput" /\ Action /\ UNCHANGED <<stages, counterVars, stageVars>>

MCNext == CountersTurn \/ FramesTurn \/ Throughput(Next)

MCSpec == MCInit /\ [][MCNext]_mcVars

\* The fairness of StreamThroughput.
MCFairSpec ==
  /\ MCSpec
  /\ WF_mcVars(Throughput(Flow))
  /\ WF_mcVars(Throughput(CopySample))
  /\ WF_mcVars(Throughput(Return))
=============================================================================

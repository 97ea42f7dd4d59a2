----------------------------- MODULE MCBenchmark -----------------------------
(***************************************************************************)
(* The benchmark kernels for TLC: the traffic generator, and the collector *)
(* of its summaries, each by itself.                                       *)
(***************************************************************************)
EXTENDS TrafficGenerator, LatencyCollector

VARIABLE kernel

mcVars == <<kernel, vars, collectorVars>>

\* While the collector runs the generator stands still in one of its initial states.
MCInit ==
  /\ kernel \in {"generator", "collector"}
  /\ Init /\ CollectorInit
  /\ kernel = "collector" =>
       summary_tready /\ regs = CHOOSE c \in Config : TRUE

GeneratorTurn == kernel = "generator" /\ Next /\ UNCHANGED <<kernel, collectorVars>>
CollectorTurn == kernel = "collector" /\ CollectorNext /\ UNCHANGED <<kernel, vars>>

MCNext == GeneratorTurn \/ CollectorTurn

MCSpec == MCInit /\ [][MCNext]_mcVars

\* The fairness of TrafficGenerator.
MCFairSpec ==
  /\ MCSpec /\ WF_mcVars(GeneratorTurn)
  /\ []<>(kernel = "generator" => k2n_tready)
  /\ []<>(kernel = "generator" => summary_tready)
  /\ []<>(kernel = "generator" => net = << >>)
=============================================================================

------------------------------ MODULE MCProject ------------------------------
(***************************************************************************)
(* The project configuration for TLC: its kernels in a row, and the        *)
(* register block the host sets the addresses of the interface in, each by *)
(* itself.                                                                 *)
(***************************************************************************)
EXTENDS ProjectPipeline, InterfaceSettings

VARIABLE part

mcVars == <<part, vars, settingsVars>>

\* What does not run stands still in one of its initial states.
MCInit ==
  /\ part \in {"pipeline", "settings"}
  /\ Init /\ SettingsInit
  /\ part = "pipeline" => reg = [r \in Reg |-> Zero]
  /\ part = "settings" => size = 0

PipelineTurn == part = "pipeline" /\ Next /\ UNCHANGED <<part, settingsVars>>
SettingsTurn == part = "settings" /\ SettingsNext /\ UNCHANGED <<part, vars>>

MCNext == PipelineTurn \/ SettingsTurn

MCSpec == MCInit /\ [][MCNext]_mcVars

\* Less than the fairness of ProjectPipeline, which has it for each kernel: some kernel
\* goes on as long as one of them can.  The clock of InterfaceSettings runs.
MCFairSpec == MCSpec /\ WF_mcVars(MCNext)
=============================================================================

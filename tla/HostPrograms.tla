---------------------------- MODULE HostPrograms ----------------------------
(***************************************************************************)
(* The programs on the host for TLC: one that fills the socket table, one  *)
(* that reads the ARP table, the examples ping_fpga and test_link, and the *)
(* test bench's lookup of a rule, each by itself.                          *)
(***************************************************************************)
EXTENDS SocketTable, ArpTable, PingFpga, RuleLookup

VARIABLE runs

hostVars == <<runs, socketVars, arpVars, pingVars, lookupVars>>

Init ==
  /\ runs \in {"sockets", "arp", "examples", "lookup"}
  /\ SocketInit
  /\ IF runs = "arp" THEN ArpInit ELSE ArpInit /\ arp = [e \in ArpEntries |-> Nobody]
  /\ IF runs = "examples" THEN PingInit
     ELSE PingInit /\ program = "test_link" /\ link = [k \in Unit |-> FALSE]
  /\ LookupInit /\ (runs # "lookup" => wanted = 0)

Next ==
  \/ runs = "sockets"  /\ SocketNext /\ UNCHANGED <<runs, arpVars, pingVars, lookupVars>>
  \/ runs = "arp"      /\ ArpNext    /\ UNCHANGED <<runs, socketVars, pingVars, lookupVars>>
  \/ runs = "examples" /\ PingNext   /\ UNCHANGED <<runs, socketVars, arpVars, lookupVars>>
  \/ runs = "lookup"   /\ LookupNext /\ UNCHANGED <<runs, socketVars, arpVars, pingVars>>

Spec == Init /\ [][Next]_hostVars

\* A process on the host is scheduled again and again.
FairSpec ==
  Spec /\ WF_hostVars(runs = "examples" /\ Steps
                       /\ UNCHANGED <<runs, socketVars, arpVars, lookupVars>>)

\* The examples end.
ExamplesReturn == runs = "examples" => AllReturn

MCSocket(theirIP, theirPort, myPort, valid) ==
  [theirIP |-> theirIP, theirPort |-> theirPort, myPort |-> myPort, valid |-> valid]

MCDefault == MCSocket("none", 0, 0, FALSE)
MCSockets == {MCDefault, MCSocket("A", 1, 1, TRUE), MCSocket("B", 2, 1, TRUE),
              MCSocket("A", 2, 2, FALSE)}

MCInterfaces == <<"cmac_0", "cmac_1">>
MCAddresses == <<"101", "102">>
=============================================================================

---------------------------- MODULE PacketReport ----------------------------
(***************************************************************************)
(* What the project kernel promises the host, without FIFOs, lanes or      *)
(* registers: matches found in a packet are reported, each exactly once,   *)
(* before the packet is closed, and packets are closed in order.           *)
(***************************************************************************)
EXTENDS Integers, FiniteSets

CONSTANTS
  Match,   \* possible matches; m.pkt is the number of the packet it is in
  Slots    \* matches an output beat can carry

VARIABLES
  found,     \* matches found so far
  reported,  \* matches sent to the host so far
  closed     \* number of packets whose end has been sent to the host

vars == <<found, reported, closed>>

Init == found = {} /\ reported = {} /\ closed = 0

\* A packet that is closed has been scanned completely.
Find(m) ==
  /\ m \notin found
  /\ m.pkt >= closed
  /\ found' = found \cup {m}
  /\ UNCHANGED <<reported, closed>>

\* One output beat.
Report(S) ==
  /\ S # {} /\ Cardinality(S) <= Slots
  /\ S \subseteq found \ reported
  /\ \A m \in S : m.pkt = closed
  /\ reported' = reported \cup S
  /\ UNCHANGED <<found, closed>>

Close ==
  /\ \A m \in found : m.pkt = closed => m \in reported
  /\ closed' = closed + 1
  /\ UNCHANGED <<found, reported>>

Next ==
  \/ \E m \in Match : Find(m)
  \/ \E S \in SUBSET (found \ reported) : Report(S)
  \/ Close

Spec == Init /\ [][Next]_vars
=============================================================================

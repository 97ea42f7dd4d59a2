------------------------------ MODULE PingFpga ------------------------------
(***************************************************************************)
(* ping_fpga.cpp and test_link.cpp: for every interface of the bitstream,  *)
(* configure the Ethernet core, poll its link and, in ping_fpga, give the  *)
(* interface an address and ping it from a child process.                  *)
(*                                                                         *)
(* A parent waits while its child runs, so that the processes are a stack, *)
(* the last one running.  A child whose execve fails goes on with the loop *)
(* of its parent.  The link goes up and down by itself, and down when the  *)
(* core is reset (set_rs_fec).                                             *)
(***************************************************************************)
EXTENDS Integers, Sequences

CONSTANTS
  Interfaces,     \* compute units of the bitstream, in order
  ip_address,     \* the addresses configured for the host, in order
  None,           \* the address an interface has before
  MaxFlips        \* bound: changes of a link

ASSUME PingAssumption == Len(ip_address) >= Len(Interfaces)

VARIABLES
  program,        \* "ping_fpga" or "test_link"
  processes,      \* the stack: interface, ip_index, tries, pc
  link,           \* per interface: rx_status
  ip,             \* per interface: the address register
  flips

pingVars == <<program, processes, link, ip, flips>>

Unit == DOMAIN Interfaces

Process(k, ip_index, pc) == [unit |-> k, ip_index |-> ip_index, tries |-> 0, pc |-> pc]

PingInit ==
  /\ program \in {"ping_fpga", "test_link"}
  /\ processes = <<Process(1, 1, "configure")>>
  /\ link \in [Unit -> BOOLEAN] /\ ip = [k \in Unit |-> None]
  /\ flips = 0

Depth == Len(processes)
Running == processes[Depth]

At(pc) == processes # << >> /\ Running.pc = pc /\ Running.unit \in Unit

Becomes(process) == processes' = [processes EXCEPT ![Depth] = process]
GoTo(pc) == Becomes([Running EXCEPT !.pc = pc])

NextUnit(process) == Process(process.unit + 1, process.ip_index, "configure")

----------------------------------------------------------------------------
Flip ==
  /\ processes # << >> /\ flips < MaxFlips
  /\ \E k \in Unit : link' = [link EXCEPT ![k] = ~@]
  /\ flips' = flips + 1
  /\ UNCHANGED <<program, processes, ip>>

\* The reset takes the link down, if only until the receiver is aligned again.
set_rs_fec ==
  /\ At("configure") /\ GoTo("poll")
  /\ \E up \in {FALSE, link[Running.unit]} : link' = [link EXCEPT ![Running.unit] = up]
  /\ UNCHANGED <<program, ip, flips>>

Tries == IF program = "ping_fpga" THEN 5 ELSE 6

\* Mutant: the polls are not counted.
CountedNot(tries) == tries

CountPoll(tries) == tries + 1

PollUp ==
  /\ At("poll") /\ link[Running.unit]
  /\ IF program = "ping_fpga" THEN GoTo("address") ELSE Becomes(NextUnit(Running))
  /\ UNCHANGED <<program, link, ip, flips>>

\* An interface without a link is left out, and its address goes to the next.
PollDown ==
  /\ At("poll") /\ ~link[Running.unit]
  /\ IF CountPoll(Running.tries) < Tries
     THEN Becomes([Running EXCEPT !.tries = CountPoll(@)])
     ELSE Becomes(NextUnit(Running))
  /\ UNCHANGED <<program, link, ip, flips>>

update_ip_address ==
  /\ At("address") /\ GoTo("fork")
  /\ ip' = [ip EXCEPT ![Running.unit] = ip_address[Running.ip_index]]
  /\ UNCHANGED <<program, link, flips>>

----------------------------------------------------------------------------
\* Mutant: the index moves on only after a success.
AfterPingKept(process, status) ==
  [NextUnit(process) EXCEPT !.ip_index = IF status = 0 THEN @ + 1 ELSE @]

\* What is printed depends on the status, what is done next does not: the debug
\* dump changes nothing.
AfterPing(process, status) == [NextUnit(process) EXCEPT !.ip_index = @ + 1]

ForkChild ==
  /\ At("fork")
  /\ processes' = Append([processes EXCEPT ![Depth] = [@ EXCEPT !.pc = "wait"]],
                         [Running EXCEPT !.pc = "exec"])
  /\ UNCHANGED <<program, link, ip, flips>>

\* No child: wait fails and status is whatever was on the stack.
ForkFails ==
  /\ At("fork")
  /\ \E status \in {0, 1} : Becomes(AfterPing(Running, status))
  /\ UNCHANGED <<program, link, ip, flips>>

Exec == At("exec") /\ GoTo("ping") /\ UNCHANGED <<program, link, ip, flips>>

ExecFails ==
  /\ At("exec") /\ Becomes([NextUnit(Running) EXCEPT !.ip_index = @ + 1])
  /\ UNCHANGED <<program, link, ip, flips>>

\* The child ends, and with it its parent's wait.
Ends(status) ==
  IF Depth = 1 THEN processes' = << >>
  ELSE processes' = [SubSeq(processes, 1, Depth - 1)
                       EXCEPT ![Depth - 1] = AfterPing(@, status)]

\* ping is answered, is not, or is killed: WEXITSTATUS is 0 then too.
Ping ==
  /\ At("ping")
  /\ \E status \in IF link[Running.unit] THEN {0, 1} ELSE {1} : Ends(status)
  /\ UNCHANGED <<program, link, ip, flips>>

PingKilled == At("ping") /\ Ends(0) /\ UNCHANGED <<program, link, ip, flips>>

Return ==
  /\ processes # << >> /\ Running.unit \notin Unit
  /\ Ends(0)
  /\ UNCHANGED <<program, link, ip, flips>>

Steps == \/ set_rs_fec \/ PollUp \/ PollDown \/ update_ip_address
         \/ ForkChild \/ ForkFails \/ Exec \/ ExecFails \/ Ping \/ PingKilled \/ Return

PingNext == Flip \/ Steps

PingSpec == PingInit /\ [][PingNext]_pingVars

----------------------------------------------------------------------------
\* No two interfaces are given the same address, whichever processes went through
\* the loop and whatever the links did meanwhile (ping_fpga.cpp:204-212, 252).  This
\* takes the at most two interfaces of the bitstreams (ping_fpga.cpp:84-100): with three,
\* a child that goes on with the loop may give the third the address its parent then
\* gives the second.
AddressesDistinct ==
  \A k, l \in Unit : k # l /\ ip[k] = ip[l] => ip[k] = None

\* Every process ends: the polls are bounded and ping is (ping_fpga.cpp:190-231).
AllReturn == <>(processes = << >>)
=============================================================================

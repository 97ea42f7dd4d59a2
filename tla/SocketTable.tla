---------------------------- MODULE SocketTable ----------------------------
(***************************************************************************)
(* The socket table of the network layer and the two copies of it that     *)
(* networklayer.cpp keeps: the list that configure_socket fills and the    *)
(* registers that populate_socket_table writes, one field at a time, while *)
(* the hardware compares every datagram with the entries that are valid.   *)
(*                                                                         *)
(* populate_socket_table() indexes the list with every entry of the        *)
(* hardware; past the end of a shorter list it reads what happens to be    *)
(* there.  get_host_socket, print_socket_table and the counters read only. *)
(***************************************************************************)
EXTENDS Integers, Sequences, FiniteSets

CONSTANTS
  num_sockets_hw,   \* register udp_number_sockets
  Sockets,          \* values of an entry: theirIP, theirPort, myPort, valid
  DefaultSocket,    \* what resize fills the list with, and the registers at first
  MaxCalls          \* bound: calls of the library

\* The four fields of a socket_t that reach the hardware.
SocketFields ==
  [theirIP : {s.theirIP : s \in Sockets}, theirPort : {s.theirPort : s \in Sockets},
   myPort : {s.myPort : s \in Sockets}, valid : BOOLEAN]

ASSUME SocketsAssumption ==
  /\ num_sockets_hw \in Nat \ {0}
  /\ Sockets \subseteq SocketFields
  /\ DefaultSocket \in Sockets /\ ~DefaultSocket.valid

Entries == 0 .. num_sockets_hw - 1

VARIABLES
  sockets,      \* the host's list: entry i is sockets[i + 1]
  table,        \* the registers
  writing,      \* the list a call is writing, << >> when none is
  i, field,     \* the register that is next
  wasValid,     \* whether the entry was valid when the call came to it
  calls,
  asked         \* for the property: what every entry was ever to be

socketVars == <<sockets, table, writing, i, field, wasValid, calls, asked>>

SocketInit ==
  /\ sockets = << >>
  /\ table = [e \in Entries |-> DefaultSocket]
  /\ writing = << >> /\ i = 0 /\ field = 1 /\ wasValid = FALSE
  /\ calls = 0 /\ asked = [e \in Entries |-> {DefaultSocket}]

----------------------------------------------------------------------------
Begins == writing = << >> /\ calls < MaxCalls /\ calls' = calls + 1

\* Past the end of the hardware it throws and leaves the list alone.
configure_socket(index, s) ==
  /\ Begins
  /\ LET resized == [k \in 1 .. index + 1 |-> IF k <= Len(sockets) THEN sockets[k]
                                              ELSE DefaultSocket]
     IN  sockets' = IF index < Len(sockets) THEN [sockets EXCEPT ![index + 1] = s]
                    ELSE IF index < num_sockets_hw THEN [resized EXCEPT ![index + 1] = s]
                    ELSE sockets
  /\ UNCHANGED <<table, writing, i, field, wasValid, asked>>

Write(list) ==
  /\ writing' = list /\ i' = 0 /\ field' = 1 /\ wasValid' = table[0].valid
  /\ asked' = [e \in Entries |-> IF e < Len(list) THEN asked[e] \cup {list[e + 1]}
                                 ELSE asked[e]]
  /\ UNCHANGED <<sockets, table>>

PopulateOwn ==
  /\ Begins
  /\ \E beyond \in Sockets :
       Write([k \in 1 .. num_sockets_hw |-> IF k <= Len(sockets) THEN sockets[k] ELSE beyond])

\* A list that is longer than the table throws, an empty one writes nothing.
PopulateWith(socket_table) ==
  /\ Begins
  /\ IF Len(socket_table) \in 1 .. num_sockets_hw THEN Write(socket_table)
     ELSE UNCHANGED <<sockets, table, writing, i, field, wasValid, asked>>

----------------------------------------------------------------------------
\* Mutant: the entry is made valid before it is written.
FieldsValidFirst == <<"valid", "theirIP", "theirPort", "myPort">>

Fields == <<"theirIP", "theirPort", "myPort", "valid">>

\* One write_register.
WriteField ==
  /\ writing # << >>
  /\ LET name == Fields[field]
     IN  table' = [table EXCEPT ![i] = [@ EXCEPT ![name] = writing[i + 1][name]]]
  /\ IF field < 4 THEN field' = field + 1 /\ UNCHANGED <<i, writing, wasValid>>
     ELSE /\ field' = 1
          /\ IF i + 1 < Len(writing)
             THEN /\ i' = i + 1 /\ wasValid' = table[i + 1].valid
                  /\ UNCHANGED writing
             ELSE writing' = << >> /\ i' = 0 /\ wasValid' = FALSE
  /\ UNCHANGED <<sockets, calls, asked>>

\* What populate_socket_table() reads back and returns: nobody else writes the
\* registers.
socket_dict == [e \in {x \in Entries : table[x].valid} |-> table[e]]

SocketNext ==
  \/ \E index \in 0 .. num_sockets_hw, s \in Sockets : configure_socket(index, s)
  \/ PopulateOwn
  \/ \E n \in 0 .. num_sockets_hw + 1 : \E t \in [1 .. n -> Sockets] : PopulateWith(t)
  \/ WriteField

SocketSpec == SocketInit /\ [][SocketNext]_socketVars

----------------------------------------------------------------------------
\* A datagram is only ever delivered to a socket that a call was to write, were it
\* what lies past the end of the list: an entry that is valid but part one socket
\* and part another is being overwritten by a call that found it valid
\* (networklayer.cpp:191-194, 286-289).
NoTornSocket ==
  \A e \in Entries :
    table[e].valid => table[e] \in asked[e] \/ (writing # << >> /\ e = i /\ wasValid)
=============================================================================

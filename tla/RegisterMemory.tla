-------------------------- MODULE RegisterMemory --------------------------
(***************************************************************************)
(* What a register file promises its master, whatever the slave does in    *)
(* between: registers are written and read one at a time, a write changes  *)
(* exactly the bytes it names, exactly once, and is answered once; a read  *)
(* returns what the register held at one moment between its request and    *)
(* its answer.                                                             *)
(***************************************************************************)
EXTENDS Integers

CONSTANTS Reg, Byte, Val, Unmapped, None

VARIABLES
  mem,      \* the registers
  request,  \* the write asked for, as <<address, bytes>>, or None
  done,     \* a write is performed and its response not taken yet
  bready,   \* the master takes the response of a write
  query,    \* the register to read, or None
  answer,   \* what has been read and not taken yet, or None
  rready    \* the master takes what has been read

vars == <<mem, request, done, bready, query, answer, rready>>

Addr  == Reg \cup {Unmapped}
Word  == [Byte -> Val]
Write == UNION {[S -> Val] : S \in SUBSET Byte}
Requests == (Addr \X Write) \cup {None}

Init ==
  /\ mem \in [Reg -> Word]
  /\ request = None /\ done = FALSE /\ bready = FALSE
  /\ query = None /\ answer = None /\ rready = FALSE

AfterWrite(data, word) ==
  [b \in Byte |-> IF b \in DOMAIN data THEN data[b] ELSE word[b]]

\* The write is performed, its response becomes due.
Perform ==
  /\ request # None /\ ~done
  /\ mem' = [r \in Reg |-> IF r = request[1] THEN AfterWrite(request[2], mem[r])
                                             ELSE mem[r]]
  /\ done' = TRUE
  /\ request' \in Requests

\* The master asks, or takes a response, or both; a request once made stays.
AskOrTake ==
  /\ done' = (done /\ ~bready)
  /\ request' \in IF request = None THEN Requests ELSE {request}
  /\ UNCHANGED mem

\* The register that is asked for is read.
Read ==
  /\ query # None /\ answer = None
  /\ answer' = IF query = Unmapped THEN [b \in Byte |-> 0] ELSE mem[query]
  /\ query' = None

QueryOrTake ==
  /\ answer' = IF rready THEN None ELSE answer
  /\ query' \in IF query = None /\ answer' = None THEN Addr \cup {None} ELSE {query}

Next ==
  /\ Perform \/ AskOrTake
  /\ Read \/ QueryOrTake

Spec == Init /\ [][Next]_vars
=============================================================================

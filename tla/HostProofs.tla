----------------------------- MODULE HostProofs -----------------------------
(***************************************************************************)
(* The programs on the host: the registers of the socket table for any     *)
(* number of entries, any sockets and any calls; the table read_arp_table  *)
(* returns for any sizes and any changes meanwhile; the addresses that     *)
(* ping_fpga gives to one or two interfaces, whatever fails; and the search*)
(* of the rule tables that the test bench of the project kernel makes.     *)
(***************************************************************************)
EXTENDS HostPrograms, SequenceTheorems, WellFoundedInduction, TLAPS

Names == {"theirIP", "theirPort", "myPort", "valid"}

\* Writing one field of a socket.
WithField(r, s, name) == [r EXCEPT ![name] = s[name]]

LEMMA OneField ==
  ASSUME NEW r \in SocketFields, NEW s \in SocketFields, NEW name \in Names
  PROVE  /\ WithField(r, s, name) \in SocketFields
         /\ WithField(r, s, name)[name] = s[name]
         /\ \A other \in Names : other # name => WithField(r, s, name)[other] = r[other]
<1> DEFINE A == {x.theirIP : x \in Sockets}
           B == {x.theirPort : x \in Sockets}
           C == {x.myPort : x \in Sockets}
<1>0. SocketFields = [theirIP : A, theirPort : B, myPort : C, valid : BOOLEAN]
  BY DEF SocketFields
<1> HIDE DEF A, B, C
<1>1. CASE name = "theirIP"
  BY <1>0, <1>1 DEF Names, WithField
<1>2. CASE name = "theirPort"
  BY <1>0, <1>2 DEF Names, WithField
<1>3. CASE name = "myPort"
  BY <1>0, <1>3 DEF Names, WithField
<1>4. CASE name = "valid"
  BY <1>0, <1>4 DEF Names, WithField
<1> QED
  BY <1>1, <1>2, <1>3, <1>4 DEF Names

\* Sockets are the same if their fields are.
LEMMA SameFields ==
  ASSUME NEW r \in SocketFields, NEW s \in SocketFields,
         \A name \in Names : r[name] = s[name]
  PROVE  r = s
<1>1. r.theirIP = s.theirIP /\ r.theirPort = s.theirPort /\ r.myPort = s.myPort
      /\ r.valid = s.valid
  BY DEF Names
<1> QED
  BY <1>1 DEF SocketFields

\* The lists a call writes and the fields it has written so far.
WritingOK ==
  /\ writing \in Seq(Sockets) /\ Len(writing) <= num_sockets_hw
  /\ field \in 1 .. 4
  /\ writing # << >> =>
       /\ i \in 0 .. Len(writing) - 1
       /\ \A k \in 0 .. Len(writing) - 1 : writing[k + 1] \in asked[k]
       /\ \A f \in 1 .. field - 1 : table[i][Fields[f]] = writing[i + 1][Fields[f]]
       /\ wasValid = table[i].valid

\* Only the entry that is being written is not one that was asked for.
EntriesOK ==
  \A e \in Entries : table[e] \in asked[e] \/ (writing # << >> /\ e = i /\ field > 1)

SocketInv ==
  /\ sockets \in Seq(Sockets)
  /\ table \in [Entries -> SocketFields]
  /\ asked \in [Entries -> SUBSET Sockets]
  /\ WritingOK /\ EntriesOK

LEMMA InvSaysNotTorn == SocketInv => NoTornSocket
BY DEF SocketInv, WritingOK, EntriesOK, NoTornSocket

LEMMA SocketsInitially == SocketInit => SocketInv
<1> SUFFICES ASSUME SocketInit PROVE SocketInv
  OBVIOUS
<1> USE SocketsAssumption
<1>1. sockets \in Seq(Sockets) /\ writing \in Seq(Sockets) /\ Len(writing) = 0
  BY DEF SocketInit
<1>2. table \in [Entries -> SocketFields] /\ asked \in [Entries -> SUBSET Sockets]
  BY DEF SocketInit
<1>3. field \in 1 .. 4 /\ writing = << >> /\ \A e \in Entries : table[e] \in asked[e]
  BY DEF SocketInit
<1> QED
  BY <1>1, <1>2, <1>3 DEF SocketInv, WritingOK, EntriesOK

\* A call begins with no field written.
LEMMA WriteBegins ==
  ASSUME SocketInv, writing = << >>, NEW list \in Seq(Sockets),
         Len(list) \in 1 .. num_sockets_hw, Write(list)
  PROVE  SocketInv'
<1> USE SocketsAssumption
<1>1. /\ writing' = list /\ i' = 0 /\ field' = 1 /\ wasValid' = table[0].valid
      /\ UNCHANGED <<sockets, table>>
      /\ asked' = [e \in Entries |-> IF e < Len(list) THEN asked[e] \cup {list[e + 1]}
                                     ELSE asked[e]]
  BY DEF Write
<1>2. \A e \in Entries : e < Len(list) => list[e + 1] \in Sockets
  BY DEF Entries
<1>3. asked' \in [Entries -> SUBSET Sockets]
  BY <1>1, <1>2 DEF SocketInv
<1>4. WritingOK'
  <2>1. \A k \in 0 .. Len(list) - 1 : k \in Entries /\ k < Len(list)
    BY DEF Entries
  <2>2. \A k \in 0 .. Len(list) - 1 : list[k + 1] \in asked'[k]
    BY <1>1, <2>1
  <2>3. 0 \in 0 .. Len(list) - 1 /\ 1 .. field' - 1 = {}
    BY <1>1
  <2>4. wasValid' = table'[i'].valid /\ i' \in 0 .. Len(writing') - 1
    BY <1>1, <2>3
  <2>5. writing' \in Seq(Sockets) /\ Len(writing') <= num_sockets_hw /\ field' \in 1 .. 4
    BY <1>1
  <2>6. \A k \in 0 .. Len(writing') - 1 : writing'[k + 1] \in asked'[k]
    BY <1>1, <2>2
  <2>7. \A f \in 1 .. field' - 1 : table'[i'][Fields[f]] = writing'[i' + 1][Fields[f]]
    BY <2>3
  <2> QED
    BY <2>4, <2>5, <2>6, <2>7 DEF WritingOK
<1>5. EntriesOK'
  <2>1. \A e \in Entries : table[e] \in asked[e]
    BY DEF SocketInv, EntriesOK
  <2>2. \A e \in Entries : asked[e] \subseteq asked'[e]
    BY <1>1
  <2> QED
    BY <1>1, <2>1, <2>2 DEF EntriesOK
<1> QED
  BY <1>1, <1>3, <1>4, <1>5 DEF SocketInv

\* A call that writes nothing.
LEMMA NothingWritten ==
  ASSUME SocketInv, sockets' \in Seq(Sockets),
         UNCHANGED <<table, writing, i, field, wasValid, asked>>
  PROVE  SocketInv'
BY DEF SocketInv, WritingOK, EntriesOK

LEMMA ConfigureStep ==
  ASSUME SocketInv, NEW index \in 0 .. num_sockets_hw, NEW s \in Sockets,
         configure_socket(index, s)
  PROVE  SocketInv'
<1> USE SocketsAssumption
<1> DEFINE resized == [k \in 1 .. index + 1 |-> IF k <= Len(sockets) THEN sockets[k]
                                                ELSE DefaultSocket]
<1>1. sockets \in Seq(Sockets) /\ Len(sockets) \in Nat
  BY DEF SocketInv
<1>2. resized \in Seq(Sockets) /\ index + 1 \in 1 .. Len(resized)
  <2>1. \A k \in 1 .. index + 1 : (IF k <= Len(sockets) THEN sockets[k] ELSE DefaultSocket) \in Sockets
    BY <1>1
  <2> QED
    BY <2>1
<1> HIDE DEF resized
<1>3. [resized EXCEPT ![index + 1] = s] \in Seq(Sockets)
  BY <1>2, ExceptSeq
<1>4. index < Len(sockets) => [sockets EXCEPT ![index + 1] = s] \in Seq(Sockets)
  <2> SUFFICES ASSUME index < Len(sockets) PROVE [sockets EXCEPT ![index + 1] = s] \in Seq(Sockets)
    OBVIOUS
  <2>1. index + 1 \in 1 .. Len(sockets)
    BY <1>1
  <2> QED
    BY <1>1, <2>1, ExceptSeq
<1>5. sockets' \in Seq(Sockets)
  BY <1>1, <1>3, <1>4 DEF configure_socket, resized
<1> QED
  BY <1>5, NothingWritten DEF configure_socket

\* One register: the entry that is written keeps to what it has of the new socket, and
\* with valid it is the new socket.
LEMMA FieldStep ==
  ASSUME SocketInv, WriteField
  PROVE  SocketInv'
<1> USE SocketsAssumption
<1> DEFINE new == writing[i + 1]
<1>1. /\ writing # << >> /\ writing \in Seq(Sockets) /\ Len(writing) \in Nat
      /\ i \in 0 .. Len(writing) - 1 /\ Len(writing) <= num_sockets_hw
      /\ field \in 1 .. 4
  BY DEF WriteField, SocketInv, WritingOK
<1>2. i \in Entries /\ i + 1 \in 1 .. Len(writing)
  BY <1>1 DEF Entries
<1>3. new \in Sockets /\ new \in SocketFields /\ new \in asked[i]
  BY <1>1, <1>2 DEF SocketInv, WritingOK
<1> HIDE DEF new
<1>4. /\ table \in [Entries -> SocketFields] /\ table[i] \in SocketFields
      /\ table' = [table EXCEPT ![i] = [@ EXCEPT ![Fields[field]] = new[Fields[field]]]]
      /\ UNCHANGED <<sockets, asked>>
  BY <1>2 DEF SocketInv, WriteField, new
<1>5. /\ \A e \in Entries : e # i => table'[e] = table[e]
      /\ table'[i] = [table[i] EXCEPT ![Fields[field]] = new[Fields[field]]]
  BY <1>2, <1>4
<1>6. Fields[field] \in Names
  BY <1>1 DEF Fields, Names
<1>11. /\ table'[i] \in SocketFields
      /\ table'[i][Fields[field]] = new[Fields[field]]
      /\ \A other \in Names : other # Fields[field] => table'[i][other] = table[i][other]
  <2>1. table'[i] = WithField(table[i], new, Fields[field])
    BY <1>5 DEF WithField
  <2>2. table[i] \in SocketFields /\ new \in SocketFields /\ Fields[field] \in Names
    BY <1>3, <1>4, <1>6
  <2> DEFINE w == WithField(table[i], new, Fields[field])
  <2>3. w \in SocketFields
    BY <2>2, OneField, Zenon
  <2>4. w[Fields[field]] = new[Fields[field]]
    BY <2>2, OneField, Zenon
  <2>5. \A other \in Names : other # Fields[field] => w[other] = table[i][other]
    BY <2>2, OneField, Zenon
  <2> HIDE DEF w
  <2>6. table'[i] = w
    BY <2>1 DEF w
  <2> QED
    BY <2>3, <2>4, <2>5, <2>6, Zenon
<1>7. table'[i] \in SocketFields /\ table' \in [Entries -> SocketFields]
  BY <1>2, <1>4, <1>11
<1>8. \A f \in 1 .. field : table'[i][Fields[f]] = new[Fields[f]]
  <2> SUFFICES ASSUME NEW f \in 1 .. field PROVE table'[i][Fields[f]] = new[Fields[f]]
    OBVIOUS
  <2>1. CASE f = field
    BY <2>1, <1>11
  <2>2. CASE f # field
    <3>1. table[i][Fields[f]] = new[Fields[f]]
      BY <1>1, <2>2 DEF SocketInv, WritingOK, new
    <3>2. Fields[f] # Fields[field] /\ Fields[f] \in Names
      BY <1>1, <2>2 DEF Fields, Names
    <3> QED
      BY <1>11, <3>1, <3>2
  <2> QED
    BY <2>1, <2>2
<1>9. CASE field < 4
  <2>1. field' = field + 1 /\ UNCHANGED <<i, writing, wasValid>>
    BY <1>9 DEF WriteField
  <2>2. table'[i].valid = table[i].valid
    BY <1>1, <1>9, <1>11 DEF Fields, Names
  <2>3. WritingOK'
    BY <1>1, <1>4, <1>8, <1>9, <2>1, <2>2 DEF SocketInv, WritingOK, new
  <2>4. EntriesOK'
    BY <1>1, <1>4, <1>5, <2>1 DEF SocketInv, EntriesOK
  <2> QED
    BY <1>4, <1>7, <2>3, <2>4 DEF SocketInv
<1>10. CASE field = 4
  <2>1. table'[i] = new
    <3>1. \A name \in Names : \E f \in 1 .. field : Fields[f] = name
      <4>1. Fields[1] = "theirIP" /\ Fields[2] = "theirPort" /\ Fields[3] = "myPort"
            /\ Fields[4] = "valid"
        BY DEF Fields
      <4> QED
        BY <1>10, <4>1 DEF Names
    <3>2. \A name \in Names : table'[i][name] = new[name]
      BY <1>8, <3>1
    <3> QED
      BY <1>3, <1>7, <3>2, SameFields
  <2>2. \A e \in Entries : table'[e] \in asked'[e]
    BY <1>3, <1>4, <1>5, <2>1 DEF SocketInv, EntriesOK
  <2>3. field' = 1
    BY <1>10 DEF WriteField
  <2>4. CASE i + 1 < Len(writing)
    <3>1. i' = i + 1 /\ wasValid' = table[i + 1].valid /\ writing' = writing
      BY <1>10, <2>4 DEF WriteField
    <3>2. i + 1 \in Entries /\ table'[i + 1] = table[i + 1]
      BY <1>1, <1>5, <2>4 DEF Entries
    <3>3. WritingOK'
      BY <1>1, <1>4, <2>3, <2>4, <3>1, <3>2 DEF SocketInv, WritingOK
    <3> QED
      BY <1>4, <1>7, <2>2, <3>3 DEF SocketInv, EntriesOK
  <2>5. CASE ~(i + 1 < Len(writing))
    <3>1. writing' = << >>
      BY <1>10, <2>5 DEF WriteField
    <3>2. WritingOK'
      BY <2>3, <3>1 DEF WritingOK
    <3> QED
      BY <1>4, <1>7, <2>2, <3>2 DEF SocketInv, EntriesOK
  <2> QED
    BY <2>4, <2>5
<1> QED
  BY <1>1, <1>9, <1>10

LEMMA SocketStep == SocketInv /\ [SocketNext]_socketVars => SocketInv'
<1> SUFFICES ASSUME SocketInv, [SocketNext]_socketVars PROVE SocketInv'
  OBVIOUS
<1> USE SocketsAssumption
<1>0. sockets \in Seq(Sockets) /\ Len(sockets) \in Nat
  BY DEF SocketInv
<1>1. ASSUME NEW index \in 0 .. num_sockets_hw, NEW s \in Sockets, configure_socket(index, s)
      PROVE  SocketInv'
  BY <1>1, ConfigureStep
<1>2. CASE PopulateOwn
  <2>1. PICK beyond \in Sockets :
          Write([k \in 1 .. num_sockets_hw |-> IF k <= Len(sockets) THEN sockets[k] ELSE beyond])
    BY <1>2 DEF PopulateOwn
  <2> DEFINE list == [k \in 1 .. num_sockets_hw |-> IF k <= Len(sockets) THEN sockets[k] ELSE beyond]
  <2>2. \A k \in 1 .. num_sockets_hw :
          (IF k <= Len(sockets) THEN sockets[k] ELSE beyond) \in Sockets
    BY <1>0
  <2>3. list \in Seq(Sockets) /\ Len(list) = num_sockets_hw
    BY <2>2
  <2>4. writing = << >> /\ Write(list)
    BY <1>2, <2>1 DEF PopulateOwn, Begins
  <2> HIDE DEF list
  <2> QED
    BY <2>3, <2>4, WriteBegins
<1>3. ASSUME NEW n \in 0 .. num_sockets_hw + 1, NEW t \in [1 .. n -> Sockets], PopulateWith(t)
      PROVE  SocketInv'
  <2>1. t \in Seq(Sockets) /\ writing = << >>
    BY <1>3 DEF PopulateWith, Begins
  <2>2. CASE Len(t) \in 1 .. num_sockets_hw
    BY <1>3, <2>1, <2>2, WriteBegins DEF PopulateWith
  <2>3. CASE ~(Len(t) \in 1 .. num_sockets_hw)
    BY <1>0, <1>3, <2>3, NothingWritten DEF PopulateWith
  <2> QED
    BY <2>2, <2>3
<1>4. CASE WriteField
  BY <1>4, FieldStep
<1>5. CASE UNCHANGED socketVars
  BY <1>0, <1>5, NothingWritten DEF socketVars
<1> QED
  BY <1>1, <1>2, <1>3, <1>4, <1>5 DEF SocketNext

\* For any number of entries, any sockets and any calls: an entry that was not valid
\* before a call came to it is valid only as a socket that was asked for.
THEOREM SocketsNotTorn == SocketSpec => []NoTornSocket
BY InvSaysNotTorn, SocketsInitially, SocketStep, PTL DEF SocketSpec

----------------------------------------------------------------------------
(***************************************************************************)
(* The ARP table.                                                          *)
(***************************************************************************)
Steady == ArpEntries \ Changed

\* Where the read is: the word of valid bits is that of the entry, except where a new
\* word is read next.
ReadPlace ==
  /\ arp \in [ArpEntries -> Peers \cup {Nobody}]
  /\ entry \in 0 .. num_entries
  /\ step \in {"valid", "mac_lsb", "mac_msb", "ip", "done"}
  /\ touched \in Seq(ArpEntries)
  /\ step \in {"mac_lsb", "mac_msb", "ip"} => entry < num_entries /\ entry \in valid_entry
  /\ step = "done" => entry = num_entries
  /\ valid_entry \subseteq ArpEntries
  /\ step \in {"mac_lsb", "mac_msb", "ip"} \/ ~ReadsWord(entry) =>
       \A e \in Steady : e \div WordEntries = entry \div WordEntries =>
         (e \in valid_entry <=> arp[e] # Nobody)

\* What has been read of the entries that stayed as they are, and of the present one.
ReadExact ==
  /\ step \in {"mac_msb", "ip"} /\ entry \in Steady => mac_lsb = arp[entry]
  /\ step = "ip" /\ entry \in Steady => mac_msb = arp[entry]
  /\ \A r \in rows : r[1] \in 0 .. entry - 1
  /\ \A r, s \in rows : r[1] = s[1] => r = s
  /\ \A e \in Steady :
       {r \in rows : r[1] = e} =
         IF e < entry /\ arp[e] # Nobody THEN {<<e, arp[e], arp[e], arp[e]>>} ELSE {}

ArpInv == ReadPlace /\ ReadExact

LEMMA NextInWord ==
  ASSUME NEW n \in Nat, NEW k \in Nat \ {0}, (n + 1) % k # 0
  PROVE  (n + 1) \div k = n \div k
<1> DEFINE q == n \div k
           r == n % k
<1>1. q \in Nat /\ r \in 0 .. k - 1 /\ n = q * k + r
  OBVIOUS
<1>2. ASSUME NEW a \in Nat, NEW b \in 0 .. k - 1
      PROVE  (a * k + b) \div k = a /\ (a * k + b) % k = b
  OBVIOUS
<1> HIDE DEF q, r
<1>3. r + 1 # k
  <2> SUFFICES ASSUME r + 1 = k PROVE FALSE
    OBVIOUS
  <2>1. n + 1 = (q + 1) * k + 0 /\ q + 1 \in Nat /\ 0 \in 0 .. k - 1
    BY <1>1
  <2> QED
    BY <1>2, <2>1
<1>4. n + 1 = q * k + (r + 1) /\ r + 1 \in 0 .. k - 1
  BY <1>1, <1>3
<1>5. (n + 1) \div k = q
  BY <1>1, <1>2, <1>4
<1> QED
  BY <1>5 DEF q

\* A change takes an entry out of those that stay as they are.
LEMMA LearnStep == ArpInv /\ Learn => ArpInv'
<1> SUFFICES ASSUME ArpInv, Learn PROVE ArpInv'
  OBVIOUS
<1>1. PICK e \in ArpEntries, peer \in Peers \cup {Nobody} :
        arp' = [arp EXCEPT ![e] = peer] /\ touched' = Append(touched, e)
  BY DEF Learn
<1>2. UNCHANGED <<entry, step, valid_entry, mac_lsb, mac_msb, rows>>
  BY DEF Learn
<1>3. touched \in Seq(ArpEntries) /\ arp \in [ArpEntries -> Peers \cup {Nobody}]
  BY DEF ArpInv, ReadPlace
<1>4. touched' \in Seq(ArpEntries) /\ arp' \in [ArpEntries -> Peers \cup {Nobody}]
  BY <1>1, <1>3
<1>5. \A x \in Steady' : x \in Steady /\ arp'[x] = arp[x]
  <2>1. Changed' = Changed \cup {e}
    BY <1>1, <1>3 DEF Changed
  <2> QED
    BY <1>1, <1>3, <2>1 DEF Steady
<1>6. ReadPlace'
  BY <1>2, <1>4, <1>5 DEF ArpInv, ReadPlace, ReadsWord
<1>7. ReadExact'
  BY <1>2, <1>5 DEF ArpInv, ReadExact
<1> QED
  BY <1>6, <1>7 DEF ArpInv

LEMMA ValidStep == ArpInv /\ ReadValid => ArpInv'
<1> SUFFICES ASSUME ArpInv, ReadValid PROVE ArpInv'
  OBVIOUS
<1> USE ArpAssumption
<1>1. /\ step = "valid" /\ entry < num_entries
      /\ valid_entry' = IF ReadsWord(entry) THEN {x \in Word(entry) : arp[x] # Nobody}
                        ELSE valid_entry
      /\ IF entry \in valid_entry' THEN step' = "mac_lsb" /\ entry' = entry
         ELSE entry' = entry + 1 /\ step' = step
      /\ UNCHANGED <<arp, mac_lsb, mac_msb, rows, touched>>
  BY DEF ReadValid
<1>2. entry \in Nat /\ num_entries \in Nat /\ WordEntries \in Nat \ {0}
      /\ valid_entry \subseteq ArpEntries
  BY DEF ArpInv, ReadPlace
<1>3. Steady' = Steady /\ Changed' = Changed
  BY <1>1 DEF Steady, Changed
<1>4. \A e \in Steady : e \div WordEntries = entry \div WordEntries =>
        (e \in valid_entry' <=> arp[e] # Nobody)
  <2>1. CASE ReadsWord(entry)
    BY <1>1, <2>1 DEF Word, Steady
  <2>2. CASE ~ReadsWord(entry)
    BY <1>1, <2>2 DEF ArpInv, ReadPlace
  <2> QED
    BY <2>1, <2>2
<1>5. valid_entry' \subseteq ArpEntries
  BY <1>1, <1>2 DEF Word
<1>6. CASE entry \in valid_entry'
  <2>1. ReadPlace'
    BY <1>1, <1>2, <1>3, <1>4, <1>5, <1>6 DEF ArpInv, ReadPlace
  <2>2. ReadExact'
    BY <1>1, <1>3, <1>6 DEF ArpInv, ReadExact
  <2> QED
    BY <2>1, <2>2 DEF ArpInv
<1>7. CASE entry \notin valid_entry'
  <2>1. entry' = entry + 1 /\ step' = "valid"
    BY <1>1, <1>7
  <2>2. ReadPlace'
    <3>1. ~ReadsWord(entry + 1) => (entry + 1) \div WordEntries = entry \div WordEntries
      BY <1>2, NextInWord DEF ReadsWord
    <3>2. ~ReadsWord(entry') =>
            \A e \in Steady' : e \div WordEntries = entry' \div WordEntries =>
              (e \in valid_entry' <=> arp'[e] # Nobody)
      BY <1>1, <1>3, <1>4, <2>1, <3>1
    <3>3. entry' \in 0 .. num_entries
      BY <1>1, <1>2, <2>1
    <3> QED
      BY <1>1, <1>5, <2>1, <3>2, <3>3 DEF ArpInv, ReadPlace, ReadsWord
  <2>3. entry \in Steady => arp[entry] = Nobody
    BY <1>4, <1>7
  <2>4. \A r \in rows : r[1] \in 0 .. entry' - 1
    BY <1>2, <2>1 DEF ArpInv, ReadExact
  <2>5. ASSUME NEW e \in Steady
        PROVE  {r \in rows : r[1] = e} =
                 IF e < entry' /\ arp[e] # Nobody THEN {<<e, arp[e], arp[e], arp[e]>>} ELSE {}
    <3>1. e \in Nat
      BY DEF Steady, ArpEntries
    <3>2. e < entry' /\ arp[e] # Nobody <=> e < entry /\ arp[e] # Nobody
      BY <1>2, <2>1, <2>3, <3>1
    <3> QED
      BY <3>2 DEF ArpInv, ReadExact
  <2>6. ReadExact'
    BY <1>1, <1>3, <2>1, <2>4, <2>5 DEF ArpInv, ReadExact
  <2> QED
    BY <2>2, <2>6 DEF ArpInv
<1> QED
  BY <1>6, <1>7

LEMMA IpStep == ArpInv /\ ReadIp => ArpInv'
<1> SUFFICES ASSUME ArpInv, ReadIp PROVE ArpInv'
  OBVIOUS
<1> USE ArpAssumption
<1> DEFINE row == <<entry, mac_lsb, mac_msb, arp[entry]>>
<1>1. /\ step = "ip" /\ step' = "valid" /\ entry' = entry + 1
      /\ rows' = rows \cup {row}
      /\ UNCHANGED <<arp, valid_entry, mac_lsb, mac_msb, touched>>
  BY DEF ReadIp
<1>2. entry \in Nat /\ entry < num_entries /\ entry \in valid_entry /\ num_entries \in Nat
      /\ WordEntries \in Nat \ {0}
  BY <1>1 DEF ArpInv, ReadPlace
<1>3. Steady' = Steady
  BY <1>1 DEF Steady, Changed
<1>4. \A e \in Steady : e \div WordEntries = entry \div WordEntries =>
        (e \in valid_entry <=> arp[e] # Nobody)
  BY <1>1 DEF ArpInv, ReadPlace
<1>5. ReadPlace'
  <2>1. ~ReadsWord(entry + 1) => (entry + 1) \div WordEntries = entry \div WordEntries
    BY <1>2, NextInWord DEF ReadsWord
  <2>2. ~ReadsWord(entry') =>
          \A e \in Steady' : e \div WordEntries = entry' \div WordEntries =>
            (e \in valid_entry' <=> arp'[e] # Nobody)
    BY <1>1, <1>3, <1>4, <2>1
  <2>3. entry' \in 0 .. num_entries
    BY <1>1, <1>2
  <2> QED
    BY <1>1, <2>2, <2>3 DEF ArpInv, ReadPlace, ReadsWord
<1>6. row[1] = entry
  OBVIOUS
<1>7. entry \in Steady => arp[entry] # Nobody /\ row = <<entry, arp[entry], arp[entry], arp[entry]>>
  <2>1. entry \in Steady => mac_lsb = arp[entry] /\ mac_msb = arp[entry]
    BY <1>1 DEF ArpInv, ReadExact
  <2> QED
    BY <1>2, <1>4, <2>1
<1> HIDE DEF row
<1>8. \A r \in rows : r[1] \in 0 .. entry - 1
  BY DEF ArpInv, ReadExact
<1>9. \A r \in rows' : r[1] \in 0 .. entry' - 1
  BY <1>1, <1>2, <1>6, <1>8
<1>10. \A r, s \in rows' : r[1] = s[1] => r = s
  <2>1. \A r \in rows : r[1] # row[1]
    BY <1>2, <1>6, <1>8
  <2>2. \A r, s \in rows : r[1] = s[1] => r = s
    BY DEF ArpInv, ReadExact
  <2> QED
    BY <1>1, <2>1, <2>2
<1>11. ASSUME NEW e \in Steady
       PROVE  {r \in rows' : r[1] = e} =
                IF e < entry' /\ arp[e] # Nobody THEN {<<e, arp[e], arp[e], arp[e]>>} ELSE {}
  <2>1. e \in Nat
    BY DEF Steady, ArpEntries
  <2>2. {r \in rows : r[1] = e} =
          IF e < entry /\ arp[e] # Nobody THEN {<<e, arp[e], arp[e], arp[e]>>} ELSE {}
    BY DEF ArpInv, ReadExact
  <2>3. CASE e = entry
    <3>1. {r \in rows : r[1] = e} = {}
      BY <1>2, <1>8, <2>3
    <3>2. {r \in rows' : r[1] = e} = {row}
      BY <1>1, <1>6, <2>3, <3>1
    <3> QED
      BY <1>1, <1>2, <1>7, <2>3, <3>2
  <2>4. CASE e # entry
    <3>1. {r \in rows' : r[1] = e} = {r \in rows : r[1] = e}
      BY <1>1, <1>6, <2>4
    <3>2. e < entry' <=> e < entry
      BY <1>1, <1>2, <2>1, <2>4
    <3> QED
      BY <2>2, <3>1, <3>2
  <2> QED
    BY <2>3, <2>4
<1>12. ReadExact'
  BY <1>1, <1>3, <1>9, <1>10, <1>11 DEF ReadExact
<1> QED
  BY <1>5, <1>12 DEF ArpInv

LEMMA ArpStep == ArpInv /\ [ArpNext]_arpVars => ArpInv'
<1> SUFFICES ASSUME ArpInv, [ArpNext]_arpVars PROVE ArpInv'
  OBVIOUS
<1>1. CASE Learn
  BY <1>1, LearnStep
<1>2. CASE ReadValid
  BY <1>2, ValidStep
<1>3. CASE ReadLsb \/ ReadMsb \/ ReturnRows \/ UNCHANGED arpVars
  <2>1. /\ UNCHANGED <<arp, entry, valid_entry, rows, touched>>
        /\ \/ step = "mac_lsb" /\ step' = "mac_msb" /\ mac_lsb' = arp[entry]
           \/ /\ step = "mac_msb" /\ step' = "ip" /\ mac_msb' = arp[entry]
              /\ mac_lsb' = mac_lsb
           \/ step' = "done" /\ entry = num_entries
           \/ step' = step /\ mac_lsb' = mac_lsb /\ mac_msb' = mac_msb
    BY <1>3 DEF ReadLsb, ReadMsb, ReturnRows, arpVars
  <2>2. Steady' = Steady
    BY <2>1 DEF Steady, Changed
  <2>3. ReadPlace'
    BY <2>1, <2>2 DEF ArpInv, ReadPlace, ReadsWord
  <2>4. ReadExact'
    BY <2>1, <2>2 DEF ArpInv, ReadExact
  <2> QED
    BY <2>3, <2>4 DEF ArpInv
<1>4. CASE ReadIp
  BY <1>4, IpStep
<1> QED
  BY <1>1, <1>2, <1>3, <1>4 DEF ArpNext

\* For tables of any size and any number of entries asked for, an entry the hardware
\* leaves alone during the read is returned exactly if it is valid, with its own addresses,
\* and no entry twice, whatever else it learns and forgets (networklayer.cpp:103-141).
THEOREM ArpRowsExact == ArpSpec => []StableRowsExact
<1>1. ArpInit => ArpInv
  <2> SUFFICES ASSUME ArpInit PROVE ArpInv
    OBVIOUS
  <2>1. /\ entry = 0 /\ step = "valid" /\ valid_entry = {} /\ rows = {} /\ touched = << >>
        /\ arp \in [ArpEntries -> Peers \cup {Nobody}]
    BY DEF ArpInit
  <2>2. ReadsWord(entry) /\ entry \in 0 .. num_entries
    BY <2>1, ArpAssumption DEF ReadsWord
  <2>3. touched \in Seq(ArpEntries)
    BY <2>1
  <2>4. ReadPlace
    BY <2>1, <2>2, <2>3 DEF ReadPlace
  <2>5. ASSUME NEW e \in Steady PROVE ~(e < entry)
    BY <2>1 DEF Steady, ArpEntries
  <2>6. ReadExact
    BY <2>1, <2>5 DEF ReadExact
  <2> QED
    BY <2>4, <2>6 DEF ArpInv
<1>2. ArpInv => StableRowsExact
  BY DEF ArpInv, ReadPlace, ReadExact, StableRowsExact, Steady
<1> QED
  BY <1>1, <1>2, ArpStep, PTL DEF ArpSpec

----------------------------------------------------------------------------
Pcs == {"configure", "poll", "address", "fork", "wait", "exec", "ping"}

Proc == [unit : Nat, ip_index : Nat, tries : Nat, pc : Pcs]

\* Places of the loop before the interface has its address.
Before == {"configure", "poll", "address"}

\* What is so of every process of the stack: its index agrees with its interface or is
\* one behind, and only the first of them comes to the first interface by the loop.
Placed(d) ==
  LET p == processes[d] IN
  /\ p.unit >= 1
  /\ p.unit = 1 => p.ip_index = 1
  /\ p.unit = 2 => p.ip_index \in {1, 2}
  /\ p.unit = 1 => d = 1 \/ p.pc \in {"exec", "ping"}
  /\ p.unit = 1 /\ p.pc \in Before /\ 1 \in Unit => ip[1] = None

\* The second interface has the first address, or is about to be given it.
Borrowed ==
  \/ 2 \in Unit /\ ip[2] = ip_address[1]
  \/ \E d \in DOMAIN processes : processes[d].unit = 2 /\ processes[d].ip_index = 1

PingInv ==
  /\ processes \in Seq(Proc)
  /\ DOMAIN ip = Unit
  /\ 1 \in Unit => ip[1] \in {None, ip_address[1]}
  /\ 2 \in Unit => ip[2] \in {None, ip_address[1], ip_address[2]}
  /\ \A d \in DOMAIN processes : Placed(d)
  /\ Borrowed => /\ 1 \in Unit => ip[1] = None
                 /\ \A d \in DOMAIN processes : processes[d].unit >= 2

\* How a process of the next state comes from one of this state, p, at d: it is still at
\* the same interface, or has gone on to the next, with its index or without.
Follows(q, e, p, d) ==
  \/ /\ q.unit = p.unit /\ q.ip_index = p.ip_index
     /\ q.unit = 1 => e = 1 \/ q.pc \in {"exec", "ping"}
     /\ q.unit = 1 /\ q.pc \in Before => p.pc \in Before
  \/ q.unit = p.unit + 1 /\ q.ip_index = p.ip_index + 1
  \/ /\ q.unit = p.unit + 1 /\ q.ip_index = p.ip_index
     /\ p.pc = "poll" /\ e = d /\ Len(processes') = d

LEMMA StackStep ==
  ASSUME PingInv, UNCHANGED ip, processes' \in Seq(Proc),
         \A e \in DOMAIN processes' : \E d \in DOMAIN processes :
           Follows(processes'[e], e, processes[d], d)
  PROVE  PingInv'
<1>1. /\ \A e \in DOMAIN processes' : processes'[e] \in Proc
      /\ \A d \in DOMAIN processes : processes[d] \in Proc
  BY DEF PingInv
<1>2. ASSUME NEW e \in DOMAIN processes' PROVE Placed(e)'
  <2>1. PICK d \in DOMAIN processes : Follows(processes'[e], e, processes[d], d)
    OBVIOUS
  <2>2. Placed(d)
    BY DEF PingInv
  <2>3. /\ processes'[e].unit \in Nat /\ processes'[e].ip_index \in Nat
        /\ processes[d].unit \in Nat /\ processes[d].ip_index \in Nat
    BY <1>1 DEF Proc
  <2>4. ip' = ip
    OBVIOUS
  <2> QED
    BY <2>1, <2>2, <2>3, <2>4 DEF Placed, Follows
<1>3. ASSUME Borrowed PROVE \A e \in DOMAIN processes' : processes'[e].unit >= 2
  <2> SUFFICES ASSUME NEW e \in DOMAIN processes' PROVE processes'[e].unit >= 2
    OBVIOUS
  <2>1. PICK d \in DOMAIN processes : Follows(processes'[e], e, processes[d], d)
    OBVIOUS
  <2>2. processes[d].unit >= 2
    BY <1>3 DEF PingInv
  <2>3. processes'[e].unit \in Nat /\ processes[d].unit \in Nat
    BY <1>1 DEF Proc
  <2> QED
    BY <2>1, <2>2, <2>3 DEF Follows
<1>4. ASSUME NEW e \in DOMAIN processes', ~Borrowed,
             processes'[e].unit = 2, processes'[e].ip_index = 1
      PROVE  /\ 1 \in Unit => ip[1] = None
             /\ \A f \in DOMAIN processes' : processes'[f].unit >= 2
  <2>1. PICK d \in DOMAIN processes : Follows(processes'[e], e, processes[d], d)
    OBVIOUS
  <2>2. Placed(d)
    BY DEF PingInv
  <2>3. /\ processes[d].unit \in Nat /\ processes[d].ip_index \in Nat
        /\ ~(processes[d].unit = 2 /\ processes[d].ip_index = 1)
    BY <1>1, <1>4 DEF Proc, Borrowed
  <2>4. /\ processes[d].unit = 1 /\ processes[d].ip_index = 1
        /\ processes[d].pc = "poll" /\ e = d /\ Len(processes') = d
    BY <1>4, <2>1, <2>2, <2>3 DEF Follows, Placed
  <2>5. d = 1 /\ (1 \in Unit => ip[1] = None)
    BY <2>2, <2>4 DEF Placed, Before
  <2>6. DOMAIN processes' = {e}
    BY <2>4, <2>5
  <2> QED
    BY <1>4, <2>5, <2>6
<1>5. Borrowed' => Borrowed \/ \E e \in DOMAIN processes' :
                                 processes'[e].unit = 2 /\ processes'[e].ip_index = 1
  BY DEF Borrowed
<1>6. Borrowed' => /\ 1 \in Unit => ip[1] = None
                   /\ \A e \in DOMAIN processes' : processes'[e].unit >= 2
  BY <1>3, <1>4, <1>5 DEF PingInv
<1> QED
  BY <1>2, <1>6 DEF PingInv

\* What becomes of a process, field by field.
LEMMA NextProcess ==
  ASSUME NEW p \in Proc
  PROVE  /\ NextUnit(p) \in Proc
         /\ NextUnit(p).unit = p.unit + 1
         /\ NextUnit(p).ip_index = p.ip_index
BY DEF NextUnit, Process, Proc, Pcs

LEMMA PcSet ==
  ASSUME NEW p \in Proc, NEW pc \in Pcs
  PROVE  /\ [p EXCEPT !.pc = pc] \in Proc
         /\ [p EXCEPT !.pc = pc].unit = p.unit
         /\ [p EXCEPT !.pc = pc].ip_index = p.ip_index
         /\ [p EXCEPT !.pc = pc].pc = pc
<1>1. p = [unit |-> p.unit, ip_index |-> p.ip_index, tries |-> p.tries, pc |-> p.pc]
  BY DEF Proc
<1>2. [p EXCEPT !.pc = pc] =
        [unit |-> p.unit, ip_index |-> p.ip_index, tries |-> p.tries, pc |-> pc]
  BY <1>1
<1> QED
  BY <1>2 DEF Proc

LEMMA IndexSet ==
  ASSUME NEW p \in Proc, NEW n \in Nat
  PROVE  /\ [p EXCEPT !.ip_index = n] \in Proc
         /\ [p EXCEPT !.ip_index = n].unit = p.unit
         /\ [p EXCEPT !.ip_index = n].ip_index = n
<1>1. p = [unit |-> p.unit, ip_index |-> p.ip_index, tries |-> p.tries, pc |-> p.pc]
  BY DEF Proc
<1>2. [p EXCEPT !.ip_index = n] =
        [unit |-> p.unit, ip_index |-> n, tries |-> p.tries, pc |-> p.pc]
  BY <1>1
<1> QED
  BY <1>2 DEF Proc

LEMMA TryCounted ==
  ASSUME NEW p \in Proc, NEW n \in Nat
  PROVE  /\ [p EXCEPT !.tries = n] \in Proc
         /\ [p EXCEPT !.tries = n].unit = p.unit
         /\ [p EXCEPT !.tries = n].ip_index = p.ip_index
         /\ [p EXCEPT !.tries = n].pc = p.pc
<1>1. p = [unit |-> p.unit, ip_index |-> p.ip_index, tries |-> p.tries, pc |-> p.pc]
  BY DEF Proc
<1>2. [p EXCEPT !.tries = n] =
        [unit |-> p.unit, ip_index |-> p.ip_index, tries |-> n, pc |-> p.pc]
  BY <1>1
<1> QED
  BY <1>2 DEF Proc

LEMMA AfterPingProcess ==
  ASSUME NEW p \in Proc, NEW status
  PROVE  /\ AfterPing(p, status) \in Proc
         /\ AfterPing(p, status).unit = p.unit + 1
         /\ AfterPing(p, status).ip_index = p.ip_index + 1
<1> DEFINE q == NextUnit(p)
<1>1. /\ q \in Proc /\ q.unit = p.unit + 1 /\ q.ip_index = p.ip_index
      /\ p.ip_index + 1 \in Nat
  BY NextProcess DEF Proc
<1>2. AfterPing(p, status) = [q EXCEPT !.ip_index = p.ip_index + 1]
  BY <1>1 DEF AfterPing
<1> HIDE DEF q
<1> QED
  BY <1>1, <1>2, IndexSet

\* The running process becomes q, and no register is written.
LEMMA BecomesStep ==
  ASSUME PingInv, UNCHANGED ip, processes # << >>, NEW q \in Proc, Becomes(q),
         Follows(q, Depth, Running, Depth)
  PROVE  PingInv'
<1>1. processes \in Seq(Proc) /\ Depth \in DOMAIN processes
  BY DEF PingInv, Depth
<1>2. processes' = [processes EXCEPT ![Depth] = q]
  BY DEF Becomes
<1>3. processes' \in Seq(Proc) /\ DOMAIN processes' = DOMAIN processes
  BY <1>1, <1>2
<1>4. ASSUME NEW e \in DOMAIN processes'
      PROVE  \E d \in DOMAIN processes : Follows(processes'[e], e, processes[d], d)
  <2>1. CASE e = Depth
    <3>1. processes'[e] = q
      BY <1>1, <1>2, <2>1
    <3>2. Follows(processes'[e], e, processes[Depth], Depth)
      BY <2>1, <3>1 DEF Running
    <3> QED
      BY <1>1, <3>2
  <2>2. CASE e # Depth
    <3>1. processes'[e] = processes[e] /\ e \in DOMAIN processes
      BY <1>2, <1>3, <2>2
    <3>2. Placed(e)
      BY <3>1 DEF PingInv
    <3>3. Follows(processes'[e], e, processes[e], e)
      BY <3>1, <3>2 DEF Follows, Placed
    <3> QED
      BY <3>1, <3>3
  <2> QED
    BY <2>1, <2>2
<1> QED
  BY <1>3, <1>4, StackStep

\* The child ends, its parent goes on with the next interface and the next address.
LEMMA EndsStep ==
  ASSUME PingInv, UNCHANGED ip, processes # << >>, NEW status, Ends(status)
  PROVE  PingInv'
<1>1. /\ processes \in Seq(Proc) /\ Depth \in DOMAIN processes /\ Depth \in Nat \ {0}
      /\ DOMAIN processes = 1 .. Depth
  BY DEF PingInv, Depth
<1>2. CASE Depth = 1
  <2>1. processes' = << >>
    BY <1>2 DEF Ends
  <2>2. processes' \in Seq(Proc) /\ DOMAIN processes' = {}
    BY <2>1
  <2> QED
    BY <2>2, StackStep
<1>3. CASE Depth # 1
  <2> DEFINE parents == SubSeq(processes, 1, Depth - 1)
             parent  == processes[Depth - 1]
  <2>1. /\ parents \in Seq(Proc) /\ DOMAIN parents = 1 .. Depth - 1
        /\ \A e \in 1 .. Depth - 1 : parents[e] = processes[e]
    BY <1>1, <1>3
  <2>2. Depth - 1 \in DOMAIN parents /\ Depth - 1 \in DOMAIN processes
    BY <1>1, <1>3, <2>1
  <2>3. processes' = [parents EXCEPT ![Depth - 1] = AfterPing(parents[Depth - 1], status)]
    BY <1>3 DEF Ends
  <2>4. parent \in Proc /\ parents[Depth - 1] = parent
    BY <1>1, <2>1, <2>2
  <2>5. /\ AfterPing(parent, status) \in Proc
        /\ AfterPing(parent, status).unit = parent.unit + 1
        /\ AfterPing(parent, status).ip_index = parent.ip_index + 1
    BY <2>4, AfterPingProcess
  <2> HIDE DEF parents, parent
  <2>6. /\ processes' \in Seq(Proc) /\ DOMAIN processes' = 1 .. Depth - 1
        /\ processes'[Depth - 1] = AfterPing(parent, status)
        /\ \A e \in 1 .. Depth - 1 : e # Depth - 1 => processes'[e] = parents[e]
    BY <2>1, <2>2, <2>3, <2>4, <2>5
  <2>7. ASSUME NEW e \in DOMAIN processes'
        PROVE  \E d \in DOMAIN processes : Follows(processes'[e], e, processes[d], d)
    <3>1. e \in DOMAIN processes
      BY <1>1, <2>6
    <3>2. CASE e = Depth - 1
      <4>1. Follows(processes'[e], e, processes[e], e)
        BY <2>5, <2>6, <3>2 DEF Follows, parent
      <4> QED
        BY <3>1, <4>1
    <3>3. CASE e # Depth - 1
      <4>1. processes'[e] = processes[e] /\ Placed(e)
        BY <2>1, <2>6, <3>1, <3>3 DEF PingInv
      <4>2. Follows(processes'[e], e, processes[e], e)
        BY <4>1 DEF Follows, Placed
      <4> QED
        BY <3>1, <4>2
    <3> QED
      BY <3>2, <3>3
  <2> QED
    BY <2>6, <2>7, StackStep
<1> QED
  BY <1>2, <1>3

\* The child is where its parent was, and goes to exec.
LEMMA ForkStep == PingInv /\ ForkChild => PingInv'
<1> SUFFICES ASSUME PingInv, ForkChild PROVE PingInv'
  OBVIOUS
<1> DEFINE parents == [processes EXCEPT ![Depth] = [@ EXCEPT !.pc = "wait"]]
           child   == [Running EXCEPT !.pc = "exec"]
<1>1. /\ processes \in Seq(Proc) /\ Depth \in DOMAIN processes /\ Depth \in Nat
      /\ DOMAIN processes = 1 .. Depth
  BY DEF PingInv, Depth, ForkChild, At
<1>2. processes' = Append(parents, child) /\ ip' = ip /\ Running.pc = "fork"
  BY DEF ForkChild, At
<1>3. Running \in Proc /\ Running = processes[Depth] /\ Placed(Depth)
  BY <1>1 DEF Running, PingInv
<1>4. /\ child \in Proc /\ child.unit = Running.unit /\ child.ip_index = Running.ip_index
      /\ child.pc = "exec"
  BY <1>3, PcSet DEF Pcs
<1>5. /\ [processes[Depth] EXCEPT !.pc = "wait"] \in Proc
      /\ [processes[Depth] EXCEPT !.pc = "wait"].unit = Running.unit
      /\ [processes[Depth] EXCEPT !.pc = "wait"].ip_index = Running.ip_index
      /\ [processes[Depth] EXCEPT !.pc = "wait"].pc = "wait"
  <2>1. "wait" \in Pcs /\ processes[Depth] \in Proc
    BY <1>3 DEF Pcs
  <2> QED
    BY <1>3, <2>1, PcSet
<1>6. /\ parents \in Seq(Proc) /\ Len(parents) = Depth
      /\ \A e \in 1 .. Depth : e # Depth => parents[e] = processes[e]
      /\ parents[Depth] = [processes[Depth] EXCEPT !.pc = "wait"]
  BY <1>1, <1>5
<1> HIDE DEF parents, child
<1>7. /\ processes' \in Seq(Proc) /\ DOMAIN processes' = 1 .. Depth + 1
      /\ processes'[Depth + 1] = child
      /\ \A e \in 1 .. Depth : processes'[e] = parents[e]
  BY <1>1, <1>2, <1>4, <1>6
<1>8. ASSUME NEW e \in DOMAIN processes'
      PROVE  \E d \in DOMAIN processes : Follows(processes'[e], e, processes[d], d)
  <2>1. CASE e = Depth + 1
    <3>1. Follows(processes'[e], e, processes[Depth], Depth)
      BY <1>3, <1>4, <1>7, <2>1 DEF Follows, Before
    <3> QED
      BY <1>1, <3>1
  <2>2. CASE e = Depth
    <3>1. e \in DOMAIN processes /\ processes'[e] = [processes[Depth] EXCEPT !.pc = "wait"]
      BY <1>1, <1>6, <1>7, <2>2
    <3>2. Follows(processes'[e], e, processes[e], e)
      BY <1>2, <1>3, <1>5, <2>2, <3>1 DEF Follows, Placed, Before
    <3> QED
      BY <3>1, <3>2
  <2>3. CASE e # Depth /\ e # Depth + 1
    <3>1. e \in DOMAIN processes /\ processes'[e] = processes[e] /\ Placed(e)
      BY <1>1, <1>6, <1>7, <2>3 DEF PingInv
    <3>2. Follows(processes'[e], e, processes[e], e)
      BY <3>1 DEF Follows, Placed
    <3> QED
      BY <3>1, <3>2
  <2> QED
    BY <2>1, <2>2, <2>3
<1> QED
  BY <1>2, <1>7, <1>8, StackStep

\* The running interface is given its address.
LEMMA UpdateStep ==
  ASSUME PingInv, Unit \subseteq {1, 2}, ip_address[1] # ip_address[2],
         ip_address[1] # None, update_ip_address
  PROVE  PingInv'
<1>1. /\ processes \in Seq(Proc) /\ Depth \in DOMAIN processes
      /\ Running \in Proc /\ Running = processes[Depth] /\ Placed(Depth)
      /\ Running.pc = "address" /\ Running.unit \in Unit
      /\ processes' = [processes EXCEPT ![Depth] = [Running EXCEPT !.pc = "fork"]]
      /\ ip' = [ip EXCEPT ![Running.unit] = ip_address[Running.ip_index]]
  BY DEF PingInv, Depth, Running, update_ip_address, At, GoTo, Becomes
<1>2. /\ [Running EXCEPT !.pc = "fork"] \in Proc
      /\ [Running EXCEPT !.pc = "fork"].unit = Running.unit
      /\ [Running EXCEPT !.pc = "fork"].ip_index = Running.ip_index
      /\ [Running EXCEPT !.pc = "fork"].pc = "fork"
  <2>1. "fork" \in Pcs
    BY DEF Pcs
  <2> QED
    BY <1>1, <2>1, PcSet
<1>3. /\ processes' \in Seq(Proc) /\ DOMAIN processes' = DOMAIN processes
      /\ processes'[Depth] = [Running EXCEPT !.pc = "fork"]
      /\ \A e \in DOMAIN processes : e # Depth => processes'[e] = processes[e]
  BY <1>1, <1>2
<1>4. \A e \in DOMAIN processes :
        /\ processes'[e].unit = processes[e].unit
        /\ processes'[e].ip_index = processes[e].ip_index
        /\ processes'[e].pc = (IF e = Depth THEN "fork" ELSE processes[e].pc)
  BY <1>1, <1>2, <1>3
<1>5. DOMAIN ip' = Unit /\ DOMAIN ip = Unit
  BY <1>1 DEF PingInv
<1>6. CASE Running.unit = 1
  <2>1. /\ Depth = 1 /\ ip[1] = None /\ ip'[1] = ip_address[1]
        /\ 2 \in Unit => ip'[2] = ip[2]
    BY <1>1, <1>5, <1>6 DEF Placed, Before
  <2>2. ~Borrowed
    <3>1. ~(processes[Depth].unit >= 2) /\ Depth \in DOMAIN processes
      BY <1>1, <1>6
    <3> QED
      BY <3>1 DEF PingInv
  <2>3. ~Borrowed'
    BY <1>3, <1>4, <2>1, <2>2 DEF Borrowed
  <2>4. ASSUME NEW e \in DOMAIN processes PROVE Placed(e)'
    <3>1. Placed(e)
      BY DEF PingInv
    <3> QED
      BY <1>4, <2>1, <3>1 DEF Placed, Before
  <2>5. /\ 1 \in Unit => ip'[1] \in {None, ip_address[1]}
        /\ 2 \in Unit => ip'[2] \in {None, ip_address[1], ip_address[2]}
    BY <2>1 DEF PingInv
  <2> QED
    BY <1>3, <1>5, <2>3, <2>4, <2>5 DEF PingInv
<1>7. CASE Running.unit = 2
  <2>1. /\ Running.ip_index \in {1, 2} /\ ip'[2] = ip_address[Running.ip_index]
        /\ 1 \in Unit => ip'[1] = ip[1]
    BY <1>1, <1>5, <1>7 DEF Placed
  <2>2. ASSUME NEW e \in DOMAIN processes PROVE Placed(e)'
    <3>1. Placed(e)
      BY DEF PingInv
    <3> QED
      BY <1>1, <1>4, <1>7, <2>1, <3>1 DEF Placed, Before
  <2>3. Borrowed' => Borrowed
    BY <1>1, <1>3, <1>4, <1>7, <2>1 DEF Borrowed
  <2>4. Borrowed' => /\ 1 \in Unit => ip'[1] = None
                     /\ \A e \in DOMAIN processes : processes'[e].unit >= 2
    BY <1>4, <2>1, <2>3 DEF PingInv
  <2>5. /\ 1 \in Unit => ip'[1] \in {None, ip_address[1]}
        /\ 2 \in Unit => ip'[2] \in {None, ip_address[1], ip_address[2]}
    BY <2>1 DEF PingInv
  <2> QED
    BY <1>3, <1>5, <2>2, <2>4, <2>5 DEF PingInv
<1> QED
  BY <1>1, <1>6, <1>7

LEMMA PingStep ==
  ASSUME Unit \subseteq {1, 2}, ip_address[1] # ip_address[2], ip_address[1] # None
  PROVE  PingInv /\ [PingNext]_pingVars => PingInv'
<1> SUFFICES ASSUME PingInv, [PingNext]_pingVars PROVE PingInv'
  OBVIOUS
<1>1. ASSUME processes # << >>
      PROVE  /\ Depth \in DOMAIN processes /\ Running = processes[Depth]
             /\ Running \in Proc /\ Placed(Depth) /\ Len(processes) = Depth
  BY <1>1 DEF PingInv, Depth, Running
<1>2. CASE UNCHANGED pingVars \/ Flip
  <2>1. processes' = processes /\ ip' = ip
    BY <1>2 DEF pingVars, Flip
  <2> QED
    BY <2>1 DEF PingInv, Placed, Borrowed
<1>3. CASE set_rs_fec
  <2>1. /\ processes # << >> /\ ip' = ip /\ Running.pc = "configure"
        /\ Becomes([Running EXCEPT !.pc = "poll"]) /\ "poll" \in Pcs
    BY <1>3 DEF set_rs_fec, At, GoTo, Pcs
  <2>2. Follows([Running EXCEPT !.pc = "poll"], Depth, Running, Depth)
    BY <1>1, <2>1, PcSet DEF Follows, Placed, Before
  <2> QED
    BY <1>1, <2>1, <2>2, PcSet, BecomesStep
<1>4. CASE Exec
  <2>1. /\ processes # << >> /\ ip' = ip /\ Running.pc = "exec"
        /\ Becomes([Running EXCEPT !.pc = "ping"]) /\ "ping" \in Pcs
    BY <1>4 DEF Exec, At, GoTo, Pcs
  <2>2. Follows([Running EXCEPT !.pc = "ping"], Depth, Running, Depth)
    BY <1>1, <2>1, PcSet DEF Follows, Placed, Before
  <2> QED
    BY <1>1, <2>1, <2>2, PcSet, BecomesStep
<1>5. ASSUME processes # << >>, Running.pc = "poll", ip' = ip, Becomes(NextUnit(Running))
      PROVE  PingInv'
  <2>1. /\ processes \in Seq(Proc)
        /\ processes' = [processes EXCEPT ![Depth] = NextUnit(Running)]
    BY <1>5 DEF Becomes, PingInv
  <2>2. Len(processes') = Depth
    BY <2>1 DEF Depth
  <2>3. Follows(NextUnit(Running), Depth, Running, Depth)
    BY <1>1, <1>5, <2>2, NextProcess DEF Follows
  <2> QED
    BY <1>1, <1>5, <2>3, NextProcess, BecomesStep
<1>6. CASE PollUp
  <2>1. CASE Becomes(NextUnit(Running))
    BY <1>5, <1>6, <2>1 DEF PollUp, At
  <2>2. CASE GoTo("address")
    <3>1. /\ processes # << >> /\ ip' = ip /\ Running.pc = "poll"
          /\ Becomes([Running EXCEPT !.pc = "address"]) /\ "address" \in Pcs
      BY <1>6, <2>2 DEF PollUp, At, GoTo, Pcs
    <3>2. Follows([Running EXCEPT !.pc = "address"], Depth, Running, Depth)
      BY <1>1, <3>1, PcSet DEF Follows, Placed, Before
    <3> QED
      BY <1>1, <3>1, <3>2, PcSet, BecomesStep
  <2> QED
    BY <1>6, <2>1, <2>2 DEF PollUp
<1>7. CASE PollDown
  <2>1. CASE Becomes(NextUnit(Running))
    BY <1>5, <1>7, <2>1 DEF PollDown, At
  <2>2. CASE Becomes([Running EXCEPT !.tries = CountPoll(@)])
    <3> DEFINE q == [Running EXCEPT !.tries = Running.tries + 1]
    <3>1. processes # << >> /\ ip' = ip /\ Running.pc = "poll" /\ Becomes(q)
      BY <1>7, <2>2 DEF PollDown, At, CountPoll
    <3>2. /\ q \in Proc /\ q.unit = Running.unit /\ q.ip_index = Running.ip_index
          /\ q.pc = Running.pc
      <4>1. Running.tries + 1 \in Nat /\ Running \in Proc
        BY <1>1, <3>1 DEF Proc
      <4> QED
        BY <4>1, TryCounted
    <3> HIDE DEF q
    <3>3. Follows(q, Depth, Running, Depth)
      BY <1>1, <3>1, <3>2 DEF Follows, Placed
    <3> QED
      BY <3>1, <3>2, <3>3, BecomesStep
  <2> QED
    BY <1>7, <2>1, <2>2 DEF PollDown
<1>8. CASE update_ip_address
  BY <1>8, UpdateStep
<1>9. CASE ForkChild
  BY <1>9, ForkStep
<1>10. ASSUME processes # << >>, ip' = ip, NEW status, Becomes(AfterPing(Running, status))
       PROVE  PingInv'
  <2>1. Follows(AfterPing(Running, status), Depth, Running, Depth)
    BY <1>1, <1>10, AfterPingProcess DEF Follows
  <2> QED
    BY <1>1, <1>10, <2>1, AfterPingProcess, BecomesStep
<1>11. CASE ForkFails
  BY <1>10, <1>11 DEF ForkFails, At
<1>12. CASE ExecFails
  <2>1. Becomes(AfterPing(Running, 0)) /\ processes # << >> /\ ip' = ip
    BY <1>12 DEF ExecFails, At, AfterPing
  <2> QED
    BY <1>10, <2>1
<1>13. CASE Ping \/ PingKilled \/ Return
  <2>1. PICK status : Ends(status) /\ processes # << >> /\ ip' = ip
    BY <1>13 DEF Ping, PingKilled, Return, At
  <2> QED
    BY <2>1, EndsStep
<1> QED
  BY <1>2, <1>3, <1>4, <1>6, <1>7, <1>8, <1>9, <1>11, <1>12, <1>13 DEF PingNext, Steps

\* On a bitstream with at most two interfaces and two addresses that differ, no two
\* interfaces are ever given the same one, whichever of fork, execve and ping fail in
\* whichever process, and whatever the links do (ping_fpga.cpp:161-256).
THEOREM AddressesApart ==
  ASSUME Unit \subseteq {1, 2}, ip_address[1] # ip_address[2], ip_address[1] # None
  PROVE  PingSpec => []AddressesDistinct
<1>1. PingInit => PingInv
  <2> SUFFICES ASSUME PingInit PROVE PingInv
    OBVIOUS
  <2>1. /\ processes = <<Process(1, 1, "configure")>>
        /\ Process(1, 1, "configure") \in Proc
        /\ Process(1, 1, "configure").unit = 1
        /\ Process(1, 1, "configure").ip_index = 1
    BY DEF PingInit, Process, Proc, Pcs
  <2>2. processes \in Seq(Proc) /\ DOMAIN processes = {1}
    BY <2>1
  <2>3. ip = [k \in Unit |-> None]
    BY DEF PingInit
  <2>4. \A d \in DOMAIN processes : Placed(d)
    BY <2>1, <2>2, <2>3 DEF Placed
  <2>5. ~Borrowed
    BY <2>1, <2>2, <2>3 DEF Borrowed
  <2> QED
    BY <2>2, <2>3, <2>4, <2>5 DEF PingInv
<1>2. PingInv => AddressesDistinct
  <2> SUFFICES ASSUME PingInv, 1 \in Unit, 2 \in Unit, ip[1] = ip[2], ip[1] # None
               PROVE  FALSE
    BY DEF AddressesDistinct
  <2>1. ip[1] = ip_address[1]
    BY DEF PingInv
  <2>2. Borrowed
    BY <2>1 DEF Borrowed
  <2> QED
    BY <2>2 DEF PingInv
<1> QED
  BY <1>1, <1>2, PingStep, PTL DEF PingSpec

----------------------------------------------------------------------------
\* Each of the programs goes through steps of its own specification, or waits, when the
\* model that TLC checks runs one of them: what is proved of each holds of the whole.
THEOREM ProgramsAreParts == Spec => SocketSpec /\ ArpSpec /\ PingSpec /\ LookupSpec
<1>1. Init => SocketInit /\ ArpInit /\ PingInit /\ LookupInit
  BY DEF Init
<1>2. [Next]_hostVars
        => /\ [SocketNext]_socketVars /\ [ArpNext]_arpVars
           /\ [PingNext]_pingVars /\ [LookupNext]_lookupVars
  BY DEF Next, hostVars
<1> QED
  BY <1>1, <1>2, PTL DEF Spec, SocketSpec, ArpSpec, PingSpec, LookupSpec
----------------------------------------------------------------------------
(***************************************************************************)
(* find_pattern of patterns.h, which the test bench calls, over tables in  *)
(* which group_info counts the rows and no two rows have one identifier:   *)
(* TablesAssumption, which TLC checks of every row.                        *)
(***************************************************************************)

LEMMA LeastMember ==
  ASSUME NEW T, T \subseteq Nat, T # {}
  PROVE  \E x \in T : \A y \in T : x <= y
<1>1. PICK x \in T : \A y \in T : ~(<<y, x>> \in OpToRel(<, Nat))
  BY NatLessThanWellFounded, WFMin
<1>2. \A y \in T : ~(y < x)
  BY <1>1 DEF OpToRel
<1>3. QED
  BY <1>2

\* The groups behind this one are searched: nothing was in them.
Searched(n) == \A g \in GroupId : g < n => Hits(g) = {}

LookupInv ==
  /\ group_id \in 0 .. NUM_GROUPS
  /\ answer \in {"searching", "found", "absent"}
  /\ answer = "searching" => Searched(group_id)
  /\ answer = "absent" => Searched(NUM_GROUPS)
  /\ answer = "found" => /\ group_id \in GroupId
                         /\ local_idx \in Hits(group_id)

LEMMA LookupStep == LookupInv /\ [LookupNext]_lookupVars => LookupInv'
<1> SUFFICES ASSUME LookupInv, [LookupNext]_lookupVars PROVE LookupInv'
  OBVIOUS
<1>1. CASE FoundInGroup
  <2>1. /\ wanted' = wanted /\ group_id' = group_id /\ answer' = "found"
        /\ group_id \in GroupId
        /\ Hits(group_id) # {}
        /\ local_idx' = CHOOSE row \in Hits(group_id) :
                          \A other \in Hits(group_id) : row <= other
    BY <1>1 DEF FoundInGroup, LookupInv, GroupId, NUM_GROUPS
  <2>2. Hits(group_id) \subseteq Nat
    BY DEF Hits, Rows
  <2>3. local_idx' \in Hits(group_id)
    BY <2>1, <2>2, LeastMember
  <2>4. (Hits(group_id))' = Hits(group_id)
    BY <2>1 DEF Hits
  <2>5. QED
    BY <2>1, <2>3, <2>4 DEF LookupInv
<1>2. CASE NextGroup
  <2>1. /\ wanted' = wanted /\ local_idx' = local_idx /\ answer' = answer
        /\ answer = "searching" /\ group_id \in GroupId /\ group_id' = group_id + 1
        /\ Hits(group_id) = {}
    BY <1>2 DEF NextGroup, LookupInv, GroupId, NUM_GROUPS
  <2>2. \A g : (Hits(g))' = Hits(g)
    BY <2>1 DEF Hits
  <2>3. \A g \in GroupId : g < group_id + 1 => g < group_id \/ g = group_id
    BY DEF GroupId, LookupInv
  <2>4. (Searched(group_id))'
    BY <2>1, <2>2, <2>3 DEF LookupInv, Searched
  <2>5. group_id + 1 \in 0 .. NUM_GROUPS
    BY <2>1 DEF GroupId, NUM_GROUPS
  <2>6. QED
    BY <2>1, <2>4, <2>5 DEF LookupInv
<1>3. CASE ReturnFalse
  <2>1. /\ UNCHANGED <<wanted, group_id, local_idx>> /\ answer' = "absent"
        /\ answer = "searching" /\ group_id = NUM_GROUPS
    BY <1>3 DEF ReturnFalse
  <2>2. \A g : (Hits(g))' = Hits(g)
    BY <2>1 DEF Hits
  <2>3. (Searched(NUM_GROUPS))'
    BY <2>1, <2>2 DEF LookupInv, Searched
  <2>4. QED
    BY <2>1, <2>3 DEF LookupInv
<1>4. CASE Returned \/ UNCHANGED lookupVars
  <2>1. UNCHANGED <<wanted, group_id, local_idx, answer>>
    BY <1>4 DEF Returned, lookupVars
  <2>2. \A g : (Hits(g))' = Hits(g)
    BY <2>1 DEF Hits
  <2>3. \A n : Searched(n) => (Searched(n))'
    BY <2>2 DEF Searched
  <2>4. Searched(group_id) => (Searched(group_id))'
    BY <2>1, <2>2 DEF Searched
  <2>5. (Hits(group_id))' = Hits(group_id)
    BY <2>1, <2>2
  <2>6. QED
    BY <2>1, <2>3, <2>4, <2>5 DEF LookupInv
<1>5. QED
  BY <1>1, <1>2, <1>3, <1>4 DEF LookupNext, find_pattern

\* find_pattern finds a rule exactly if there is one, and the only one
\* (patterns.h:4632-4643).
THEOREM LookupCorrect == LookupSpec => []LookupAgreesWithScanner
<1>1. LookupInit => LookupInv
  BY DEF LookupInit, LookupInv, Searched, GroupId, NUM_GROUPS
<1>2. LookupInv => LookupAgreesWithScanner
  <2> SUFFICES ASSUME LookupInv, answer # "searching", NEW g \in GroupId,
                      NEW row \in DOMAIN group_rules[g], Carries(g, row)
               PROVE  answer = "found" /\ <<g, row>> = <<group_id, local_idx>>
    BY DEF LookupAgreesWithScanner
  <2>1. row \in Hits(g)
    BY TablesAssumption DEF TablesAgree, Rows, Hits, Carries
  <2>2. answer # "absent"
    BY <2>1 DEF LookupInv, Searched, GroupId, NUM_GROUPS
  <2>3. answer = "found" /\ group_id \in GroupId /\ local_idx \in Hits(group_id)
    BY <2>2 DEF LookupInv
  <2>4. /\ original_id(group_rules[g][row]) = wanted
        /\ original_id(group_rules[group_id][local_idx]) = wanted
        /\ local_idx \in Rows(group_id)
    BY <2>1, <2>3 DEF Hits
  <2>5. local_idx \in DOMAIN group_rules[group_id]
    BY <2>3, <2>4, TablesAssumption DEF TablesAgree, Rows
  <2>6. g = group_id /\ row = local_idx
    BY <2>3, <2>4, <2>5, TablesAssumption DEF TablesAgree
  <2>7. QED
    BY <2>3, <2>6
<1>3. QED
  BY <1>1, <1>2, LookupStep, PTL DEF LookupSpec
=============================================================================

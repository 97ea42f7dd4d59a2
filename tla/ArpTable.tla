------------------------------ MODULE ArpTable ------------------------------
(***************************************************************************)
(* read_arp_table of networklayer.cpp.  The table is read one register at  *)
(* a time: the valid bits of four entries in one word, then the two halves *)
(* of the MAC and the IP address of every entry that was valid, while the  *)
(* hardware goes on learning and forgetting.                               *)
(***************************************************************************)
EXTENDS Integers, Sequences, FiniteSets

CONSTANTS
  TableSize,      \* entries of the hardware
  num_entries,    \* the argument
  WordEntries,    \* entries in a word of valid bits: 4
  Peers,          \* hosts that are learned, each with its MAC and IP address
  Nobody,
  MaxLearned      \* bound: changes of the hardware's table during a read

ASSUME ArpAssumption == {TableSize, num_entries, WordEntries} \subseteq Nat \ {0}

VARIABLES
  arp,            \* per entry: the peer it holds, or Nobody
  entry, step,    \* what is read next
  valid_entry,    \* the word of valid bits that was read last
  mac_lsb, mac_msb,
  rows,           \* the map that is returned
  touched         \* for the property: entries that changed since the call began

arpVars == <<arp, entry, step, valid_entry, mac_lsb, mac_msb, rows, touched>>

ArpEntries == 0 .. TableSize - 1

ArpInit ==
  /\ arp \in [ArpEntries -> Peers \cup {Nobody}]
  /\ entry = 0 /\ step = "valid" /\ valid_entry = {}
  /\ mac_lsb = Nobody /\ mac_msb = Nobody
  /\ rows = {} /\ touched = << >>

Learn ==
  /\ step # "done" /\ Len(touched) < MaxLearned
  /\ \E e \in ArpEntries, peer \in Peers \cup {Nobody} :
       /\ peer # arp[e]
       /\ arp' = [arp EXCEPT ![e] = peer]
       /\ touched' = Append(touched, e)
  /\ UNCHANGED <<entry, step, valid_entry, mac_lsb, mac_msb, rows>>

----------------------------------------------------------------------------
Word(e) == {x \in ArpEntries : x \div WordEntries = e \div WordEntries}

\* Mutant: the word is read once.
ReadsWordOnce(e) == e = 0

ReadsWord(e) == e % WordEntries = 0

ReadValid ==
  /\ step = "valid" /\ entry < num_entries
  /\ valid_entry' = IF ReadsWord(entry) THEN {x \in Word(entry) : arp[x] # Nobody}
                    ELSE valid_entry
  /\ IF entry \in valid_entry' THEN step' = "mac_lsb" /\ UNCHANGED entry
     ELSE entry' = entry + 1 /\ UNCHANGED step
  /\ UNCHANGED <<arp, mac_lsb, mac_msb, rows, touched>>

ReadLsb ==
  /\ step = "mac_lsb" /\ step' = "mac_msb" /\ mac_lsb' = arp[entry]
  /\ UNCHANGED <<arp, entry, valid_entry, mac_msb, rows, touched>>

ReadMsb ==
  /\ step = "mac_msb" /\ step' = "ip" /\ mac_msb' = arp[entry]
  /\ UNCHANGED <<arp, entry, valid_entry, mac_lsb, rows, touched>>

ReadIp ==
  /\ step = "ip" /\ step' = "valid" /\ entry' = entry + 1
  /\ rows' = rows \cup {<<entry, mac_lsb, mac_msb, arp[entry]>>}
  /\ UNCHANGED <<arp, valid_entry, mac_lsb, mac_msb, touched>>

ReturnRows ==
  /\ step = "valid" /\ entry = num_entries /\ step' = "done"
  /\ UNCHANGED <<arp, entry, valid_entry, mac_lsb, mac_msb, rows, touched>>

ArpNext == Learn \/ ReadValid \/ ReadLsb \/ ReadMsb \/ ReadIp \/ ReturnRows

ArpSpec == ArpInit /\ [][ArpNext]_arpVars

----------------------------------------------------------------------------
Changed == {touched[k] : k \in DOMAIN touched}

\* Whatever else changes meanwhile, an entry that stays as it is during the read is
\* returned exactly if it is valid, with its own addresses, and no entry is
\* returned twice (networklayer.cpp:103-141).
StableRowsExact ==
  step = "done" =>
    /\ \A e \in ArpEntries \ Changed :
         {r \in rows : r[1] = e} =
           IF e < num_entries /\ arp[e] # Nobody THEN {<<e, arp[e], arp[e], arp[e]>>} ELSE {}
    /\ \A r, s \in rows : r[1] = s[1] => r = s
=============================================================================

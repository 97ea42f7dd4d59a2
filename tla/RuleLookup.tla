----------------------------- MODULE RuleLookup -----------------------------
(***************************************************************************)
(* find_pattern and get_pattern_len of patterns.h over the tables the      *)
(* scanner is compiled with, for every identifier a caller may ask for.    *)
(* The test bench trusts the row it is given: it places that row's pattern *)
(* in its data and expects the scanner, which goes through all the rows,   *)
(* to report that identifier.  One step looks through one group.           *)
(***************************************************************************)
EXTENDS RuleTables

\* tb_proj.cpp: 0x84.
SAFE_BACKGROUND == 132

\* group_info counts the rows of each group, and no two rows have one identifier: the
\* generator writes a row for each line of the rule file.
TablesAgree ==
  /\ \A g \in GroupId : DOMAIN group_rules[g] = 1 .. group_info[g].num_patterns
  /\ \A g, h \in GroupId :
       \A i \in DOMAIN group_rules[g], j \in DOMAIN group_rules[h] :
         original_id(group_rules[g][i]) = original_id(group_rules[h][j]) => g = h /\ i = j

ASSUME TablesAssumption == TablesAgree

VARIABLES
  wanted,       \* original_id, the argument
  group_id, local_idx,
  answer        \* "searching", "found" or "absent"

lookupVars == <<wanted, group_id, local_idx, answer>>

\* Identifiers are line numbers of the rule file; 0 and a line past its end are
\* asked for as well.
MaxId == 2677

LookupInit ==
  /\ wanted \in 0 .. MaxId + 1
  /\ group_id = 0 /\ local_idx = 0 /\ answer = "searching"

----------------------------------------------------------------------------
\* Mutant: the last rule of a group is left out.
RowsShort(g) == 1 .. group_info[g].num_patterns - 1

Rows(g) == 1 .. group_info[g].num_patterns

Hits(g) == {i \in Rows(g) : original_id(group_rules[g][i]) = wanted}

FoundInGroup ==
  /\ answer = "searching" /\ group_id < NUM_GROUPS /\ Hits(group_id) # {}
  /\ local_idx' = CHOOSE i \in Hits(group_id) : \A j \in Hits(group_id) : i <= j
  /\ answer' = "found"
  /\ UNCHANGED <<wanted, group_id>>

NextGroup ==
  /\ answer = "searching" /\ group_id < NUM_GROUPS /\ Hits(group_id) = {}
  /\ group_id' = group_id + 1
  /\ UNCHANGED <<wanted, local_idx, answer>>

ReturnFalse ==
  /\ answer = "searching" /\ group_id = NUM_GROUPS
  /\ answer' = "absent"
  /\ UNCHANGED <<wanted, group_id, local_idx>>

find_pattern == FoundInGroup \/ NextGroup \/ ReturnFalse

Returned == answer # "searching" /\ UNCHANGED lookupVars

LookupNext == find_pattern \/ Returned

LookupSpec == LookupInit /\ [][LookupNext]_lookupVars

found_row == group_rules[group_id][local_idx]

get_pattern_len == IF answer = "found" THEN len(found_row) ELSE 0

----------------------------------------------------------------------------
Carries(g, i) == original_id(group_rules[g][i]) = wanted

\* The lookup finds a rule iff the scanner has one with that identifier, and no
\* other row carries it: what the scanner reports under an identifier is what the
\* test bench is told about it.  The scanner's rows are those of the tables, the
\* lookup's those that group_info counts.
LookupAgreesWithScanner ==
  answer # "searching" =>
    \A g \in GroupId : \A i \in DOMAIN group_rules[g] :
      Carries(g, i) => answer = "found" /\ <<g, i>> = <<group_id, local_idx>>

\* Bits of a shift register that a rule reads, at the worst alignment
\* (scanner.cpp: offset).
RegisterBits(row) == (DCAM_P - 1) + len(row)

\* The row found is one the scanner can match: it is not empty, it is no longer
\* than its group says, the registers of its group hold it at both alignments
\* and in their scaled-down width too, every byte it names has a register, and
\* its identifier fits the 16 bits of an event and is not the 0 that means none.
\* The filling of the test data occurs in no pattern ("never occurs in the
\* patterns", tb_proj.cpp:20-22), so that it matches nothing by itself and nothing
\* across the edge of a pattern that is placed in it.
RowFits ==
  answer = "found" =>
    LET info == group_info[group_id]
    IN  /\ get_pattern_len \in 1 .. info.max_len
        /\ info.max_len <= MAX_PATTERN_LEN
        /\ RegisterBits(found_row) <= info.history_bits
        /\ info.history_bits <= MAX_HISTORY_BITS
        /\ info.is_long_group <=> info.max_len > LONG_PATTERN_THRESHOLD
        /\ TopIndex(found_row) < info.num_unique_bytes
        /\ info.num_unique_bytes = Cardinality(group_bytes[group_id])
        /\ info.num_unique_bytes <= MAX_UNIQUE_BYTES
        /\ info.num_patterns <= MAX_PATTERNS_PER_GROUP
        /\ wanted \in 1 .. 2^16 - 1
        /\ SAFE_BACKGROUND \notin group_bytes[group_id]
=============================================================================

---------------------------- MODULE MCTestBench ----------------------------
(***************************************************************************)
(* The test bench for TLC: two groups of overlapping rules; one that as    *)
(* many bytes as a register can hold, one that ends in the byte that fills *)
(* the last beat, one whose identifier parse_events drops.                 *)
(***************************************************************************)
EXTENDS TestBench

MCRules ==
  << << [pat |-> <<"a", "b">>,           id |-> 7],
        [pat |-> <<"a", "a", "b">>,      id |-> 3],
        [pat |-> <<"b", "0">>,           id |-> 6] >>,
     << [pat |-> <<"b">>,                id |-> 9],
        [pat |-> <<"b", "a", "a", "b">>, id |-> 4],
        [pat |-> <<"b", "b">>,           id |-> 5],
        [pat |-> <<"a">>,                id |-> 238] >> >>

MCRandomData ==
  UNION {[1 .. n -> {"a", "b", "c"}] : n \in 1 .. 7} \cup
  UNION {[1 .. n -> {"a", "b"}] : n \in 8 .. 10}

\* A register may hold an event of a rule, where it could be seen, or of none.
MCGarbage ==
  {[id |-> id, byte_index |-> 4, lane |-> 0, packet |-> -1] : id \in {3, 99}}
=============================================================================

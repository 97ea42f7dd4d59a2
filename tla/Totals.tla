------------------------------- MODULE Totals -------------------------------
(***************************************************************************)
(* The sum of a sequence of numbers, for the properties that compare a     *)
(* counter with what it has counted.                                       *)
(***************************************************************************)
EXTENDS Integers, Sequences

RunningTotal(numbers) ==
  LET total[n \in 0 .. Len(numbers)] == IF n = 0 THEN 0 ELSE total[n - 1] + numbers[n]
  IN  total

Total(numbers) == RunningTotal(numbers)[Len(numbers)]
=============================================================================

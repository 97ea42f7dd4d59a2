---------------------------- MODULE StreamProofs ----------------------------
(***************************************************************************)
(* What streams pass through: the stream throughput kernel and its front   *)
(* end, for any rates, traffic, counter width and depth of the slice       *)
(* between them; krnl_counters, for any masks and counter width; and the   *)
(* registers and the padding of a frame, for any widths and lengths.       *)
(***************************************************************************)
EXTENDS StreamThroughput, PacketCounters, FrameStages,
        SequenceTheorems, FiniteSetTheorems, WellFoundedInduction, TLAPS

----------------------------------------------------------------------------
(***************************************************************************)
(* Sums, counts and remainders                                             *)
(***************************************************************************)
\* A set of numbers that has an element has a least one.
LEMMA LeastNumber ==
  ASSUME NEW T \in SUBSET Nat, T # {}
  PROVE  \E n \in T : \A m \in T : n <= m
<1> DEFINE Less == {ss \in Nat \X Nat : ss[1] < ss[2]}
<1>1. IsWellFoundedOn(Less, Nat)
  BY NatLessThanWellFounded DEF OpToRel
<1> HIDE DEF Less
<1>2. PICK n \in T : \A m \in T : ~(<<m, n>> \in Less)
  BY <1>1, WFMin
<1>3. \A m \in T : ~(m < n)
  BY <1>2 DEF Less
<1>4. \A m \in T : m \in Nat /\ n \in Nat
  OBVIOUS
<1> QED
  BY <1>3, <1>4

\* The equations of a running total up to a place.
Adds(w, n, t) == t[0] = 0 /\ \A i \in 1 .. n : t[i] = t[i - 1] + w[i]

Totals(w, n, t) == t \in [0 .. n -> Nat] /\ Adds(w, n, t)

\* Only one function satisfies them,
LEMMA OneRunningTotal ==
  ASSUME NEW w \in Seq(Nat), NEW m \in 0 .. Len(w), NEW n \in 0 .. m, NEW s, NEW t,
         Adds(w, m, s), Adds(w, n, t)
  PROVE  \A i \in 0 .. n : s[i] = t[i]
<1> DEFINE differ == {i \in 0 .. n : s[i] # t[i]}
<1> SUFFICES ASSUME differ # {} PROVE FALSE
  OBVIOUS
<1>1. differ \in SUBSET Nat
  OBVIOUS
<1> HIDE DEF differ
<1>2. PICK i \in differ : \A j \in differ : i <= j
  BY <1>1, LeastNumber
<1>3. i \in 0 .. n /\ s[i] # t[i]
  BY <1>2 DEF differ
<1>4. i # 0 /\ i \in 1 .. n /\ i \in 1 .. m
  BY <1>3 DEF Totals, Adds
<1>5. i - 1 \in 0 .. n /\ i - 1 \notin differ
  BY <1>1, <1>2, <1>4
<1>6. s[i - 1] = t[i - 1]
  BY <1>5 DEF differ
<1> QED
  BY <1>3, <1>4, <1>6 DEF Totals, Adds

\* and there is one.
LEMMA SomeRunningTotal ==
  ASSUME NEW w \in Seq(Nat)
  PROVE  \A n \in 0 .. Len(w) : \E t : Totals(w, n, t)
<1> DEFINE none == {n \in 0 .. Len(w) : ~(\E t : Totals(w, n, t))}
<1> SUFFICES ASSUME none # {} PROVE FALSE
  OBVIOUS
<1>1. none \in SUBSET Nat
  OBVIOUS
<1> HIDE DEF none
<1>2. PICK n \in none : \A m \in none : n <= m
  BY <1>1, LeastNumber
<1>3. n \in 0 .. Len(w) /\ ~(\E t : Totals(w, n, t))
  BY <1>2 DEF none
<1>4. n # 0
  <2>1. Totals(w, 0, [i \in {0} |-> 0])
    BY DEF Totals, Adds
  <2> QED
    BY <1>3, <2>1
<1>5. n - 1 \in 0 .. Len(w) /\ n - 1 \notin none
  BY <1>1, <1>2, <1>3, <1>4
<1>6. PICK t : Totals(w, n - 1, t)
  BY <1>5 DEF none
<1> DEFINE u == [i \in 0 .. n |-> IF i = n THEN t[n - 1] + w[n] ELSE t[i]]
<1>7. w[n] \in Nat /\ n - 1 \in 0 .. n - 1 /\ n \in Nat
  BY <1>3, <1>4
<1>8. u \in [0 .. n -> Nat]
  BY <1>6, <1>7 DEF Totals, Adds
<1>9. u[0] = 0
  BY <1>4, <1>6, <1>7 DEF Totals, Adds
<1>10. \A i \in 1 .. n : u[i] = u[i - 1] + w[i]
  BY <1>6, <1>7 DEF Totals, Adds
<1>11. Totals(w, n, u)
  BY <1>8, <1>9, <1>10 DEF Totals, Adds
<1> QED
  BY <1>3, <1>11

\* A function that is defined by the equations satisfies them,
LEMMA EquationsAdd ==
  ASSUME NEW w \in Seq(Nat), NEW t,
         t = [n \in 0 .. Len(w) |-> IF n = 0 THEN 0 ELSE t[n - 1] + w[n]]
  PROVE  Adds(w, Len(w), t) /\ t = [i \in 0 .. Len(w) |-> t[i]]
<1>1. Len(w) \in Nat
  OBVIOUS
<1>2. \A n \in 0 .. Len(w) : t[n] = IF n = 0 THEN 0 ELSE t[n - 1] + w[n]
  OBVIOUS
<1>3. t = [i \in 0 .. Len(w) |-> t[i]]
  OBVIOUS
<1> QED
  BY <1>1, <1>2, <1>3 DEF Adds

\* so that the recursive definition is one of a function that there is.
LEMMA RunningTotalIs ==
  ASSUME NEW w \in Seq(Nat)
  PROVE  Totals(w, Len(w), RunningTotal(w))
<1> DEFINE Eq(t) == t = [n \in 0 .. Len(w) |-> IF n = 0 THEN 0 ELSE t[n - 1] + w[n]]
<1>1. PICK t : Totals(w, Len(w), t)
  BY SomeRunningTotal
<1>2. Eq(t)
  BY <1>1 DEF Totals, Adds
<1>3. RunningTotal(w) = CHOOSE s : Eq(s)
  BY Zenon DEF RunningTotal
<1>4. Eq(RunningTotal(w))
  <2> HIDE DEF Eq
  <2> QED BY <1>2, <1>3, Zenon
<1>5. /\ Adds(w, Len(w), RunningTotal(w))
      /\ RunningTotal(w) = [i \in 0 .. Len(w) |-> RunningTotal(w)[i]]
  <2> HIDE DEF RunningTotal
  <2> QED
    BY <1>4, EquationsAdd
<1>6. RunningTotal(w) = t
  <2>1. Len(w) \in 0 .. Len(w)
    OBVIOUS
  <2>2. \A i \in 0 .. Len(w) : RunningTotal(w)[i] = t[i]
    <3>1. Adds(w, Len(w), t) /\ Adds(w, Len(w), RunningTotal(w))
      BY <1>1, <1>5 DEF Totals
    <3> HIDE DEF Eq
    <3> QED
      BY <2>1, <3>1, OneRunningTotal
  <2>3. t = [i \in 0 .. Len(w) |-> t[i]]
    BY <1>1 DEF Totals
  <2> QED
    BY <1>5, <2>2, <2>3
<1> QED
  BY <1>1, <1>6

\* The sum of one more number.
LEMMA TotalGrows ==
  /\ Total(<< >>) = 0
  /\ \A w \in Seq(Nat), x \in Nat :
       Total(w) \in Nat /\ Total(Append(w, x)) = Total(w) + x
<1>1. Total(<< >>) = 0
  <2>1. << >> \in Seq(Nat) /\ Len(<< >>) = 0
    OBVIOUS
  <2>2. Totals(<< >>, 0, RunningTotal(<< >>))
    BY <2>1, RunningTotalIs
  <2> QED
    BY <2>1, <2>2 DEF Totals, Adds, Total
<1>2. ASSUME NEW w \in Seq(Nat), NEW x \in Nat
      PROVE  Total(w) \in Nat /\ Total(Append(w, x)) = Total(w) + x
  <2> DEFINE more == Append(w, x)
             n    == Len(w)
  <2>1. /\ more \in Seq(Nat) /\ Len(more) = n + 1 /\ n \in Nat /\ more[n + 1] = x
        /\ \A i \in 1 .. n : more[i] = w[i]
    OBVIOUS
  <2>2. Totals(w, n, RunningTotal(w)) /\ Totals(more, n + 1, RunningTotal(more))
    BY <2>1, RunningTotalIs
  <2>3. Adds(more, n, RunningTotal(w))
    BY <2>1, <2>2 DEF Totals, Adds
  <2>4. RunningTotal(more)[n] = RunningTotal(w)[n]
    <3> HIDE DEF more, n
    <3>1. n + 1 \in 0 .. Len(more) /\ n \in 0 .. n + 1
      BY <2>1
    <3>2. Adds(more, n + 1, RunningTotal(more))
      BY <2>2 DEF Totals
    <3>3. \A i \in 0 .. n : RunningTotal(more)[i] = RunningTotal(w)[i]
      BY <2>1, <2>3, <3>1, <3>2, OneRunningTotal
    <3> QED
      BY <2>1, <3>3
  <2> HIDE DEF more
  <2>5. RunningTotal(more)[n + 1] = RunningTotal(w)[n] + x
    <3>1. n + 1 \in 1 .. n + 1 /\ n + 1 - 1 = n
      BY <2>1
    <3> HIDE DEF n
    <3> QED
      BY <2>1, <2>2, <2>4, <3>1 DEF Totals, Adds
  <2>6. RunningTotal(w)[n] \in Nat
    <3>1. n \in 0 .. n
      BY <2>1
    <3> HIDE DEF n
    <3> QED
      BY <2>2, <3>1 DEF Totals
  <2>7. Total(more) = Total(w) + x /\ Total(w) \in Nat
    BY <2>1, <2>5, <2>6 DEF Total
  <2> QED
    BY <2>7 DEF more
<1> QED
  BY <1>1, <1>2

LEMMA Remainder ==
  ASSUME NEW m \in Nat \ {0}, NEW q \in Nat, NEW r \in 0 .. m - 1
  PROVE  (q * m + r) % m = r
OBVIOUS

LEMMA Division ==
  ASSUME NEW m \in Nat \ {0}, NEW a \in Nat
  PROVE  \E q \in Nat : \E r \in 0 .. m - 1 : a = q * m + r
<1> DEFINE q == a \div m
           r == a - q * m
<1>1. q \in Nat /\ q * m <= a /\ a < q * m + m
  OBVIOUS
<1>2. q * m \in Nat
  OBVIOUS
<1> HIDE DEF q
<1>3. q \in Nat /\ r \in 0 .. m - 1 /\ a = q * m + r
  BY <1>1, <1>2
<1> HIDE DEF r
<1> QED
  BY <1>3

\* Counting round a counter is counting and then going round.
LEMMA RoundAgain ==
  ASSUME NEW m \in Nat \ {0}, NEW a \in Nat, NEW b \in Nat
  PROVE  ((a % m) + b) % m = (a + b) % m /\ a % m \in 0 .. m - 1
<1>1. PICK q \in Nat : \E r \in 0 .. m - 1 : a = q * m + r
  BY Division
<1>2. PICK r \in 0 .. m - 1 : a = q * m + r
  BY <1>1
<1>3. a % m = r
  BY <1>2, Remainder
<1>9. r \in Nat /\ r + b \in Nat
  BY <1>2
<1>4. PICK q2 \in Nat : \E r2 \in 0 .. m - 1 : r + b = q2 * m + r2
  BY <1>9, Division
<1>5. PICK r2 \in 0 .. m - 1 : r + b = q2 * m + r2
  BY <1>4
<1>6. (r + b) % m = r2
  BY <1>5, Remainder
<1>7. a + b = (q + q2) * m + r2 /\ q + q2 \in Nat
  BY <1>2, <1>5
<1>8. (a + b) % m = r2
  BY <1>7, Remainder
<1> QED
  BY <1>3, <1>6, <1>8

\* A sequence and the part of it behind a place grow by the same element.
LEMMA TailGrows ==
  ASSUME NEW S, NEW s \in Seq(S), NEW x \in S, NEW n \in 0 .. Len(s)
  PROVE  SubSeq(Append(s, x), n + 1, Len(Append(s, x)))
           = Append(SubSeq(s, n + 1, Len(s)), x)
<1> DEFINE t == Append(s, x)
           u == SubSeq(t, n + 1, Len(t))
           v == SubSeq(s, n + 1, Len(s))
<1>1. t \in Seq(S) /\ Len(t) = Len(s) + 1 /\ t[Len(s) + 1] = x
  OBVIOUS
<1>2. \A i \in 1 .. Len(s) - n : t[n + i] = s[n + i]
  OBVIOUS
<1>3. /\ Len(v) = Len(s) - n /\ v \in Seq(S)
      /\ \A i \in 1 .. Len(s) - n : v[i] = s[n + i]
  OBVIOUS
<1> HIDE DEF t
<1>4. Len(u) = Len(s) - n + 1 /\ u \in Seq(S)
  BY <1>1
<1>5. \A i \in 1 .. Len(s) - n + 1 : u[i] = t[n + i]
  BY <1>1
<1> HIDE DEF u, v
<1>6. /\ Append(v, x) \in Seq(S) /\ Len(Append(v, x)) = Len(u)
      /\ \A i \in 1 .. Len(s) - n : Append(v, x)[i] = v[i]
      /\ Append(v, x)[Len(s) - n + 1] = x
  BY <1>3, <1>4, AppendProperties
<1>7. \A i \in 1 .. Len(s) - n + 1 : u[i] = Append(v, x)[i]
  <2> SUFFICES ASSUME NEW i \in 1 .. Len(s) - n + 1 PROVE u[i] = Append(v, x)[i]
    OBVIOUS
  <2>1. Len(s) \in Nat /\ n \in Nat /\ i \in Nat
    OBVIOUS
  <2>2. CASE i = Len(s) - n + 1
    <3>1. n + i = Len(s) + 1
      BY <2>1, <2>2
    <3>2. u[i] = x
      BY <1>1, <1>5, <3>1
    <3> QED
      BY <1>6, <2>2, <3>2
  <2>3. CASE i # Len(s) - n + 1
    BY <1>2, <1>3, <1>5, <1>6, <2>1, <2>3
  <2> QED
    BY <2>2, <2>3
<1>8. u = Append(v, x)
  BY <1>4, <1>6, <1>7, SeqEqual
<1> QED
  BY <1>8 DEF t, u, v

\* The places of a sequence whose elements are in a set.
Places(s, T) == {i \in DOMAIN s : s[i] \in T}

\* Their number, when one more element comes.
LEMMA CountGrows ==
  ASSUME NEW S, NEW s \in Seq(S), NEW x \in S, NEW T
  PROVE  /\ Cardinality(Places(s, T)) \in Nat
         /\ Cardinality(Places(Append(s, x), T))
              = Cardinality(Places(s, T)) + (IF x \in T THEN 1 ELSE 0)
<1> DEFINE old == Places(s, T)
           new == Places(Append(s, x), T)
<1>1. old \in SUBSET (1 .. Len(s)) /\ Len(s) \in Nat
  BY DEF Places
<1>2. IsFiniteSet(1 .. Len(s))
  BY <1>1, FS_Interval
<1>3. IsFiniteSet(old) /\ Cardinality(old) \in Nat
  BY <1>1, <1>2, FS_Subset, FS_CardinalityType
<1>4. Len(s) + 1 \notin old
  BY <1>1
<1>5. new = IF x \in T THEN old \cup {Len(s) + 1} ELSE old
  BY DEF Places
<1> HIDE DEF old, new
<1>6. Cardinality(old \cup {Len(s) + 1}) = Cardinality(old) + 1
  BY <1>3, <1>4, FS_AddElement
<1>7. Cardinality(new) = Cardinality(old) + (IF x \in T THEN 1 ELSE 0)
  BY <1>3, <1>5, <1>6
<1> QED
  BY <1>3, <1>7 DEF old, new

----------------------------------------------------------------------------
(***************************************************************************)
(* The stream throughput kernel                                            *)
(***************************************************************************)
Values == 0 .. Modulus - 1

Counters == [cycles : Values, bytes : Values, ready_not_valid : Values,
             valid_not_ready : Values]

TypeOK ==
  /\ cfg_TREADY \in BOOLEAN /\ sampling_active \in BOOLEAN
  /\ started \in BOOLEAN /\ samples_TVALID \in BOOLEAN
  /\ cnt \in Counters /\ samples_TDATA \in Counters
  /\ slice \in Seq(Counters) /\ stats_buf \in Seq(Counters)
  /\ sample_count \in Nat /\ cfg_num_samples \in Nat /\ total_samples \in Nat
  /\ unasked \in Nat
  /\ pc \in {"idle", "write", "copy"}

\* The samples a configuration makes the sampler give.
Owed(num_samples) == IF num_samples = 0 THEN 1 ELSE num_samples

\* Every sample owed for this call and those before it that asked for none is still to
\* give, in the slice, or copied by this call.
SamplesAccounted ==
  /\ cfg_TREADY = ~sampling_active
  /\ samples_TVALID => sampling_active
  /\ sampling_active => sample_count < Owed(cfg_num_samples)
  /\ pc = "write" => stats_buf = << >>
  /\ pc # "copy" => Len(slice) + ToGive = unasked
  /\ pc = "copy" => Len(slice) + ToGive + Len(stats_buf) = unasked + Owed(total_samples)

ThroughputInv == TypeOK /\ SamplesAccounted

LEMMA OwedType == ASSUME NEW n \in Nat PROVE Owed(n) \in Nat \ {0}
BY DEF Owed

\* What is left to give is a number, and some as long as the sampler is active.
LEMMA ToGiveType ==
  ASSUME TypeOK, SamplesAccounted
  PROVE  /\ ToGive \in Nat /\ Len(slice) \in Nat /\ Len(stats_buf) \in Nat
         /\ sampling_active => ToGive > 0
<1>1. Len(slice) \in Nat /\ Len(stats_buf) \in Nat
  BY DEF TypeOK
<1>2. cfg_num_samples \in Nat /\ sample_count \in Nat
  BY DEF TypeOK
<1>3. CASE sampling_active
  <2>1. sample_count < Owed(cfg_num_samples) /\ Owed(cfg_num_samples) \in Nat
    BY <1>2, <1>3, OwedType DEF SamplesAccounted
  <2>2. ToGive = Owed(cfg_num_samples) - sample_count
    BY <1>3 DEF ToGive, Owed
  <2> QED
    BY <1>1, <1>2, <2>1, <2>2
<1>4. CASE ~sampling_active
  <2>1. ToGive = 0
    BY <1>4 DEF ToGive
  <2> QED
    BY <1>1, <1>4, <2>1
<1> QED
  BY <1>3, <1>4

LEMMA InvSaysLeftOver == ThroughputInv => LeftOverExact
<1> SUFFICES ASSUME ThroughputInv, pc = "idle"
             PROVE  /\ Len(slice) + ToGive = unasked
                    /\ unasked = 0 => cfg_TREADY /\ ~sampling_active /\ ~samples_TVALID
  BY DEF LeftOverExact
<1>1. TypeOK /\ SamplesAccounted
  BY DEF ThroughputInv
<1>2. Len(slice) + ToGive = unasked
  BY <1>1 DEF SamplesAccounted
<1>3. ASSUME unasked = 0 PROVE ~sampling_active
  BY <1>1, <1>2, <1>3, ToGiveType
<1>4. ASSUME unasked = 0 PROVE cfg_TREADY /\ ~samples_TVALID
  BY <1>1, <1>3, <1>4, Zenon DEF SamplesAccounted
<1> QED
  BY <1>2, <1>3, <1>4

----------------------------------------------------------------------------
(***************************************************************************)
(* The counters                                                            *)
(***************************************************************************)
LEMMA PlusInRange ==
  ASSUME NEW a \in Nat, NEW b \in Nat
  PROVE  Plus(a, b) \in Values
BY ThroughputAssumption DEF Plus, Values

LEMMA ZeroIsCounters == Zero \in Counters
BY ThroughputAssumption DEF Zero, Counters, Values

LEMMA CountedInRange ==
  ASSUME cnt \in Counters, NEW c \in Cycles
  PROVE  Counted(c) \in Counters
<1>1. /\ cnt.cycles \in Nat /\ cnt.bytes \in Nat
      /\ cnt.ready_not_valid \in Nat /\ cnt.valid_not_ready \in Nat
      /\ cnt.ready_not_valid \in Values /\ cnt.valid_not_ready \in Values
  BY DEF Counters, Values
<1>2. c.bytes \in Nat
  BY ThroughputAssumption DEF Cycles
<1>3. \A b : Tick(cnt.ready_not_valid, b) \in Values /\ Tick(cnt.valid_not_ready, b) \in Values
  BY <1>1, PlusInRange DEF Tick
<1>4. Plus(cnt.cycles, 1) \in Values /\ Plus(cnt.bytes, c.bytes) \in Values
  BY <1>1, <1>2, PlusInRange
<1>5. /\ Tick(cnt.ready_not_valid, ~c.valid /\ c.ready) \in Values
      /\ Tick(cnt.valid_not_ready, c.valid /\ ~c.ready) \in Values
  BY <1>3
<1> QED
  BY <1>4, <1>5 DEF Counted, Counters

----------------------------------------------------------------------------
LEMMA ThroughputInitially == Init => ThroughputInv
<1> SUFFICES ASSUME Init PROVE ThroughputInv
  OBVIOUS
<1>1. TypeOK
  <2>1. cnt \in Counters /\ samples_TDATA \in Counters
    BY ZeroIsCounters DEF Init
  <2>2. slice \in Seq(Counters) /\ stats_buf \in Seq(Counters)
    BY DEF Init
  <2>3. /\ cfg_TREADY \in BOOLEAN /\ sampling_active \in BOOLEAN
        /\ started \in BOOLEAN /\ samples_TVALID \in BOOLEAN
    BY DEF Init
  <2>4. /\ sample_count \in Nat /\ cfg_num_samples \in Nat /\ total_samples \in Nat
        /\ unasked \in Nat
        /\ pc \in {"idle", "write", "copy"}
    BY DEF Init
  <2> QED
    BY <2>1, <2>2, <2>3, <2>4 DEF TypeOK
<1>2. SamplesAccounted
  <2>1. /\ cfg_TREADY = TRUE /\ sampling_active = FALSE /\ samples_TVALID = FALSE
        /\ pc = "idle" /\ slice = << >> /\ unasked = 0
    BY DEF Init
  <2>2. ToGive = 0 /\ Len(slice) = 0
    BY <2>1 DEF ToGive
  <2>3. cfg_TREADY = ~sampling_active
    BY <2>1
  <2>4. Len(slice) + ToGive = unasked
    BY <2>1, <2>2
  <2>5. pc # "copy" /\ pc # "write" /\ ~sampling_active /\ ~samples_TVALID
    BY <2>1
  <2> QED
    BY <2>3, <2>4, <2>5, Zenon DEF SamplesAccounted
<1> QED
  BY <1>1, <1>2 DEF ThroughputInv

LEMMA ConfigStep == ThroughputInv /\ TakeConfig => ThroughputInv'
<1> SUFFICES ASSUME ThroughputInv, TakeConfig PROVE ThroughputInv'
  OBVIOUS
<1>1. TypeOK'
  BY ZeroIsCounters DEF ThroughputInv, TypeOK, TakeConfig
<1>2. SamplesAccounted'
  <2>1. /\ ~sampling_active /\ pc = "write" /\ pc' = "copy"
        /\ sampling_active' = TRUE /\ cfg_TREADY' = FALSE /\ samples_TVALID' = FALSE
        /\ cfg_num_samples' = total_samples /\ sample_count' = 0
        /\ UNCHANGED <<total_samples, stats_buf, slice, unasked>>
    BY DEF TakeConfig
  <2>2. stats_buf = << >> /\ Len(slice) + ToGive = unasked /\ ToGive = 0
    BY <2>1 DEF ThroughputInv, SamplesAccounted, ToGive
  <2>3. total_samples \in Nat /\ unasked \in Nat /\ Len(slice) \in Nat
    BY DEF ThroughputInv, TypeOK
  <2>4. Owed(total_samples) \in Nat \ {0} /\ Owed(total_samples)' = Owed(total_samples)
    BY <2>1, <2>3, OwedType DEF Owed
  <2>5. ToGive' = Owed(total_samples)
    BY <2>1, <2>3 DEF ToGive, Owed
  <2>6. Len(slice') + ToGive' + Len(stats_buf') = unasked' + Owed(total_samples)
    BY <2>1, <2>2, <2>3, <2>4, <2>5
  <2>7. sample_count' < Owed(cfg_num_samples)'
    BY <2>1, <2>4 DEF Owed
  <2>8. cfg_TREADY' = ~sampling_active'
    BY <2>1
  <2> QED
    BY <2>1, <2>4, <2>6, <2>7, <2>8 DEF SamplesAccounted
<1> QED
  BY <1>1, <1>2 DEF ThroughputInv

\* A sample that is taken goes to the slice; the last one ends the sampling.
LEMMA SampleStep ==
  ASSUME ThroughputInv, NEW c \in Cycles, NEW samples_TREADY,
         Sample(c, samples_TREADY)
  PROVE  ThroughputInv'
<1> DEFINE taken == samples_TVALID /\ samples_TREADY
           last  == taken /\ LastSample
<1>1. /\ sampling_active /\ started' = (~last /\ (started \/ Transfer(c)))
      /\ cnt' = NextCounters(c, taken)
      /\ samples_TDATA' = IF Prepares THEN cnt ELSE samples_TDATA
      /\ samples_TVALID' = (~taken /\ (samples_TVALID \/ Prepares))
      /\ sample_count' = IF taken THEN sample_count + 1 ELSE sample_count
      /\ sampling_active' = ~last /\ cfg_TREADY' = last
      /\ slice' = IF taken THEN Append(slice, samples_TDATA) ELSE slice
      /\ UNCHANGED <<cfg_num_samples, pc, total_samples, rate, stats_buf, calls, unasked>>
  BY DEF Sample, frontend
<1>2. TypeOK
  BY DEF ThroughputInv
<1>3. cnt \in Counters /\ samples_TDATA \in Counters /\ slice \in Seq(Counters)
  BY <1>2 DEF TypeOK
<1>4. cnt' \in Counters
  BY <1>1, <1>3, CountedInRange, ZeroIsCounters DEF NextCounters
<1>5. samples_TDATA' \in Counters
  BY <1>1, <1>3
<1>6. /\ slice' \in Seq(Counters) /\ Len(slice) \in Nat
      /\ Len(slice') = IF taken THEN Len(slice) + 1 ELSE Len(slice)
  BY <1>1, <1>3, AppendProperties, LenProperties
<1>7. /\ cfg_TREADY' \in BOOLEAN /\ sampling_active' \in BOOLEAN
      /\ started' \in BOOLEAN /\ samples_TVALID' \in BOOLEAN
  BY <1>1, Zenon
<1>8. sample_count \in Nat /\ total_samples \in Nat /\ sample_count' \in Nat
  BY <1>1, <1>2 DEF TypeOK
<1>9. TypeOK'
  BY <1>1, <1>2, <1>4, <1>5, <1>6, <1>7, <1>8 DEF TypeOK
<1>10. /\ cfg_num_samples \in Nat /\ Owed(cfg_num_samples) \in Nat \ {0}
       /\ sample_count < Owed(cfg_num_samples) /\ SamplesAccounted
       /\ Owed(cfg_num_samples)' = Owed(cfg_num_samples)
       /\ ToGive = Owed(cfg_num_samples) - sample_count
  BY <1>1, <1>2, OwedType DEF ThroughputInv, SamplesAccounted, TypeOK, ToGive, Owed
<1>11. last <=> taken /\ sample_count + 1 >= Owed(cfg_num_samples)
  BY <1>8, <1>10 DEF LastSample, Owed
<1>12. Len(stats_buf) \in Nat /\ ToGive \in Nat
  BY <1>2, <1>10, ToGiveType
<1> HIDE DEF last
<1>13. /\ Len(slice') + ToGive' = Len(slice) + ToGive
       /\ sampling_active' => sample_count' < Owed(cfg_num_samples)'
  <2>1. CASE taken
    <3>1. sample_count' = sample_count + 1 /\ Len(slice') = Len(slice) + 1
      BY <1>1, <1>6, <2>1
    <3>2. CASE sample_count + 1 >= Owed(cfg_num_samples)
      <4>1. sampling_active' = FALSE
        BY <1>1, <1>11, <2>1, <3>2
      <4>2. ToGive' = 0 /\ ToGive = 1
        BY <1>8, <1>10, <3>2, <4>1 DEF ToGive
      <4> QED
        BY <1>6, <3>1, <4>1, <4>2
    <3>3. CASE ~(sample_count + 1 >= Owed(cfg_num_samples))
      <4>1. sampling_active' = TRUE
        BY <1>1, <1>11, <3>3
      <4>2. ToGive' = Owed(cfg_num_samples)' - sample_count'
        BY <4>1 DEF ToGive, Owed
      <4>3. sample_count' < Owed(cfg_num_samples)'
        <5>1. sample_count + 1 < Owed(cfg_num_samples)
          BY <1>8, <1>10, <3>3
        <5> QED
          BY <1>10, <3>1, <5>1
      <4> QED
        BY <1>6, <1>8, <1>10, <3>1, <4>1, <4>2, <4>3
    <3> QED
      BY <3>2, <3>3
  <2>2. CASE ~taken
    <3>1. sample_count' = sample_count /\ Len(slice') = Len(slice) /\ ~last
      BY <1>1, <1>6, <1>11, <2>2
    <3>2. sampling_active' = TRUE
      BY <1>1, <3>1
    <3>3. ToGive' = Owed(cfg_num_samples)' - sample_count'
      BY <3>2 DEF ToGive, Owed
    <3> QED
      BY <1>6, <1>8, <1>10, <3>1, <3>2, <3>3
  <2> QED
    BY <2>1, <2>2
<1>14. cfg_TREADY' = ~sampling_active' /\ (samples_TVALID' => sampling_active')
  BY <1>1, <1>11
<1>15. SamplesAccounted'
  <2>1. /\ pc' = pc /\ stats_buf' = stats_buf /\ unasked' = unasked
        /\ Owed(total_samples)' = Owed(total_samples)
    BY <1>1 DEF Owed
  <2>2. pc' = "write" => stats_buf' = << >>
    BY <1>10, <2>1 DEF SamplesAccounted
  <2>3. pc' # "copy" => Len(slice') + ToGive' = unasked'
    BY <1>10, <1>13, <2>1 DEF SamplesAccounted
  <2>4. pc' = "copy" =>
          Len(slice') + ToGive' + Len(stats_buf') = unasked' + Owed(total_samples)'
    BY <1>10, <1>13, <2>1 DEF SamplesAccounted
  <2> QED
    BY <1>13, <1>14, <2>2, <2>3, <2>4 DEF SamplesAccounted
<1> QED
  BY <1>9, <1>15 DEF ThroughputInv

\* What the front end does not touch keeps what is left to give.
LEMMA ToGiveKept == UNCHANGED sampler => ToGive' = ToGive
BY DEF sampler, ToGive

LEMMA ThroughputStep == ThroughputInv /\ [Next]_vars => ThroughputInv'
<1> SUFFICES ASSUME ThroughputInv, [Next]_vars PROVE ThroughputInv'
  OBVIOUS
<1> TypeOK /\ SamplesAccounted
  BY DEF ThroughputInv
<1>1. CASE TakeConfig
  BY <1>1, ConfigStep
<1>2. CASE Idle
  <2>1. /\ ~sampling_active /\ cfg_TREADY' = TRUE
        /\ UNCHANGED <<sampling_active, started, cfg_num_samples, cfg_rate, cnt,
                       sample_count, rate_count, samples_TDATA, samples_TVALID, seen,
                       slice, pc, total_samples, rate, stats_buf, calls, unasked>>
    BY <1>2 DEF Idle, frontend
  <2>2. ToGive' = ToGive /\ Owed(total_samples)' = Owed(total_samples)
    BY <2>1 DEF ToGive, Owed
  <2>3. TypeOK'
    BY <2>1 DEF TypeOK
  <2>4. SamplesAccounted'
    BY <2>1, <2>2 DEF SamplesAccounted
  <2> QED
    BY <2>3, <2>4 DEF ThroughputInv
<1>3. ASSUME NEW c \in Cycles, NEW samples_TREADY \in {FALSE, Room}, Sample(c, samples_TREADY)
      PROVE  ThroughputInv'
  BY <1>3, SampleStep
<1>4. CASE Call
  <2>1. PICK num_samples \in Requests : total_samples' = Capped(num_samples)
    BY <1>4 DEF Call
  <2>2. total_samples' \in Nat
    BY <2>1, ThroughputAssumption DEF Capped
  <2>3. /\ pc = "idle" /\ pc' = "write" /\ stats_buf' = << >>
        /\ UNCHANGED <<sampler, slice, unasked>>
    BY <1>4 DEF Call
  <2>4. TypeOK'
    BY <2>2, <2>3 DEF TypeOK, sampler
  <2>5. ToGive' = ToGive
    BY <2>3, ToGiveKept
  <2>6. sampling_active' => sample_count' < Owed(cfg_num_samples)'
    BY <2>3 DEF SamplesAccounted, Owed, sampler
  <2>7. SamplesAccounted'
    BY <2>3, <2>5, <2>6 DEF SamplesAccounted, sampler
  <2> QED
    BY <2>4, <2>7 DEF ThroughputInv
<1>5. CASE CopySample
  <2>1. /\ pc = "copy" /\ slice # << >>
        /\ stats_buf' = Append(stats_buf, Head(slice)) /\ slice' = Tail(slice)
        /\ UNCHANGED <<sampler, pc, total_samples, rate, calls, unasked>>
    BY <1>5 DEF CopySample
  <2>2. slice \in Seq(Counters) /\ stats_buf \in Seq(Counters)
    BY DEF TypeOK
  <2>3. Head(slice) \in Counters /\ slice' \in Seq(Counters) /\ Len(slice') = Len(slice) - 1
    BY <2>1, <2>2, HeadTailProperties
  <2>4. stats_buf' \in Seq(Counters) /\ Len(stats_buf') = Len(stats_buf) + 1
    BY <2>1, <2>2, <2>3, AppendProperties
  <2>5. Len(slice) \in Nat /\ Len(stats_buf) \in Nat /\ ToGive \in Nat
    BY <2>2, ToGiveType
  <2>6. TypeOK'
    BY <2>1, <2>3, <2>4 DEF TypeOK, sampler
  <2>7. /\ ToGive' = ToGive /\ Owed(total_samples)' = Owed(total_samples)
        /\ sampling_active' => sample_count' < Owed(cfg_num_samples)'
    BY <2>1, ToGiveKept DEF SamplesAccounted, Owed, sampler
  <2>8. Len(slice') + ToGive' + Len(stats_buf') = unasked' + Owed(total_samples)'
    <3>1. Len(slice) + ToGive + Len(stats_buf) = unasked + Owed(total_samples)
      BY <2>1 DEF SamplesAccounted
    <3>2. Len(slice') + ToGive' + Len(stats_buf') = Len(slice) + ToGive + Len(stats_buf)
      BY <2>3, <2>4, <2>5, <2>7
    <3> QED
      BY <2>1, <2>7, <3>1, <3>2
  <2>9. SamplesAccounted'
    BY <2>1, <2>7, <2>8 DEF SamplesAccounted, sampler
  <2> QED
    BY <2>6, <2>9 DEF ThroughputInv
<1>6. CASE Return
  <2>1. /\ pc = "copy" /\ Len(stats_buf) = total_samples /\ pc' = "idle"
        /\ unasked' = IF total_samples = 0 THEN unasked + 1 ELSE unasked
        /\ UNCHANGED <<sampler, total_samples, rate, stats_buf, calls, slice>>
    BY <1>6 DEF Return, Full
  <2>2. /\ Len(slice) \in Nat /\ ToGive \in Nat /\ unasked \in Nat
        /\ total_samples \in Nat
    BY ToGiveType DEF TypeOK
  <2>3. TypeOK'
    BY <2>1, <2>2 DEF TypeOK, sampler
  <2>4. Len(slice) + ToGive + total_samples = unasked + Owed(total_samples)
    BY <2>1 DEF SamplesAccounted
  <2>5. Len(slice) + ToGive = unasked'
    BY <2>1, <2>2, <2>4 DEF Owed
  <2>6. ToGive' = ToGive /\ (sampling_active' => sample_count' < Owed(cfg_num_samples)')
    BY <2>1, ToGiveKept DEF SamplesAccounted, Owed, sampler
  <2>7. SamplesAccounted'
    BY <2>1, <2>5, <2>6 DEF SamplesAccounted, sampler
  <2> QED
    BY <2>3, <2>7 DEF ThroughputInv
<1>7. CASE UNCHANGED vars
  BY <1>7 DEF ThroughputInv, TypeOK, SamplesAccounted, ToGive, Owed, vars, sampler, frontend
<1> QED
  BY <1>1, <1>2, <1>3, <1>4, <1>5, <1>6, <1>7 DEF Next, Clock

\* For every request, the number 0 included, every rate, counter width and depth of the
\* slice: what is left over when the front end has returned is exactly one sample for
\* each call that asked for none.
THEOREM WhatIsLeft == Spec => []LeftOverExact
BY ThroughputInitially, ThroughputStep, InvSaysLeftOver, PTL DEF Spec

----------------------------------------------------------------------------
(***************************************************************************)
(* What a sample counts                                                    *)
(***************************************************************************)
Unused == {c \in Cycles : c.ready /\ ~c.valid}
Stalled == {c \in Cycles : c.valid /\ ~c.ready}

BytesIn(cycles) == [k \in DOMAIN cycles |-> cycles[k].bytes]

\* Tally, by places.
LEMMA TallyIs ==
  ASSUME NEW s \in Seq(Cycles)
  PROVE  Tally(s) = [cycles          |-> Len(s) % Modulus,
                     bytes           |-> Total(BytesIn(s)) % Modulus,
                     ready_not_valid |-> Cardinality(Places(s, Unused)) % Modulus,
                     valid_not_ready |-> Cardinality(Places(s, Stalled)) % Modulus]
<1>1. {k \in DOMAIN s : s[k].ready /\ ~s[k].valid} = Places(s, Unused)
  BY DEF Places, Unused
<1>2. {k \in DOMAIN s : s[k].valid /\ ~s[k].ready} = Places(s, Stalled)
  BY DEF Places, Stalled
<1> QED
  BY <1>1, <1>2, Zenon DEF Tally, Number, BytesIn

LEMMA CycleBytes ==
  ASSUME NEW s \in Seq(Cycles), NEW c \in Cycles
  PROVE  /\ c.bytes \in Nat /\ Total(BytesIn(s)) \in Nat
         /\ Total(BytesIn(Append(s, c))) = Total(BytesIn(s)) + c.bytes
<1>1. \A d \in Cycles : d.bytes \in Nat
  BY ThroughputAssumption DEF Cycles
<1>2. BytesIn(s) \in Seq(Nat) /\ Len(BytesIn(s)) = Len(s)
  <2>1. \A k \in 1 .. Len(s) : s[k].bytes \in Nat
    BY <1>1
  <2> QED
    BY <2>1, IsASeq DEF BytesIn
<1>3. BytesIn(Append(s, c)) = Append(BytesIn(s), c.bytes)
  <2> DEFINE u == BytesIn(Append(s, c))
             v == Append(BytesIn(s), c.bytes)
  <2>1. v \in Seq(Nat) /\ Len(v) = Len(s) + 1
    BY <1>1, <1>2, AppendProperties
  <2>2. ASSUME NEW k \in 1 .. Len(s) PROVE u[k] = v[k]
    <3>1. u[k] = s[k].bytes
      BY DEF BytesIn
    <3>2. v[k] = BytesIn(s)[k]
      BY <1>1, <1>2, AppendProperties
    <3> QED
      BY <3>1, <3>2 DEF BytesIn
  <2>3. u[Len(s) + 1] = c.bytes
    BY DEF BytesIn
  <2>4. v[Len(s) + 1] = c.bytes
    BY <1>1, <1>2, AppendProperties
  <2>5. u = [k \in 1 .. Len(s) + 1 |-> u[k]]
    BY DEF BytesIn
  <2> HIDE DEF u, v
  <2>6. \A k \in 1 .. Len(s) + 1 : u[k] = v[k]
    BY <2>2, <2>3, <2>4
  <2>7. v = [k \in 1 .. Len(s) + 1 |-> v[k]]
    BY <2>1
  <2>8. u = v
    BY <2>5, <2>6, <2>7
  <2> QED
    BY <2>8 DEF u, v
<1> QED
  BY <1>1, <1>2, <1>3, TotalGrows

\* A counter that holds a number modulo its width is still right after a step.
LEMMA PlusCounts ==
  ASSUME NEW a \in Nat, NEW b \in Nat
  PROVE  Plus(a % Modulus, b) = (a + b) % Modulus
BY RoundAgain, ThroughputAssumption DEF Plus

LEMMA TickCounts ==
  ASSUME NEW a \in Nat, NEW condition \in BOOLEAN
  PROVE  Tick(a % Modulus, condition) = (a + (IF condition THEN 1 ELSE 0)) % Modulus
<1>1. CASE condition
  BY <1>1, PlusCounts DEF Tick
<1>2. CASE ~condition
  <2>1. a + 0 = a
    OBVIOUS
  <2> QED
    BY <1>2, <2>1 DEF Tick
<1> QED
  BY <1>1, <1>2

\* The counters count one cycle more.
LEMMA CountedIsTally ==
  ASSUME NEW s \in Seq(Cycles), NEW c \in Cycles, cnt = Tally(s)
  PROVE  Counted(c) = Tally(Append(s, c))
<1> DEFINE unused  == Cardinality(Places(s, Unused))
           stalled == Cardinality(Places(s, Stalled))
           bytes   == Total(BytesIn(s))
<1>1. /\ Len(s) \in Nat /\ unused \in Nat /\ stalled \in Nat /\ bytes \in Nat
      /\ Append(s, c) \in Seq(Cycles) /\ Len(Append(s, c)) = Len(s) + 1
      /\ c.bytes \in Nat /\ Total(BytesIn(Append(s, c))) = bytes + c.bytes
  BY CountGrows, CycleBytes, AppendProperties, LenProperties
<1>2. /\ Cardinality(Places(Append(s, c), Unused))
           = unused + (IF ~c.valid /\ c.ready THEN 1 ELSE 0)
      /\ Cardinality(Places(Append(s, c), Stalled))
           = stalled + (IF c.valid /\ ~c.ready THEN 1 ELSE 0)
  <2>1. /\ c \in Unused <=> ~c.valid /\ c.ready
        /\ c \in Stalled <=> c.valid /\ ~c.ready
    BY DEF Unused, Stalled
  <2>2. /\ Cardinality(Places(Append(s, c), Unused))
             = unused + (IF c \in Unused THEN 1 ELSE 0)
        /\ Cardinality(Places(Append(s, c), Stalled))
             = stalled + (IF c \in Stalled THEN 1 ELSE 0)
    BY CountGrows
  <2> QED
    BY <2>1, <2>2, Zenon
<1>3. /\ cnt.cycles = Len(s) % Modulus /\ cnt.bytes = bytes % Modulus
      /\ cnt.ready_not_valid = unused % Modulus /\ cnt.valid_not_ready = stalled % Modulus
  BY TallyIs
<1>4. Tally(Append(s, c)) =
        [cycles          |-> Len(Append(s, c)) % Modulus,
         bytes           |-> Total(BytesIn(Append(s, c))) % Modulus,
         ready_not_valid |-> Cardinality(Places(Append(s, c), Unused)) % Modulus,
         valid_not_ready |-> Cardinality(Places(Append(s, c), Stalled)) % Modulus]
  BY <1>1, TallyIs
<1> HIDE DEF unused, stalled, bytes
<1>5. /\ Plus(cnt.cycles, 1) = (Len(s) + 1) % Modulus
      /\ Plus(cnt.bytes, c.bytes) = (bytes + c.bytes) % Modulus
  BY <1>1, <1>3, PlusCounts
<1>6. (~c.valid /\ c.ready) \in BOOLEAN /\ (c.valid /\ ~c.ready) \in BOOLEAN
  OBVIOUS
<1>7. /\ Tick(cnt.ready_not_valid, ~c.valid /\ c.ready)
           = (unused + (IF ~c.valid /\ c.ready THEN 1 ELSE 0)) % Modulus
      /\ Tick(cnt.valid_not_ready, c.valid /\ ~c.ready)
           = (stalled + (IF c.valid /\ ~c.ready THEN 1 ELSE 0)) % Modulus
  BY <1>1, <1>3, <1>6, TickCounts, Zenon
<1> QED
  BY <1>1, <1>2, <1>4, <1>5, <1>7, Zenon DEF Counted

LEMMA ZeroIsTally == Tally(<< >>) = Zero /\ << >> \in Seq(Cycles)
<1>1. << >> \in Seq(Cycles) /\ Len(<< >>) = 0
  OBVIOUS
<1>2. \A T : Places(<< >>, T) = {}
  BY DEF Places
<1>3. BytesIn(<< >>) = << >>
  BY DEF BytesIn
<1>4. Cardinality({}) = 0 /\ Total(<< >>) = 0 /\ 0 % Modulus = 0
  BY FS_EmptySet, TotalGrows, ThroughputAssumption
<1> QED
  BY <1>1, <1>2, <1>3, <1>4, TallyIs DEF Zero

\* The counters count every cycle since the last sample, and a sample that waits is packed
\* again in every cycle.
SampleInv ==
  /\ seen \in Seq(Cycles)
  /\ cnt = Tally(seen)
  /\ samples_TVALID \in BOOLEAN /\ started \in BOOLEAN
  /\ samples_TVALID =>
       /\ Prepares /\ seen # << >>
       /\ samples_TDATA = Tally(SubSeq(seen, 1, Len(seen) - 1))

LEMMA SampleInvStep ==
  ASSUME SampleInv, NEW c \in Cycles, NEW samples_TREADY, Sample(c, samples_TREADY)
  PROVE  SampleInv'
<1> DEFINE taken == samples_TVALID /\ samples_TREADY
           last  == taken /\ LastSample
<1>1. /\ started' = (~last /\ (started \/ Transfer(c)))
      /\ cnt' = NextCounters(c, taken)
      /\ samples_TDATA' = IF Prepares THEN cnt ELSE samples_TDATA
      /\ samples_TVALID' = (~taken /\ (samples_TVALID \/ Prepares))
      /\ rate_count' = IF taken THEN 0
                       ELSE IF started /\ ~Prepares THEN rate_count + 1 ELSE rate_count
      /\ seen' = IF taken THEN << >> ELSE IF started THEN Append(seen, c) ELSE seen
      /\ cfg_rate' = cfg_rate
  BY DEF Sample
<1>2. /\ seen \in Seq(Cycles) /\ cnt = Tally(seen)
      /\ samples_TVALID => Prepares
  BY DEF SampleInv
<1>3. samples_TVALID' \in BOOLEAN /\ started' \in BOOLEAN
  BY <1>1, Zenon
<1>4. CASE taken
  <2>1. seen' = << >> /\ cnt' = Zero /\ samples_TVALID' = FALSE
    BY <1>1, <1>4 DEF NextCounters
  <2> QED
    BY <1>3, <2>1, ZeroIsTally DEF SampleInv
<1>5. CASE ~taken /\ ~started
  <2>1. ~Prepares /\ seen' = seen /\ cnt' = cnt
    BY <1>1, <1>5 DEF Prepares, NextCounters
  <2>2. samples_TVALID' = FALSE
    BY <1>1, <1>2, <2>1
  <2> QED
    BY <1>2, <1>3, <2>1, <2>2 DEF SampleInv
<1>6. CASE ~taken /\ started
  <2>1. seen' = Append(seen, c) /\ cnt' = Counted(c)
    BY <1>1, <1>6 DEF NextCounters
  <2>2. /\ seen' \in Seq(Cycles) /\ cnt' = Tally(seen') /\ seen' # << >>
    BY <1>2, <2>1, CountedIsTally, AppendProperties
  <2>3. CASE Prepares
    <3>1. rate_count' = rate_count /\ cfg_rate' = cfg_rate /\ started' = TRUE
      BY <1>1, <1>6, <2>3
    <3>2. Prepares'
      BY <2>3, <3>1 DEF Prepares
    <3>3. samples_TDATA' = Tally(seen)
      BY <1>1, <1>2, <2>3
    <3>4. SubSeq(seen', 1, Len(seen') - 1) = seen
      BY <1>2, <2>1
    <3> QED
      BY <1>3, <2>2, <3>2, <3>3, <3>4 DEF SampleInv
  <2>4. CASE ~Prepares
    <3>1. samples_TVALID' = FALSE
      BY <1>1, <1>2, <2>4
    <3> QED
      BY <1>3, <2>2, <3>1 DEF SampleInv
  <2> QED
    BY <2>3, <2>4
<1> QED
  BY <1>4, <1>5, <1>6

\* For any rate, counter width, traffic and pace of the front end, a sample that is on offer
\* counts every cycle since the last one was taken, or since the first beat, but the one in
\* which it was packed, modulo the width of the counters (stream_throughput.sv:142-187).
THEOREM SamplesExact == Spec => []SampleExact
<1>1. Init => SampleInv
  <2> SUFFICES ASSUME Init PROVE SampleInv
    OBVIOUS
  <2>1. seen = << >> /\ cnt = Zero /\ samples_TVALID = FALSE /\ started = FALSE
    BY DEF Init
  <2> QED
    BY <2>1, ZeroIsTally DEF SampleInv
<1>2. SampleInv /\ [Next]_vars => SampleInv'
  <2> SUFFICES ASSUME SampleInv, [Next]_vars PROVE SampleInv'
    OBVIOUS
  <2>1. CASE TakeConfig
    <3>1. seen' = << >> /\ cnt' = Zero /\ samples_TVALID' = FALSE /\ started' = FALSE
      BY <2>1 DEF TakeConfig
    <3> QED
      BY <3>1, ZeroIsTally DEF SampleInv
  <2>2. ASSUME NEW c \in Cycles, NEW samples_TREADY \in {FALSE, Room},
               Sample(c, samples_TREADY)
        PROVE  SampleInv'
    BY <2>2, SampleInvStep
  <2>3. CASE Idle \/ Call \/ CopySample \/ Return \/ UNCHANGED vars
    <3>1. UNCHANGED <<seen, cnt, samples_TVALID, samples_TDATA, started, rate_count, cfg_rate>>
      BY <2>3 DEF Idle, Call, CopySample, Return, vars, sampler
    <3>2. Prepares' <=> Prepares
      BY <3>1 DEF Prepares
    <3> QED
      BY <3>1, <3>2 DEF SampleInv
  <2> QED
    BY <2>1, <2>2, <2>3 DEF Next, Clock
<1>3. SampleInv => SampleExact
  BY DEF SampleInv, SampleExact
<1> QED
  BY <1>1, <1>2, <1>3, PTL DEF Spec

----------------------------------------------------------------------------
(***************************************************************************)
(* krnl_counters                                                           *)
(***************************************************************************)
CounterTypes ==
  /\ in \in Beat \cup {None} /\ out \in Beat \cup {None}
  /\ sent \in Seq(Beat) /\ received \in Seq(Beat)
  /\ since \in 0 .. Len(Passed)

CountersInv == CounterTypes /\ PassesOn

\* A full register adds its beat to what is behind it, an empty one nothing.
LEMMA WaitingBeats ==
  ASSUME NEW beats \in Seq(Beat)
  PROVE  /\ beats \o Waiting(None) = beats
         /\ \A b \in Beat : beats \o Waiting(b) = Append(beats, b)
         /\ \A s \in Beat \cup {None} : beats \o Waiting(s) \in Seq(Beat)
<1>1. beats \o Waiting(None) = beats
  BY DEF Waiting
<1>2. ASSUME NEW b \in Beat PROVE beats \o Waiting(b) = Append(beats, b)
  <2>1. Waiting(b) = <<b>>
    BY NoBeatAssumption DEF Waiting
  <2> QED
    BY <2>1, AppendIsConcat
<1>3. ASSUME NEW s \in Beat \cup {None} PROVE beats \o Waiting(s) \in Seq(Beat)
  <2>1. CASE s = None
    BY <1>1, <2>1
  <2>2. CASE s # None
    <3>1. s \in Beat /\ beats \o Waiting(s) = Append(beats, s)
      BY <1>2, <2>2
    <3> QED
      BY <3>1, AppendProperties
  <2> QED
    BY <2>1, <2>2
<1> QED
  BY <1>1, <1>2, <1>3

\* A step moves a beat along, and does not lose, repeat or change one; what the kernel has
\* passed on grows by the beat it passes on and is otherwise the same.
LEMMA CountersInvStep ==
  ASSUME CountersInv, [CountersNext]_counterVars
  PROVE  /\ CountersInv'
         /\ \/ Pass /\ in \in Beat /\ Passed' = Append(Passed, in) /\ since' = since
            \/ ResetOrIdle /\ Passed' = Passed /\ Passed = sent
            \/ Passed' = Passed /\ UNCHANGED <<counters, since>>
<1>1. /\ in \in Beat \cup {None} /\ out \in Beat \cup {None}
      /\ sent \in Seq(Beat) /\ received \in Seq(Beat) /\ since \in 0 .. Len(Passed)
      /\ sent = Passed \o Waiting(in)
  BY DEF CountersInv, CounterTypes, PassesOn, Passed
<1>2. Passed \in Seq(Beat)
  BY <1>1, WaitingBeats DEF Passed
<1>3. CASE krnl_counters /\ Pass
  <2>1. /\ in \in Beat /\ out = None /\ out' = in /\ in' = None
        /\ sent' = sent /\ received' = received /\ since' = since
    BY <1>1, <1>3 DEF krnl_counters, Pass, MayPass
  <2>2. Passed = received /\ Passed' = Append(received, in)
    BY <1>1, <2>1, WaitingBeats DEF Passed
  <2>3. sent' = Append(Passed, in) /\ Passed' \o Waiting(in') = Passed'
    <3>1. Passed' \in Seq(Beat)
      BY <1>1, <2>1, <2>2, AppendProperties
    <3> QED
      BY <1>1, <1>2, <2>1, <3>1, WaitingBeats
  <2>4. PassesOn'
    BY <2>2, <2>3 DEF PassesOn, Passed
  <2>5. Len(Passed') = Len(Passed) + 1 /\ Len(Passed) \in Nat
    BY <1>2, <2>1, <2>2, AppendProperties, LenProperties
  <2>6. CounterTypes'
    BY <1>1, <2>1, <2>5 DEF CounterTypes
  <2> QED
    BY <1>3, <2>1, <2>2, <2>4, <2>6 DEF CountersInv
<1>4. CASE krnl_counters /\ ResetOrIdle
  <2>1. /\ in = None /\ UNCHANGED <<in, out, sent, received>>
        /\ since' \in {since, Len(sent)}
    BY <1>4 DEF krnl_counters, ResetOrIdle
  <2>2. Passed' = Passed /\ sent = Passed
    BY <1>1, <1>2, <2>1, WaitingBeats DEF Passed
  <2>3. PassesOn'
    BY <2>1 DEF CountersInv, PassesOn, Passed
  <2>4. CounterTypes'
    BY <1>1, <1>2, <2>1, <2>2, LenProperties DEF CounterTypes
  <2> QED
    BY <1>4, <2>2, <2>3, <2>4 DEF CountersInv
<1>5. CASE Send
  <2>1. PICK beat \in Beat : in' = beat /\ sent' = Append(sent, beat)
    BY <1>5 DEF Send
  <2>2. in = None /\ UNCHANGED <<out, counters, received, since>>
    BY <1>5 DEF Send
  <2>3. Passed' = Passed /\ sent = Passed
    BY <1>1, <1>2, <2>2, WaitingBeats DEF Passed
  <2>4. sent' = Passed \o Waiting(in')
    BY <1>2, <2>1, <2>3, WaitingBeats
  <2>5. PassesOn'
    BY <2>3, <2>4 DEF PassesOn, Passed
  <2>6. CounterTypes'
    BY <1>1, <2>1, <2>2, <2>3, AppendProperties DEF CounterTypes
  <2> QED
    BY <2>2, <2>3, <2>5, <2>6 DEF CountersInv
<1>6. CASE Receive
  <2>1. /\ out \in Beat /\ out' = None /\ received' = Append(received, out)
        /\ UNCHANGED <<in, counters, sent, since>>
    BY <1>1, <1>6 DEF Receive
  <2>2. received' \in Seq(Beat)
    BY <1>1, <2>1, AppendProperties
  <2>3. Passed' = Passed
    BY <1>1, <2>1, <2>2, WaitingBeats DEF Passed
  <2>4. PassesOn'
    BY <1>1, <2>1, <2>3 DEF PassesOn, Passed
  <2>5. CounterTypes'
    BY <1>1, <2>1, <2>2, <2>3 DEF CounterTypes
  <2> QED
    BY <2>1, <2>3, <2>4, <2>5 DEF CountersInv
<1>7. CASE ResetCounters \/ WriteReset \/ UNCHANGED counterVars
  <2>1. UNCHANGED <<in, out, counters, sent, received, since>>
    BY <1>7 DEF ResetCounters, WriteReset, counterVars
  <2>2. Passed' = Passed
    BY <2>1 DEF Passed
  <2>3. PassesOn' /\ CounterTypes'
    BY <1>1, <2>1, <2>2 DEF CountersInv, PassesOn, CounterTypes
  <2> QED
    BY <2>1, <2>2, <2>3 DEF CountersInv
<1> QED
  BY <1>3, <1>4, <1>5, <1>6, <1>7 DEF CountersNext, krnl_counters

LEMMA CountersInitially == CountersInit => CountersInv
<1> SUFFICES ASSUME CountersInit PROVE CountersInv
  OBVIOUS
<1>1. /\ in = None /\ out = None /\ sent = << >> /\ received = << >> /\ since = 0
      /\ << >> \in Seq(Beat)
  BY DEF CountersInit
<1>2. Passed = << >>
  BY <1>1, WaitingBeats DEF Passed
<1>3. PassesOn
  BY <1>1, <1>2, WaitingBeats DEF PassesOn, Passed
<1>4. CounterTypes
  BY <1>1, <1>2 DEF CounterTypes
<1> QED
  BY <1>3, <1>4 DEF CountersInv

LEMMA CountersInvariance == CountersSpec => []CountersInv
<1>1. CountersInv /\ [CountersNext]_counterVars => CountersInv'
  BY CountersInvStep, Zenon
<1> QED
  BY CountersInitially, <1>1, PTL DEF CountersSpec

\* For any masks, at any pace of the sender, the receiver and the host, every beat leaves
\* once, in order and unchanged (krnl_counters.cpp:77-79).
THEOREM BeatsPassOn == CountersSpec => []PassesOn
<1>1. CountersInv => PassesOn
  BY DEF CountersInv
<1> QED
  BY <1>1, CountersInvariance, PTL

----------------------------------------------------------------------------
\* keep2len returns the number of bytes up to the last one that is kept, for every mask of
\* 64 bits and whatever holes it has (krnl_counters.cpp:100-232).
THEOREM keep2lenExact ==
  ASSUME NEW keep \in SUBSET (0 .. 63)
  PROVE  keep2len(keep) = Length(keep) /\ Length(keep) \in 0 .. 64
<1> DEFINE Holds(n) == /\ \A b \in keep : b < n
                       /\ n = 0 \/ n - 1 \in keep
<1>1. ASSUME NEW m \in 0 .. 64, NEW n \in 0 .. 64, Holds(m), Holds(n) PROVE m = n
  <2>1. m > n => m - 1 \in keep /\ m - 1 < n
    BY <1>1
  <2>2. n > m => n - 1 \in keep /\ n - 1 < m
    BY <1>1
  <2> QED
    BY <2>1, <2>2
<1>2. ASSUME NEW n \in 0 .. 64, Holds(n) PROVE Length(keep) = n
  BY <1>1, <1>2 DEF Length
<1>3. CASE keep = {}
  <2>1. Holds(0)
    BY <1>3
  <2> QED
    BY <1>2, <1>3, <2>1 DEF keep2len
<1>4. CASE keep # {}
  <2> DEFINE highest == {n \in Nat : \A b \in keep : b <= n}
  <2>1. 63 \in highest
    OBVIOUS
  <2>2. PICK n \in highest : \A m \in highest : n <= m
    BY <2>1, LeastNumber
  <2>3. n \in Nat /\ n <= 63 /\ \A b \in keep : b <= n
    BY <2>1, <2>2
  <2>4. n \in keep
    <3> SUFFICES ASSUME n \notin keep PROVE FALSE
      OBVIOUS
    <3>1. \A b \in keep : b \in Nat /\ b < n
      BY <2>3
    <3>2. n > 0 /\ n - 1 \in Nat
      <4>1. PICK b \in keep : TRUE
        BY <1>4
      <4> QED
        BY <2>3, <3>1, <4>1
    <3>3. n - 1 \in highest
      BY <3>1, <3>2
    <3> QED
      BY <2>2, <2>3, <3>3
  <2> HIDE DEF highest
  <2>5. \A b \in keep : b \in Nat
    OBVIOUS
  <2>6. Max(keep) = n
    <3>1. \A y \in keep : (\A z \in keep : y >= z) => y = n
      BY <2>3, <2>4, <2>5
    <3>2. \A z \in keep : n >= z
      BY <2>3, <2>5
    <3> QED
      BY <2>4, <3>1, <3>2 DEF Max
  <2>7. keep2len(keep) = n + 1 /\ n + 1 \in 0 .. 64
    <3>1. keep2len(keep) = Max(keep) + 1
      BY <1>4, Zenon DEF keep2len
    <3> QED
      BY <2>3, <2>6, <3>1
  <2>8. Holds(n + 1)
    BY <2>3, <2>4, <2>5
  <2> QED
    BY <1>2, <2>7, <2>8
<1> QED
  BY <1>3, <1>4

\* A number of bytes is added for every beat.
LengthsOf(beats) == [i \in DOMAIN beats |-> Length(beats[i].keep)]

LEMMA BytesGrow ==
  ASSUME NEW beats \in Seq(Beat), NEW b \in Beat
  PROVE  /\ Total(LengthsOf(<< >>)) = 0
         /\ Total(LengthsOf(beats)) \in Nat
         /\ Length(b.keep) \in Nat /\ keep2len(b.keep) = Length(b.keep)
         /\ Total(LengthsOf(Append(beats, b))) = Total(LengthsOf(beats)) + Length(b.keep)
<1>1. ASSUME NEW c \in Beat
      PROVE  Length(c.keep) \in Nat /\ keep2len(c.keep) = Length(c.keep)
  <2>1. c.keep \in SUBSET (0 .. 63)
    BY KeepsAssumption DEF Beat
  <2>2. keep2len(c.keep) = Length(c.keep) /\ Length(c.keep) \in 0 .. 64
    BY <2>1, keep2lenExact
  <2>3. \A n \in 0 .. 64 : n \in Nat
    OBVIOUS
  <2> QED
    BY <2>2, <2>3, Zenon
<1>2. LengthsOf(beats) \in Seq(Nat)
  <2>1. \A i \in 1 .. Len(beats) : Length(beats[i].keep) \in Nat
    BY <1>1
  <2> QED
    BY <2>1, IsASeq DEF LengthsOf
<1>3. LengthsOf(Append(beats, b)) = Append(LengthsOf(beats), Length(b.keep))
  <2>1. DOMAIN LengthsOf(Append(beats, b)) = 1 .. Len(beats) + 1
    BY DEF LengthsOf
  <2>2. Len(LengthsOf(beats)) = Len(beats)
    BY <1>2 DEF LengthsOf
  <2> DEFINE u == LengthsOf(Append(beats, b))
             v == Append(LengthsOf(beats), Length(b.keep))
  <2>3. v \in Seq(Nat) /\ Len(v) = Len(beats) + 1
    BY <1>1, <1>2, <2>2, AppendProperties
  <2>4. ASSUME NEW i \in 1 .. Len(beats) PROVE u[i] = v[i]
    <3>1. u[i] = Length(beats[i].keep)
      BY DEF LengthsOf
    <3>2. v[i] = LengthsOf(beats)[i]
      BY <1>1, <1>2, <2>2, AppendProperties
    <3> QED
      BY <3>1, <3>2 DEF LengthsOf
  <2>5. u[Len(beats) + 1] = Length(b.keep)
    BY <2>1 DEF LengthsOf
  <2>6. v[Len(beats) + 1] = Length(b.keep)
    BY <1>1, <1>2, <2>2, AppendProperties
  <2>7. u = [i \in 1 .. Len(beats) + 1 |-> u[i]]
    BY <2>1 DEF LengthsOf
  <2> HIDE DEF u, v
  <2>8. \A i \in 1 .. Len(beats) + 1 : u[i] = v[i]
    BY <2>4, <2>5, <2>6
  <2>9. v = [i \in 1 .. Len(beats) + 1 |-> v[i]]
    BY <2>3
  <2>10. u = v
    BY <2>7, <2>8, <2>9
  <2> QED
    BY <2>10 DEF u, v
<1>4. LengthsOf(<< >>) = << >>
  BY DEF LengthsOf
<1> QED
  BY <1>1, <1>2, <1>3, <1>4, TotalGrows

LastBeats == {beat \in Beat : beat.last}

\* The counters of a sequence of beats, and of one beat more.
CountersAre(beats) ==
  /\ beats_i = Len(beats) % Counts
  /\ pkts_i = Cardinality({i \in DOMAIN beats : beats[i].last}) % Counts
  /\ bytes_i = Total(LengthsOf(beats)) % Counts

LEMMA PacketsGrow ==
  ASSUME NEW beats \in Seq(Beat), NEW b \in Beat
  PROVE  /\ Cardinality({i \in DOMAIN beats : beats[i].last}) \in Nat
         /\ Cardinality({i \in DOMAIN Append(beats, b) : Append(beats, b)[i].last})
              = Cardinality({i \in DOMAIN beats : beats[i].last}) + (IF b.last THEN 1 ELSE 0)
<1>1. ASSUME NEW s \in Seq(Beat)
      PROVE  {i \in DOMAIN s : s[i].last} = Places(s, LastBeats)
  BY DEF LastBeats, Places
<1>2. Append(beats, b) \in Seq(Beat)
  BY AppendProperties
<1>3. b.last <=> b \in LastBeats
  BY DEF LastBeats
<1>4. /\ Cardinality(Places(beats, LastBeats)) \in Nat
      /\ Cardinality(Places(Append(beats, b), LastBeats))
           = Cardinality(Places(beats, LastBeats)) + (IF b \in LastBeats THEN 1 ELSE 0)
  BY CountGrows
<1>5. /\ {i \in DOMAIN beats : beats[i].last} = Places(beats, LastBeats)
      /\ {i \in DOMAIN Append(beats, b) : Append(beats, b)[i].last}
           = Places(Append(beats, b), LastBeats)
  BY <1>1, <1>2, Zenon
<1> QED
  BY <1>3, <1>4, <1>5, Zenon

\* The kernel adds what the beat it passes on adds.
LEMMA PassCounts ==
  ASSUME NEW beats \in Seq(Beat), in \in Beat, CountersAre(beats), Pass
  PROVE  /\ beats_i' = Len(Append(beats, in)) % Counts
         /\ pkts_i' = Cardinality({i \in DOMAIN Append(beats, in) :
                                     Append(beats, in)[i].last}) % Counts
         /\ bytes_i' = Total(LengthsOf(Append(beats, in))) % Counts
<1> DEFINE packets == Cardinality({i \in DOMAIN beats : beats[i].last})
           bytes   == Total(LengthsOf(beats))
<1>1. /\ Len(beats) \in Nat /\ packets \in Nat /\ bytes \in Nat
      /\ Len(Append(beats, in)) = Len(beats) + 1
      /\ Length(in.keep) \in Nat /\ keep2len(in.keep) = Length(in.keep)
      /\ Total(LengthsOf(Append(beats, in))) = bytes + Length(in.keep)
  BY AppendProperties, LenProperties, BytesGrow, PacketsGrow
<1>2. Cardinality({i \in DOMAIN Append(beats, in) : Append(beats, in)[i].last})
        = packets + (IF in.last THEN 1 ELSE 0)
  BY PacketsGrow
<1> HIDE DEF packets, bytes
<1>3. /\ beats_i = Len(beats) % Counts /\ pkts_i = packets % Counts
      /\ bytes_i = bytes % Counts
  BY DEF CountersAre, packets, bytes
<1>4. /\ beats_i' = (beats_i + 1) % Counts
      /\ bytes_i' = (bytes_i + Length(in.keep)) % Counts
      /\ pkts_i' = IF in.last THEN (pkts_i + 1) % Counts ELSE pkts_i
  BY <1>1 DEF Pass, CountOn
<1>5. beats_i' = Len(Append(beats, in)) % Counts
  <2>1. ((Len(beats) % Counts) + 1) % Counts = (Len(beats) + 1) % Counts
    BY <1>1, RoundAgain, CountsAssumption
  <2> QED
    BY <1>1, <1>3, <1>4, <2>1
<1>6. bytes_i' = Total(LengthsOf(Append(beats, in))) % Counts
  <2>1. ((bytes % Counts) + Length(in.keep)) % Counts = (bytes + Length(in.keep)) % Counts
    BY <1>1, RoundAgain, CountsAssumption
  <2> QED
    BY <1>1, <1>3, <1>4, <2>1
<1>7. pkts_i' = (packets + (IF in.last THEN 1 ELSE 0)) % Counts
  <2>1. CASE in.last
    BY <1>1, <1>3, <1>4, <2>1, RoundAgain, CountsAssumption
  <2>2. CASE ~in.last
    <3>1. pkts_i' = packets % Counts /\ packets + 0 = packets
      BY <1>1, <1>3, <1>4, <2>2
    <3> QED
      BY <2>2, <3>1
  <2> QED
    BY <2>1, <2>2
<1> QED
  BY <1>2, <1>5, <1>6, <1>7

LEMMA NothingCounts ==
  /\ 0 = Len(<< >>) % Counts
  /\ 0 = Cardinality({i \in DOMAIN << >> : << >>[i].last}) % Counts
  /\ 0 = Total(LengthsOf(<< >>)) % Counts
<1>1. 0 % Counts = 0
  BY CountsAssumption
<1>2. {i \in DOMAIN << >> : << >>[i].last} = {} /\ Cardinality({}) = 0 /\ Len(<< >>) = 0
  BY FS_EmptySet
<1>3. LengthsOf(<< >>) = << >> /\ Total(<< >>) = 0
  BY TotalGrows DEF LengthsOf
<1> QED
  BY <1>1, <1>2, <1>3

\* For any masks and any width of the counters, at any pace of the sender, the receiver and
\* the host's reset pulse, the counters are those of the beats passed on since the last reset
\* that was seen, modulo the width (krnl_counters.cpp:77-90, 100-232).
THEOREM CountsExact == CountersSpec => []CountersExact
<1> DEFINE CountInv == CountersInv /\ CountersExact
<1>1. CountersExact <=> CountersAre(SinceReset)
  BY Zenon DEF CountersExact, CountersAre, LengthsOf
<1>2. CountersInit => CountInv
  <2> SUFFICES ASSUME CountersInit PROVE CountInv
    OBVIOUS
  <2>1. CountersInv
    BY CountersInitially
  <2>2. Passed = << >> /\ since = 0
    <3>1. received = << >> /\ out = None /\ since = 0 /\ << >> \in Seq(Beat)
      BY DEF CountersInit
    <3> QED
      BY <3>1, WaitingBeats DEF Passed
  <2>3. SinceReset = << >>
    BY <2>2 DEF SinceReset
  <2>4. beats_i = 0 /\ pkts_i = 0 /\ bytes_i = 0
    BY DEF CountersInit
  <2>5. CountersAre(<< >>)
    BY <2>4, NothingCounts, Zenon DEF CountersAre
  <2> QED
    BY <1>1, <2>1, <2>3, <2>5
<1>3. CountInv /\ [CountersNext]_counterVars => CountInv'
  <2> SUFFICES ASSUME CountInv, [CountersNext]_counterVars PROVE CountInv'
    OBVIOUS
  <2>1. CountersInv' /\ Passed \in Seq(Beat) /\ since \in 0 .. Len(Passed)
    BY CountersInvStep, WaitingBeats DEF CountersInv, CounterTypes, Passed
  <2>2. SinceReset \in Seq(Beat)
    BY <2>1 DEF SinceReset
  <2>3. CASE Pass /\ in \in Beat /\ Passed' = Append(Passed, in) /\ since' = since
    <3>1. SinceReset' = Append(SinceReset, in)
      BY <2>1, <2>3, TailGrows DEF SinceReset
    <3>2. CountersAre(SinceReset)
      BY <1>1
    <3>3. /\ beats_i' = Len(SinceReset') % Counts
          /\ pkts_i' = Cardinality({i \in DOMAIN SinceReset' : SinceReset'[i].last}) % Counts
          /\ bytes_i' = Total(LengthsOf(SinceReset')) % Counts
      BY <2>2, <2>3, <3>1, <3>2, PassCounts
    <3> QED
      BY <2>1, <3>3, Zenon DEF CountersExact, LengthsOf
  <2>4. CASE Passed' = Passed /\ UNCHANGED <<counters, since>>
    <3>1. SinceReset' = SinceReset /\ UNCHANGED <<beats_i, pkts_i, bytes_i>>
      BY <2>4 DEF SinceReset, counters
    <3> QED
      BY <2>1, <3>1 DEF CountersExact
  <2>5. CASE ResetOrIdle /\ Passed' = Passed /\ Passed = sent /\ ~(UNCHANGED <<counters, since>>)
    <3>1. /\ beats_i' = 0 /\ pkts_i' = 0 /\ bytes_i' = 0 /\ since' = Len(Passed')
      BY <2>5 DEF ResetOrIdle
    <3>2. SinceReset' = << >>
      BY <2>1, <2>5, <3>1 DEF SinceReset
    <3>3. /\ beats_i' = Len(SinceReset') % Counts
          /\ pkts_i' = Cardinality({i \in DOMAIN SinceReset' : SinceReset'[i].last}) % Counts
          /\ bytes_i' = Total(LengthsOf(SinceReset')) % Counts
      BY <3>1, <3>2, NothingCounts, Zenon
    <3> QED
      BY <2>1, <3>3, Zenon DEF CountersExact, LengthsOf
  <2> QED
    BY <2>3, <2>4, <2>5, CountersInvStep
<1>4. CountInv => CountersExact
  OBVIOUS
<1> QED
  BY <1>2, <1>3, <1>4, PTL DEF CountersSpec

----------------------------------------------------------------------------
(***************************************************************************)
(* The registers and the padding of a frame                                *)
(***************************************************************************)
Stage == [valid : BOOLEAN, data : [LaneNo -> Bytes], keep : SUBSET LaneNo, last : BOOLEAN]

\* A stage holds a beat: its lanes that are kept, whatever is in the others.
Holds(stage, beat) ==
  /\ stage.keep = beat.keep /\ stage.last = beat.last
  /\ \A l \in beat.keep : stage.data[l] = beat.data[l]

FrameTypes ==
  /\ si \in Offers \cup {Nothing}
  /\ inputReg \in Stage /\ outputReg \in Stage
  /\ framesIn \in Seq(Offers) /\ framesOut \in Seq(Stage)

\* The beats taken and not delivered are those in the stages, the older one in front, and
\* new_frame says what is next at the output.
InFlight ==
  LET n == Len(framesOut) IN
  /\ Len(framesIn) = n + Held(inputReg) + Held(outputReg)
  /\ outputReg.valid => Holds(outputReg, framesIn[n + 1])
  /\ inputReg.valid => Holds(inputReg, framesIn[n + Held(outputReg) + 1])
  /\ new_frame = (n = 0 \/ framesIn[n].last)

Delivered ==
  \A k \in 1 .. Len(framesOut) :
    Contents(framesOut[k]) = Wanted(k) /\ framesOut[k].last = framesIn[k].last

FrameInv == FrameTypes /\ InFlight /\ Delivered

\* What a sender offers, lane by lane.
LEMMA OfferType ==
  ASSUME NEW beat \in Offers
  PROVE  /\ beat.valid = TRUE /\ beat.keep \in SUBSET LaneNo /\ beat.last \in BOOLEAN
         /\ beat.data \in [beat.keep -> Bytes]
         /\ \E n \in 1 .. BeatBytes : beat.keep = 0 .. n - 1
         /\ beat = [valid |-> TRUE, data |-> beat.data, keep |-> beat.keep, last |-> beat.last]
<1>1. PICK keep \in Prefixes :
        beat \in [valid : {TRUE}, data : [keep -> Bytes], keep : {keep}, last : BOOLEAN]
  BY Zenon DEF Offers
<1>2. keep \in SUBSET LaneNo
  BY <1>1, FrameAssumption DEF Prefixes, LaneNo
<1>3. \E n \in 1 .. BeatBytes : keep = 0 .. n - 1
  BY DEF Prefixes
<1> QED
  BY <1>1, <1>2, <1>3

\* A stage that loads holds what it is offered; one that does not is as it was, but for
\* valid.
LEMMA Loads ==
  ASSUME NEW stage \in Stage, NEW x, NEW go, ready(stage, go), x.valid,
         x.keep \in SUBSET LaneNo, x.last \in BOOLEAN, x.valid \in BOOLEAN,
         x = [valid |-> x.valid, data |-> x.data, keep |-> x.keep, last |-> x.last],
         \A l \in x.keep : x.data[l] \in Bytes
  PROVE  /\ axis_reg(stage, x, go) \in Stage /\ axis_reg(stage, x, go).valid
         /\ Holds(axis_reg(stage, x, go), x)
<1> DEFINE data == [l \in LaneNo |-> IF l \in x.keep THEN x.data[l] ELSE stage.data[l]]
<1>1. data \in [LaneNo -> Bytes]
  BY DEF Stage
<1>2. axis_reg(stage, x, go) = [x EXCEPT !.data = data]
  BY Zenon DEF axis_reg
<1>3. \A l \in x.keep : data[l] = x.data[l]
  OBVIOUS
<1> HIDE DEF data
<1>4. [x EXCEPT !.data = data] =
        [valid |-> x.valid, data |-> data, keep |-> x.keep, last |-> x.last]
  <2>1. PICK v, d, k, l : x = [valid |-> v, data |-> d, keep |-> k, last |-> l]
    OBVIOUS
  <2>2. x.valid = v /\ x.keep = k /\ x.last = l
    BY <2>1
  <2>3. [x EXCEPT !.data = data] = [valid |-> v, data |-> data, keep |-> k, last |-> l]
    BY ONLY <2>1
  <2> QED
    BY <2>2, <2>3
<1>5. axis_reg(stage, x, go) =
        [valid |-> x.valid, data |-> data, keep |-> x.keep, last |-> x.last]
  BY <1>2, <1>4
<1> QED
  BY <1>1, <1>3, <1>5 DEF Stage, Holds

LEMMA KeepsStage ==
  ASSUME NEW stage \in Stage, NEW x, NEW go \in BOOLEAN, ~(ready(stage, go) /\ x.valid)
  PROVE  /\ axis_reg(stage, x, go) \in Stage
         /\ axis_reg(stage, x, go).valid = (stage.valid /\ ~go)
         /\ \A beat : Holds(stage, beat) => Holds(axis_reg(stage, x, go), beat)
<1>1. axis_reg(stage, x, go) = IF go THEN [stage EXCEPT !.valid = FALSE] ELSE stage
  BY Zenon DEF axis_reg
<1>2. /\ [stage EXCEPT !.valid = FALSE] \in Stage
      /\ [stage EXCEPT !.valid = FALSE].valid = FALSE
      /\ [stage EXCEPT !.valid = FALSE].data = stage.data
      /\ [stage EXCEPT !.valid = FALSE].keep = stage.keep
      /\ [stage EXCEPT !.valid = FALSE].last = stage.last
  BY DEF Stage
<1>3. stage.valid \in BOOLEAN
  BY DEF Stage
<1>4. CASE go
  <2>1. axis_reg(stage, x, go) = [stage EXCEPT !.valid = FALSE]
    BY <1>1, <1>4
  <2> QED
    BY <1>2, <1>4, <2>1 DEF Holds
<1>5. CASE ~go
  BY <1>1, <1>3, <1>5
<1> QED
  BY <1>4, <1>5

\* The beat that is delivered is the one that was taken, padded if it opens a short frame.
LEMMA PaddedIsWanted ==
  ASSUME FrameInv, outputReg.valid
  PROVE  LET n == Len(framesOut) IN
         /\ Padded(outputReg) \in Stage
         /\ Contents(Padded(outputReg)) = Wanted(n + 1)
         /\ Padded(outputReg).last = framesIn[n + 1].last
<1> DEFINE n      == Len(framesOut)
           beat   == framesIn[n + 1]
           first  == n + 1 = 1 \/ framesIn[n + 1 - 1].last
           length == IF PADDING_MODE = 2 THEN BeatBytes ELSE MinFrame
           lanes  == IF PADDING_MODE = 2 THEN LaneNo ELSE 0 .. MinFrame - 1
           data   == [l \in LaneNo |-> IF l < MinFrame /\ l \in outputReg.keep
                                       THEN outputReg.data[l] ELSE 0]
<1>1. /\ n \in Nat /\ n + 1 - 1 = n /\ n + 1 \in 1 .. Len(framesIn)
      /\ framesIn \in Seq(Offers) /\ outputReg \in Stage
  <2>1. Len(framesIn) = n + Held(inputReg) + 1 /\ Held(inputReg) \in {0, 1}
    BY DEF FrameInv, InFlight, Held
  <2>2. n \in Nat /\ Len(framesIn) \in Nat /\ framesIn \in Seq(Offers) /\ outputReg \in Stage
    BY DEF FrameInv, FrameTypes
  <2> QED
    BY <2>1, <2>2
<1>2. beat \in Offers /\ Holds(outputReg, beat)
  BY <1>1 DEF FrameInv, InFlight
<1>3. /\ beat.keep \in SUBSET LaneNo
      /\ \E m \in 1 .. BeatBytes : beat.keep = 0 .. m - 1
  BY <1>2, OfferType
<1>4. outputReg.keep = beat.keep /\ outputReg.last = beat.last
  BY <1>2 DEF Holds
<1>5. new_frame = first
  <2>1. new_frame = (n = 0 \/ framesIn[n].last)
    BY Zenon DEF FrameInv, InFlight
  <2>2. (n + 1 = 1 <=> n = 0) /\ n + 1 - 1 = n
    BY <1>1
  <2> QED
    BY <2>1, <2>2, Zenon
<1>6. Short(outputReg) <=> PADDING_MODE > 0 /\ first /\ MinFrame - 1 \notin beat.keep
  BY <1>4, <1>5, Zenon DEF Short
<1>7. Wanted(n + 1) = IF PADDING_MODE > 0 /\ first /\ MinFrame - 1 \notin beat.keep
                      THEN [l \in 0 .. length - 1 |-> IF l \in beat.keep THEN beat.data[l] ELSE 0]
                      ELSE Contents(beat)
  BY DEF Wanted
<1>8. CASE ~Short(outputReg)
  <2>1. Padded(outputReg) = outputReg
    BY <1>8, Zenon DEF Padded
  <2>2. Contents(outputReg) = Contents(beat)
    BY <1>2 DEF Contents, Holds
  <2>3. Wanted(n + 1) = Contents(beat)
    BY <1>6, <1>7, <1>8, Zenon
  <2> QED
    BY <1>1, <1>4, <2>1, <2>2, <2>3
<1>9. CASE Short(outputReg)
  <2>1. Padded(outputReg) = [outputReg EXCEPT !.keep = lanes, !.data = data]
    BY <1>9, Zenon DEF Padded
  <2>2. lanes = 0 .. length - 1 /\ lanes \in SUBSET LaneNo
    BY FrameAssumption DEF LaneNo
  <2>3. data \in [LaneNo -> Bytes]
    BY <1>1, FrameAssumption DEF Stage
  <2>4. \A l \in beat.keep : l < MinFrame
    <3>1. PICK m \in 1 .. BeatBytes : beat.keep = 0 .. m - 1
      BY <1>3
    <3>2. MinFrame - 1 \notin beat.keep
      BY <1>6, <1>9
    <3> QED
      BY <3>1, <3>2, FrameAssumption
  <2>5. \A l \in lanes : data[l] = IF l \in beat.keep THEN beat.data[l] ELSE 0
    <3> SUFFICES ASSUME NEW l \in lanes
                 PROVE  data[l] = IF l \in beat.keep THEN beat.data[l] ELSE 0
      OBVIOUS
    <3>1. l \in LaneNo
      BY <2>2
    <3>2. data[l] = IF l < MinFrame /\ l \in outputReg.keep THEN outputReg.data[l] ELSE 0
      BY <3>1
    <3>3. CASE l \in beat.keep
      BY <1>2, <1>4, <2>4, <3>2, <3>3 DEF Holds
    <3>4. CASE l \notin beat.keep
      BY <1>4, <3>2, <3>4
    <3> QED
      BY <3>3, <3>4
  <2> HIDE DEF lanes, data
  <2>6. /\ Padded(outputReg) \in Stage /\ Padded(outputReg).keep = lanes
        /\ Padded(outputReg).data = data /\ Padded(outputReg).last = outputReg.last
    BY <1>1, <2>1, <2>2, <2>3 DEF Stage
  <2>7. Contents(Padded(outputReg)) = [l \in lanes |-> data[l]]
    BY <2>6 DEF Contents
  <2>8. Wanted(n + 1) = [l \in 0 .. length - 1 |-> IF l \in beat.keep THEN beat.data[l] ELSE 0]
    BY <1>6, <1>7, <1>9, Zenon
  <2>9. [l \in lanes |-> data[l]]
          = [l \in 0 .. length - 1 |-> IF l \in beat.keep THEN beat.data[l] ELSE 0]
    BY <2>2, <2>5, Zenon
  <2> QED
    BY <1>4, <2>6, <2>7, <2>8, <2>9
<1> QED
  BY <1>8, <1>9

LEMMA HoldsOn ==
  ASSUME NEW a, NEW b, NEW c, Holds(a, b), Holds(b, c)
  PROVE  Holds(a, c)
BY DEF Holds

\* What a clock edge does to each stage.
LEMMA EdgeOfStages ==
  ASSUME FrameTypes, NEW tready \in BOOLEAN, StageClock(tready)
  PROVE  LET between == tready \/ ~outputReg.valid
             moves   == between /\ inputReg.valid
             taken   == si.valid /\ (between \/ ~inputReg.valid)
         IN  /\ inputReg' \in Stage /\ outputReg' \in Stage
             /\ moves => outputReg'.valid /\ Holds(outputReg', inputReg)
             /\ ~moves => /\ outputReg'.valid = (outputReg.valid /\ ~tready)
                          /\ \A beat : Holds(outputReg, beat) => Holds(outputReg', beat)
             /\ taken => inputReg'.valid /\ Holds(inputReg', si) /\ si \in Offers
             /\ ~taken => /\ inputReg'.valid = (inputReg.valid /\ ~between)
                          /\ \A beat : Holds(inputReg, beat) => Holds(inputReg', beat)
             /\ framesIn' = IF taken THEN Append(framesIn, si) ELSE framesIn
             /\ framesOut' = IF outputReg.valid /\ tready
                             THEN Append(framesOut, Padded(outputReg)) ELSE framesOut
             /\ new_frame' = IF outputReg.valid /\ tready THEN outputReg.last ELSE new_frame
             /\ si' \in Offers \cup {Nothing}
<1> DEFINE between == tready \/ ~outputReg.valid
           moves   == between /\ inputReg.valid
           taken   == si.valid /\ (between \/ ~inputReg.valid)
<1>1. /\ ready(outputReg, tready) = between
      /\ ready(inputReg, between) = (between \/ ~inputReg.valid)
  BY DEF ready
<1>2. /\ inputReg' = axis_reg(inputReg, si, between)
      /\ outputReg' = axis_reg(outputReg, inputReg, tready)
      /\ framesIn' = IF taken THEN Append(framesIn, si) ELSE framesIn
      /\ framesOut' = IF outputReg.valid /\ tready
                      THEN Append(framesOut, Padded(outputReg)) ELSE framesOut
      /\ new_frame' = IF outputReg.valid /\ tready THEN outputReg.last ELSE new_frame
      /\ IF si.valid /\ ~taken THEN si' = si
         ELSE IF Len(framesIn') < MaxSent THEN si' \in Offers \cup {Nothing}
         ELSE si' = Nothing
  BY <1>1, Zenon DEF StageClock, NewFrame
<1>3. /\ si \in Offers \cup {Nothing} /\ inputReg \in Stage /\ outputReg \in Stage
  BY DEF FrameTypes
<1>4. si.valid => si \in Offers
  BY <1>3 DEF Nothing
<1>5. si' \in Offers \cup {Nothing}
  BY <1>2, <1>3, Zenon
<1>7. ASSUME moves
      PROVE  outputReg' \in Stage /\ outputReg'.valid /\ Holds(outputReg', inputReg)
  <2>1. /\ inputReg.keep \in SUBSET LaneNo /\ inputReg.last \in BOOLEAN
        /\ inputReg.valid \in BOOLEAN
        /\ inputReg = [valid |-> inputReg.valid, data |-> inputReg.data,
                       keep |-> inputReg.keep, last |-> inputReg.last]
        /\ \A l \in inputReg.keep : inputReg.data[l] \in Bytes
    BY <1>3 DEF Stage
  <2>2. ready(outputReg, tready) /\ inputReg.valid
    BY <1>1, <1>7
  <2>3. /\ axis_reg(outputReg, inputReg, tready) \in Stage
        /\ axis_reg(outputReg, inputReg, tready).valid
        /\ Holds(axis_reg(outputReg, inputReg, tready), inputReg)
    BY <1>3, <2>1, <2>2, Loads
  <2> QED
    BY <1>2, <2>3
<1>8. ASSUME ~moves
      PROVE  /\ outputReg' \in Stage
             /\ outputReg'.valid = (outputReg.valid /\ ~tready)
             /\ \A beat : Holds(outputReg, beat) => Holds(outputReg', beat)
  <2>1. ~(ready(outputReg, tready) /\ inputReg.valid)
    BY <1>1, <1>8
  <2> QED
    BY <1>2, <1>3, <2>1, KeepsStage
<1>9. ASSUME taken
      PROVE  inputReg' \in Stage /\ inputReg'.valid /\ Holds(inputReg', si) /\ si \in Offers
  <2>1. si \in Offers
    BY <1>4, <1>9
  <2>2. /\ si.keep \in SUBSET LaneNo /\ si.last \in BOOLEAN /\ si.valid \in BOOLEAN
        /\ si = [valid |-> si.valid, data |-> si.data, keep |-> si.keep, last |-> si.last]
        /\ \A l \in si.keep : si.data[l] \in Bytes
    BY <2>1, OfferType
  <2>3. ready(inputReg, between) /\ si.valid
    BY <1>1, <1>9
  <2> HIDE DEF between
  <2>4. /\ axis_reg(inputReg, si, between) \in Stage
        /\ axis_reg(inputReg, si, between).valid
        /\ Holds(axis_reg(inputReg, si, between), si)
    BY <1>3, <2>2, <2>3, Loads
  <2> QED
    BY <1>2, <2>1, <2>4
<1>10. ASSUME ~taken
       PROVE  /\ inputReg' \in Stage
              /\ inputReg'.valid = (inputReg.valid /\ ~between)
              /\ \A beat : Holds(inputReg, beat) => Holds(inputReg', beat)
  <2>1. ~(ready(inputReg, between) /\ si.valid) /\ between \in BOOLEAN
    BY <1>1, <1>10, Zenon
  <2> HIDE DEF between
  <2> QED
    BY <1>2, <1>3, <2>1, KeepsStage
<1>11. inputReg' \in Stage /\ outputReg' \in Stage
  BY <1>7, <1>8, <1>9, <1>10, Zenon
<1> QED
  BY <1>2, <1>5, <1>7, <1>8, <1>9, <1>10, <1>11, Zenon

LEMMA FrameStep ==
  ASSUME FrameInv, NEW tready \in BOOLEAN, StageClock(tready)
  PROVE  FrameInv'
<1> DEFINE n       == Len(framesOut)
           m       == Len(framesIn)
           vi      == inputReg.valid
           vo      == outputReg.valid
           leaves  == vo /\ tready
           between == tready \/ ~vo
           moves   == between /\ vi
           taken   == si.valid /\ (between \/ ~vi)
<1>1. /\ inputReg' \in Stage /\ outputReg' \in Stage
      /\ moves => outputReg'.valid /\ Holds(outputReg', inputReg)
      /\ ~moves => /\ outputReg'.valid = (vo /\ ~tready)
                   /\ \A beat : Holds(outputReg, beat) => Holds(outputReg', beat)
      /\ taken => inputReg'.valid /\ Holds(inputReg', si) /\ si \in Offers
      /\ ~taken => /\ inputReg'.valid = (vi /\ ~between)
                   /\ \A beat : Holds(inputReg, beat) => Holds(inputReg', beat)
      /\ framesIn' = IF taken THEN Append(framesIn, si) ELSE framesIn
      /\ framesOut' = IF leaves THEN Append(framesOut, Padded(outputReg)) ELSE framesOut
      /\ new_frame' = IF leaves THEN outputReg.last ELSE new_frame
      /\ si' \in Offers \cup {Nothing}
  BY EdgeOfStages, Zenon DEF FrameInv
<1>2. /\ n \in Nat /\ m \in Nat /\ framesIn \in Seq(Offers) /\ framesOut \in Seq(Stage)
      /\ vi \in BOOLEAN /\ vo \in BOOLEAN
      /\ inputReg'.valid \in BOOLEAN /\ outputReg'.valid \in BOOLEAN
  BY <1>1 DEF FrameInv, FrameTypes, Stage
<1>3. /\ m = n + Held(inputReg) + Held(outputReg)
      /\ vo => Holds(outputReg, framesIn[n + 1])
      /\ vi => Holds(inputReg, framesIn[n + Held(outputReg) + 1])
      /\ new_frame = (n = 0 \/ framesIn[n].last)
  BY Zenon DEF FrameInv, InFlight
<1>4. leaves => /\ Padded(outputReg) \in Stage
              /\ Contents(Padded(outputReg)) = Wanted(n + 1)
              /\ Padded(outputReg).last = framesIn[n + 1].last
  BY PaddedIsWanted
<1>5. /\ Held(inputReg) = (IF vi THEN 1 ELSE 0) /\ Held(outputReg) = (IF vo THEN 1 ELSE 0)
      /\ Held(inputReg)' = (IF inputReg'.valid THEN 1 ELSE 0)
      /\ Held(outputReg)' = (IF outputReg'.valid THEN 1 ELSE 0)
  BY Zenon DEF Held
<1>6. /\ framesIn' \in Seq(Offers) /\ Len(framesIn') = m + (IF taken THEN 1 ELSE 0)
      /\ \A k \in 1 .. m : framesIn'[k] = framesIn[k]
      /\ taken => framesIn'[m + 1] = si
  BY <1>1, <1>2
<1>7. /\ framesOut' \in Seq(Stage) /\ Len(framesOut') = n + (IF leaves THEN 1 ELSE 0)
      /\ \A k \in 1 .. n : framesOut'[k] = framesOut[k]
      /\ leaves => framesOut'[n + 1] = Padded(outputReg)
  BY <1>1, <1>2, <1>4
<1>8. /\ inputReg'.valid = (taken \/ (vi /\ ~between))
      /\ outputReg'.valid = (moves \/ (vo /\ ~tready))
  BY <1>1, <1>2
<1>9. FrameTypes'
  BY <1>1, <1>6, <1>7 DEF FrameTypes
<1> DEFINE edge(hi, ho, ni, no) ==
             /\ ni = no + hi + ho
             /\ moves => no = n + Held(outputReg)
             /\ taken => no + ho = m
             /\ vi /\ ~between => no = n /\ ho = Held(outputReg)
             /\ vo /\ ~tready => no = n
<1>10. edge(Held(inputReg)', Held(outputReg)', Len(framesIn'), Len(framesOut'))
  <2> DEFINE hi == Held(inputReg)'
             ho == Held(outputReg)'
             ni == Len(framesIn')
             no == Len(framesOut')
             t  == si.valid /\ (between \/ ~vi)
  <2>1. /\ hi = (IF t \/ (vi /\ ~between) THEN 1 ELSE 0)
        /\ ho = (IF moves \/ (vo /\ ~tready) THEN 1 ELSE 0)
        /\ ni = m + (IF t THEN 1 ELSE 0)
        /\ no = n + (IF leaves THEN 1 ELSE 0)
    BY <1>5, <1>6, <1>7, <1>8, Zenon
  <2>2. t => between \/ ~vi
    OBVIOUS
  <2>3. m = n + (IF vi THEN 1 ELSE 0) + (IF vo THEN 1 ELSE 0)
    BY <1>3, <1>5, Zenon
  <2>4. n \in Nat /\ m \in Nat /\ vi \in BOOLEAN /\ vo \in BOOLEAN
    BY <1>2
  <2> HIDE DEF hi, ho, ni, no, n, m, vi, vo, t
  <2> SUFFICES edge(hi, ho, ni, no)
    BY Zenon DEF hi, ho, ni, no
  <2>5. Held(outputReg) = IF vo THEN 1 ELSE 0
    BY <1>5, Zenon
  <2>6. ni = no + hi + ho
    BY <2>1, <2>2, <2>3, <2>4
  <2>7. moves => no = n + Held(outputReg)
    BY <2>1, <2>4, <2>5
  <2>8. t => no + ho = m
    BY <2>1, <2>2, <2>3, <2>4
  <2>9. vi /\ ~between => no = n /\ ho = Held(outputReg)
    BY <2>1, <2>4, <2>5
  <2>10. vo /\ ~tready => no = n
    BY <2>1, <2>4
  <2> QED
    BY <2>6, <2>7, <2>8, <2>9, <2>10, Zenon DEF t
<1> HIDE DEF n, m, vi, vo, moves, taken
<1>11. outputReg'.valid => Holds(outputReg', framesIn'[Len(framesOut') + 1])
  <2> SUFFICES ASSUME outputReg'.valid
               PROVE  Holds(outputReg', framesIn'[Len(framesOut') + 1])
    OBVIOUS
  <2>1. ASSUME moves PROVE Holds(outputReg', framesIn'[Len(framesOut') + 1])
    <3>1. vi
      BY <2>1 DEF moves
    <3>2. Holds(outputReg', framesIn[n + Held(outputReg) + 1])
      BY <1>1, <1>3, <2>1, <3>1, HoldsOn
    <3>3. Len(framesOut') + 1 = n + Held(outputReg) + 1 /\ Len(framesOut') + 1 \in 1 .. m
      BY <1>2, <1>3, <1>5, <1>10, <2>1, <3>1
    <3> QED
      BY <1>6, <3>2, <3>3
  <2>2. ASSUME ~moves PROVE Holds(outputReg', framesIn'[Len(framesOut') + 1])
    <3>1. vo /\ ~tready
      BY <1>1, <2>2
    <3>2. Holds(outputReg', framesIn[n + 1])
      BY <1>1, <1>3, <2>2, <3>1
    <3>3. Len(framesOut') + 1 = n + 1 /\ n + 1 \in 1 .. m
      BY <1>2, <1>3, <1>5, <1>10, <3>1
    <3> QED
      BY <1>6, <3>2, <3>3
  <2> QED
    BY <2>1, <2>2
<1>12. inputReg'.valid =>
         Holds(inputReg', framesIn'[Len(framesOut') + Held(outputReg)' + 1])
  <2> SUFFICES ASSUME inputReg'.valid
               PROVE  Holds(inputReg', framesIn'[Len(framesOut') + Held(outputReg)' + 1])
    OBVIOUS
  <2>1. ASSUME taken PROVE Holds(inputReg', framesIn'[Len(framesOut') + Held(outputReg)' + 1])
    BY <1>1, <1>6, <1>10, <2>1
  <2>2. ASSUME ~taken PROVE Holds(inputReg', framesIn'[Len(framesOut') + Held(outputReg)' + 1])
    <3>1. vi /\ ~between
      BY <1>1, <2>2
    <3>2. Holds(inputReg', framesIn[n + Held(outputReg) + 1])
      BY <1>1, <1>3, <2>2, <3>1
    <3>3. /\ Len(framesOut') + Held(outputReg)' + 1 = n + Held(outputReg) + 1
          /\ n + Held(outputReg) + 1 \in 1 .. m
      BY <1>2, <1>3, <1>5, <1>10, <3>1
    <3> QED
      BY <1>6, <3>2, <3>3
  <2> QED
    BY <2>1, <2>2
<1>13. new_frame' = (Len(framesOut') = 0 \/ framesIn'[Len(framesOut')].last)
  <2>1. ASSUME leaves PROVE new_frame' = (Len(framesOut') = 0 \/ framesIn'[Len(framesOut')].last)
    <3>1. Len(framesOut') = n + 1 /\ n + 1 \in 1 .. m /\ n + 1 # 0
      BY <1>2, <1>3, <1>5, <1>7, <2>1
    <3>2. outputReg.last = framesIn[n + 1].last
      BY <1>3, <2>1 DEF Holds
    <3>3. outputReg.last \in BOOLEAN
      BY DEF FrameInv, FrameTypes, Stage
    <3> QED
      BY <1>1, <1>6, <2>1, <3>1, <3>2, <3>3
  <2>2. ASSUME ~leaves PROVE new_frame' = (Len(framesOut') = 0 \/ framesIn'[Len(framesOut')].last)
    <3>1. Len(framesOut') = n /\ (n # 0 => framesIn'[n] = framesIn[n])
      BY <1>2, <1>3, <1>5, <1>6, <1>7, <2>2
    <3>2. new_frame' = new_frame
      BY <1>1, <2>2
    <3> QED
      BY <1>3, <3>1, <3>2
  <2> QED
    BY <2>1, <2>2
<1>14. ASSUME NEW k \in 1 .. Len(framesOut')
       PROVE  Contents(framesOut[k])' = Wanted(k)' /\ framesOut'[k].last = framesIn'[k].last
  <2>1. k \in 1 .. m /\ (k # 1 => k - 1 \in 1 .. m) /\ (k \in 1 .. n \/ (leaves /\ k = n + 1))
    BY <1>2, <1>3, <1>5, <1>7
  <2>2. framesIn'[k] = framesIn[k] /\ (k # 1 => framesIn'[k - 1] = framesIn[k - 1])
    BY <1>6, <2>1
  <2>3. Wanted(k)' = Wanted(k)
    BY <2>2, Zenon DEF Wanted, Contents
  <2>4. CASE k \in 1 .. n
    <3>1. Contents(framesOut[k]) = Wanted(k) /\ framesOut[k].last = framesIn[k].last
      BY <2>4 DEF FrameInv, Delivered, n
    <3>2. framesOut'[k] = framesOut[k]
      BY <1>7, <2>4
    <3> QED
      BY <2>2, <2>3, <3>1, <3>2, Zenon DEF Contents
  <2>5. CASE leaves /\ k = n + 1
    <3>1. framesOut'[k] = Padded(outputReg)
      BY <1>7, <2>5
    <3> QED
      BY <1>4, <2>2, <2>3, <2>5, <3>1, Zenon DEF Contents
  <2> QED
    BY <2>1, <2>4, <2>5
<1> QED
  BY <1>9, <1>10, <1>11, <1>12, <1>13, <1>14, Zenon DEF FrameInv, InFlight, Delivered

LEMMA FrameInitially == StageInit => FrameInv
<1> SUFFICES ASSUME StageInit PROVE FrameInv
  OBVIOUS
<1>1. PICK b \in Bytes :
        LET empty == [Nothing EXCEPT !.data = [l \in LaneNo |-> b]]
        IN  inputReg = empty /\ outputReg = empty
  BY DEF StageInit
<1>2. [Nothing EXCEPT !.data = [l \in LaneNo |-> b]]
        = [valid |-> FALSE, data |-> [l \in LaneNo |-> b], keep |-> {}, last |-> FALSE]
  <2> DEFINE data == [l \in LaneNo |-> b]
         empty == << >>
  <2>1. Nothing = [valid |-> FALSE, data |-> empty, keep |-> {}, last |-> FALSE]
    BY Zenon DEF Nothing
  <2> HIDE DEF data, empty
  <2>2. [Nothing EXCEPT !.data = data]
          = [valid |-> FALSE, data |-> data, keep |-> {}, last |-> FALSE]
    BY ONLY <2>1
  <2> QED
    BY <2>2 DEF data
<1>3. inputReg \in Stage /\ outputReg \in Stage /\ ~inputReg.valid /\ ~outputReg.valid
  BY <1>1, <1>2 DEF Stage
<1>4. si = Nothing /\ new_frame = TRUE /\ framesIn = << >> /\ framesOut = << >>
  BY Zenon DEF StageInit
<1>5. FrameTypes
  BY <1>3, <1>4 DEF FrameTypes
<1>6. Len(framesIn) = 0 /\ Len(framesOut) = 0 /\ Held(inputReg) = 0 /\ Held(outputReg) = 0
  BY <1>3, <1>4 DEF Held
<1>7. InFlight
  <2>1. Len(framesIn) = Len(framesOut) + Held(inputReg) + Held(outputReg)
    BY <1>6
  <2> QED
    BY <1>3, <1>4, <1>6, <2>1, Zenon DEF InFlight
<1>8. Delivered
  BY <1>6 DEF Delivered
<1> QED
  BY <1>5, <1>7, <1>8 DEF FrameInv

\* Whatever the readiness of the Ethernet core, for every width of the bus, least length and
\* mode of the padding: the frames that leave are the frames that came, in order, with their
\* bytes, and behind the bytes of a short one only zeros.
THEOREM FramesArePadded == StageSpec => []FramesPadded
<1>1. StageInit => FrameInv
  BY FrameInitially
<1>2. FrameInv /\ [StageNext]_stageVars => FrameInv'
  <2> SUFFICES ASSUME FrameInv, [StageNext]_stageVars PROVE FrameInv'
    OBVIOUS
  <2>1. CASE StageNext
    BY <2>1, FrameStep, Zenon DEF StageNext
  <2>2. CASE UNCHANGED stageVars
    <3>1. /\ si' = si /\ inputReg' = inputReg /\ outputReg' = outputReg
          /\ new_frame' = new_frame /\ framesIn' = framesIn /\ framesOut' = framesOut
      BY <2>2 DEF stageVars
    <3>2. FrameTypes' = FrameTypes
      BY <3>1 DEF FrameTypes
    <3>3. InFlight' = InFlight
      BY <3>1 DEF InFlight, Held
    <3>4. \A k : Wanted(k)' = Wanted(k)
      BY <3>1, Zenon DEF Wanted, Contents
    <3>5. Delivered' = Delivered
      BY <3>1, <3>4 DEF Delivered, Contents
    <3> QED
      BY <3>2, <3>3, <3>5 DEF FrameInv
  <2> QED
    BY <2>1, <2>2
<1>3. FrameInv => FramesPadded
  BY Zenon DEF FrameInv, InFlight, Delivered, FramesPadded
<1> QED
  BY <1>1, <1>2, <1>3, PTL DEF StageSpec
=============================================================================

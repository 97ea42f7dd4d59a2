---------------------------- MODULE FrameStages ----------------------------
(***************************************************************************)
(* The stages a frame passes on its way out: the two register stages of    *)
(* the RTL example kernel (axis_reg.vhd, example.vhd) and the padding in   *)
(* front of the Ethernet core (frame_padding.v).  The network layer that   *)
(* lies between them passes beats on here and adds no headers.             *)
(*                                                                         *)
(* A register stage loads only the byte lanes that TKEEP names: the others *)
(* keep the bytes of an earlier beat.  Reset is over before Init.          *)
(***************************************************************************)
EXTENDS Integers, Sequences

CONSTANTS
  BeatBytes,     \* 64: byte lanes of a beat
  MinFrame,      \* 60: bytes of the shortest frame
  PADDING_MODE,  \* 0: no padding, 1: to MinFrame, 2: to BeatBytes
  Bytes,         \* values of a byte; 0 is the padding
  MaxSent        \* bound: beats sent in a behavior

ASSUME FrameAssumption ==
  /\ {BeatBytes, MinFrame} \subseteq Nat
  /\ 0 < MinFrame /\ MinFrame < BeatBytes
  /\ PADDING_MODE \in 0 .. 2 /\ 0 \in Bytes

VARIABLES
  si,                   \* the beat the kernel's input offers
  inputReg, outputReg,  \* the two stages
  new_frame,
  framesIn, framesOut   \* for the property: the beats taken and delivered

stageVars == <<si, inputReg, outputReg, new_frame, framesIn, framesOut>>

LaneNo == 0 .. BeatBytes - 1
Prefixes == {0 .. n - 1 : n \in 1 .. BeatBytes}

\* What a sender may offer.  The lanes that are not kept are never looked at.
Offers == UNION {[valid : {TRUE}, data : [keep -> Bytes], keep : {keep}, last : BOOLEAN] :
                   keep \in Prefixes}

Nothing == [valid |-> FALSE, data |-> << >>, keep |-> {}, last |-> FALSE]

\* The lanes hold anything at first.
StageInit ==
  /\ si = Nothing
  /\ \E b \in Bytes :
       LET empty == [Nothing EXCEPT !.data = [l \in LaneNo |-> b]]
       IN  inputReg = empty /\ outputReg = empty
  /\ new_frame = TRUE
  /\ framesIn = << >> /\ framesOut = << >>

----------------------------------------------------------------------------
ready(stage, y_tready) == y_tready \/ ~stage.valid

axis_reg(stage, x, y_tready) ==
  IF ready(stage, y_tready) /\ x.valid
  THEN [x EXCEPT !.data = [l \in LaneNo |-> IF l \in x.keep THEN x.data[l] ELSE stage.data[l]]]
  ELSE IF y_tready THEN [stage EXCEPT !.valid = FALSE] ELSE stage

Short(beat) == PADDING_MODE > 0 /\ new_frame /\ MinFrame - 1 \notin beat.keep

\* Mutant: a short frame gets the mask of a long one and the lanes as they are.
PaddedMaskOnly(beat) ==
  IF Short(beat)
  THEN [beat EXCEPT !.keep = IF PADDING_MODE = 2 THEN LaneNo ELSE 0 .. MinFrame - 1]
  ELSE beat

Padded(beat) ==
  IF Short(beat)
  THEN [beat EXCEPT
          !.keep = IF PADDING_MODE = 2 THEN LaneNo ELSE 0 .. MinFrame - 1,
          !.data = [l \in LaneNo |-> IF l < MinFrame /\ l \in beat.keep THEN beat.data[l]
                                     ELSE 0]]
  ELSE beat

NewFrame(sent) == new_frame' = IF sent THEN outputReg.last ELSE new_frame

\* An edge of the clock.  The Ethernet core is ready or not; the sender offers a
\* beat until it is taken.
StageClock(tready) ==
  LET between == ready(outputReg, tready)
      taken   == si.valid /\ ready(inputReg, between)
      sent    == outputReg.valid /\ tready
  IN  /\ inputReg'  = axis_reg(inputReg, si, between)
      /\ outputReg' = axis_reg(outputReg, inputReg, tready)
      /\ NewFrame(sent)
      /\ framesIn'  = IF taken THEN Append(framesIn, si) ELSE framesIn
      /\ framesOut' = IF sent THEN Append(framesOut, Padded(outputReg)) ELSE framesOut
      /\ IF si.valid /\ ~taken THEN si' = si
         ELSE IF Len(framesIn') < MaxSent THEN si' \in Offers \cup {Nothing}
         ELSE si' = Nothing

StageNext == \E tready \in BOOLEAN : StageClock(tready)

StageSpec == StageInit /\ [][StageNext]_stageVars

----------------------------------------------------------------------------
\* The bytes of a beat, in their order.
Contents(beat) == [l \in beat.keep |-> beat.data[l]]

\* The bytes that should leave: those that came, followed in the first beat of a
\* frame that is too short by zeros.
Wanted(k) ==
  LET beat   == framesIn[k]
      first  == k = 1 \/ framesIn[k - 1].last
      length == IF PADDING_MODE = 2 THEN BeatBytes ELSE MinFrame
  IN  IF PADDING_MODE > 0 /\ first /\ MinFrame - 1 \notin beat.keep
      THEN [l \in 0 .. length - 1 |-> IF l \in beat.keep THEN beat.data[l] ELSE 0]
      ELSE Contents(beat)

Held(stage) == IF stage.valid THEN 1 ELSE 0

\* Whatever the core's readiness, every frame leaves once and in order, with its
\* bytes and nothing behind them but zeros up to the least length: no byte that a
\* register stage kept of an earlier frame is ever sent (Ethernet/README.md:25).
FramesPadded ==
  /\ Len(framesIn) = Len(framesOut) + Held(inputReg) + Held(outputReg)
  /\ \A k \in 1 .. Len(framesOut) :
       Contents(framesOut[k]) = Wanted(k) /\ framesOut[k].last = framesIn[k].last
=============================================================================

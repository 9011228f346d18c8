---------------------------- MODULE padding_proof ----------------------------
(***************************************************************************)
(* For all widths of the string, the length and the block: what the        *)
(* padding puts out is the SHA-256 padding of the string without its       *)
(* leftmost bit, as it was at time 0, and its bench waits for it in vain.  *)
(***************************************************************************)
EXTENDS padding_tb, TLAPS

USE WidthAssumption, InputAssumption

\* The lengths add up to one block: paddingLength is 512 in the source, and
\* between the text and the length there is room for the terminator.
LEMMA Lengths512 ==
  /\ l \in Nat /\ l = StrBits - 1
  /\ paddingLength = BlockBits
  /\ LenBits < BlockBits - l
<1>1. 1 % BlockBits = 1
  OBVIOUS
<1>2. k = BlockBits - LenBits - l - 1
  BY <1>1 DEF k, l
<1> QED BY <1>2 DEF l, paddingLength

\* The three assignments to Message pad the l low bits of the string.
LEMMA MessagePads ==
  ASSUME NEW str \in Strings, NEW len \in Lengths
  PROVE  /\ Message(str, len) \subseteq 0 .. BlockBits - 1
         /\ IsPadding(Message(str, len), str, StrBits - 1, len)
<1> DEFINE text  == {BlockBits - l + i : i \in str \cap 0 .. l - 1}
           out   == Message(str, len)
<1>1. out = ((text \cup {BlockBits - l - 1}) \ (0 .. LenBits - 1)) \cup len
  BY Lengths512 DEF Message
<1>2. len \subseteq 0 .. LenBits - 1
  OBVIOUS
<1>3. \A p \in Int : p \in text <=> p - (BlockBits - l) \in str \cap 0 .. l - 1
  BY Lengths512
<1>4. text \subseteq BlockBits - l .. BlockBits - 1
  BY Lengths512
<1> HIDE DEF text, out
<1>5. out \subseteq 0 .. BlockBits - 1
  BY <1>1, <1>2, <1>4, Lengths512
<1>6. ASSUME NEW q \in 0 .. l - 1
      PROVE  BlockBits - 1 - q \in out <=> l - 1 - q \in str
  <2>1. BlockBits - 1 - q \in out <=> BlockBits - 1 - q \in text
    BY <1>1, <1>2, Lengths512
  <2>2. (BlockBits - 1 - q) - (BlockBits - l) = l - 1 - q
    BY Lengths512
  <2> QED BY <1>3, <2>1, <2>2, Lengths512
<1>7. BlockBits - 1 - l \in out
  BY <1>1, Lengths512
<1>8. ASSUME NEW p \in LenBits .. BlockBits - 2 - l PROVE p \notin out
  BY <1>1, <1>2, <1>4, Lengths512
<1>9. ASSUME NEW p \in 0 .. LenBits - 1 PROVE p \in out <=> p \in len
  BY <1>1
<1> QED BY <1>5, <1>6, <1>7, <1>8, <1>9, Lengths512 DEF IsPadding, out

\* The types, what padProc saw, and what it made of it.
PadInv ==
  /\ TypeOK
  /\ pc = "start" => ready = "U" /\ first = <<inputString, inputLength>>
  /\ PadsTimeZero

\* It holds at time 0,
LEMMA PadInvInit == Init => PadInv
  BY DEF Init, PadInv, TypeOK, PadsTimeZero

\* and the process and the user of the block keep it.
LEMMA PadInvStep == PadInv /\ [Next]_vars => PadInv'
<1> SUFFICES ASSUME PadInv, [Next]_vars PROVE PadInv'
  OBVIOUS
<1> USE DEF PadInv, TypeOK, PadsTimeZero
<1>1. CASE padProc
  <2>1. /\ outputString' \subseteq 0 .. BlockBits - 1
        /\ IsPadding(outputString', first[1], StrBits - 1, first[2])
    BY <1>1, MessagePads DEF padProc
  <2> QED BY <1>1, <2>1 DEF padProc
<1>2. ASSUME NEW str \in Strings, NEW len \in Lengths, Drive(str, len)
      PROVE  PadInv'
  BY <1>2 DEF Drive
<1>3. CASE UNCHANGED vars
  BY <1>3 DEF vars
<1> QED BY <1>1, <1>2, <1>3 DEF Next

\* The output is for ever the padding of the inputs of time 0, without the
\* leftmost bit of the string (padding.vhd:24-42).
THEOREM PaddingCorrect == Spec => [](TypeOK /\ PadsTimeZero)
<1>1. PadInv => TypeOK /\ PadsTimeZero
  BY DEF PadInv
<1> QED BY <1>1, PadInvInit, PadInvStep, PTL DEF Spec
------------------------------------------------------------------------------
\* What the block is to its bench: waiting it has its output up, and it has run
\* before the bench drives anything.
BenchInv ==
  /\ PadInv
  /\ pc = "waiting" => ready = "1"
  /\ tb # "reset" => pc = "waiting"
  /\ tb # "assert"

\* A step of the bench is a step of the block or of its user.
LEMMA BenchStep == NextTB => Next
  BY DEF NextTB, StimulateTB, padProcTB, MoreStimuli, Next

\* The bench waits for ever for a rise of ready that came before it looked, and
\* the padding is right in its surroundings, too (padding_tb.vhd:55-61).
THEOREM BenchStuck == SpecTB => [](BenchWaits /\ PadsTimeZero)
<1>1. InitTB => BenchInv
  BY PadInvInit DEF InitTB, Init, BenchInv
<1>2. BenchInv /\ [NextTB]_<<vars, tb>> => BenchInv'
  <2> SUFFICES ASSUME BenchInv, [NextTB]_<<vars, tb>> PROVE BenchInv'
    OBVIOUS
  <2>0. PadInv'
    BY BenchStep, PadInvStep DEF BenchInv
  <2> USE DEF BenchInv
  <2>1. CASE StimulateTB
    BY <2>0, <2>1 DEF StimulateTB, Drive
  <2>2. CASE padProcTB
    BY <2>0, <2>2 DEF padProcTB, padProc
  <2>3. CASE MoreStimuli
    BY <2>0, <2>3 DEF MoreStimuli, Drive
  <2>4. CASE UNCHANGED <<vars, tb>>
    BY <2>0, <2>4 DEF vars
  <2> QED BY <2>1, <2>2, <2>3, <2>4 DEF NextTB
<1>3. BenchInv => BenchWaits /\ PadsTimeZero
  BY DEF BenchInv, BenchWaits, PadInv
<1> QED BY <1>1, <1>2, <1>3, PTL DEF SpecTB
===============================================================================

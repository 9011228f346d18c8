------------------------------- MODULE padding -------------------------------
(***************************************************************************)
(* src/Padding Block/padding.vhd: the padding of a message to one block.   *)
(* A vector is the set of the positions of its '1' bits.  padProc has no   *)
(* sensitivity list and ends in a bare `wait': it runs once, at time 0, on *)
(* the initial values of its inputs, and clk and reset are never read.     *)
(***************************************************************************)
EXTENDS Integers

CONSTANTS
  StrBits,      \* width of inputString: 32 in the source
  LenBits,      \* width of inputLength: 64 in the source
  BlockBits,    \* width of outputString: 512 in the source
  Strings,      \* the values the user may put on inputString
  Lengths,      \* and on inputLength
  Undef         \* a vector nothing was assigned to

ASSUME WidthAssumption ==
  /\ StrBits \in Nat /\ LenBits \in Nat /\ BlockBits \in Nat
  /\ StrBits > 0 /\ StrBits + LenBits < BlockBits

ASSUME InputAssumption ==
  /\ Strings \subseteq SUBSET (0 .. StrBits - 1)
  /\ Lengths \subseteq SUBSET (0 .. LenBits - 1)

\* The initial value of an integer range 31 downto 0 is its left bound.
l == StrBits - 1

\* mod binds more tightly than the minus before it.
k == (BlockBits - LenBits - l) - (1 % BlockBits)

paddingLength == l + k + 1 + LenBits

VARIABLES
  pc,           \* "start" until padProc has run, then "waiting" for ever
  inputString, inputLength,
  ready,        \* "U" or "1": the '0' of line 32 never reaches the signal
  outputString,
  first         \* history: the inputs that padProc saw

vars == <<pc, inputString, inputLength, ready, outputString, first>>

Init ==
  /\ pc = "start"
  /\ inputString \in Strings
  /\ inputLength \in Lengths
  /\ ready = "U"
  /\ outputString = Undef
  /\ first = <<inputString, inputLength>>

\* Fault: no '1' between the text and the zeros.
Message_unterminated(str, len) ==
  {paddingLength - l + i : i \in str \cap 0 .. l - 1} \cup len

\* The variable Message after its three assignments, in their order.
Message(str, len) ==
  LET text  == {paddingLength - l + i : i \in str \cap 0 .. l - 1}
      ended == text \cup {paddingLength - l - 1}
  IN  (ended \ (0 .. LenBits - 1)) \cup len

padProc ==
  /\ pc = "start"
  /\ outputString' = Message(inputString, inputLength)
  /\ ready' = "1"
  /\ pc' = "waiting"
  /\ UNCHANGED <<inputString, inputLength, first>>

\* The user drives the inputs, at any time after time 0.
Drive(str, len) ==
  /\ pc = "waiting"
  /\ inputString' = str
  /\ inputLength' = len
  /\ UNCHANGED <<pc, ready, outputString, first>>

Next == padProc \/ \E str \in Strings, len \in Lengths : Drive(str, len)

Spec == Init /\ [][Next]_vars /\ WF_vars(padProc)
------------------------------------------------------------------------------
\* Every signal has its type; the padded message is exactly one block.
TypeOK ==
  /\ pc \in {"start", "waiting"}
  /\ inputString \in Strings /\ inputLength \in Lengths
  /\ ready \in {"U", "1"}
  /\ outputString = Undef \/ outputString \subseteq 0 .. BlockBits - 1
  /\ first \in Strings \X Lengths

\* out is the SHA-256 padding of the n-bit message whose bits are text, the
\* most significant first, when len is the number n: read from the left, the
\* message, a '1', zeros, and len in the last LenBits bits.
IsPadding(out, text, n, len) ==
  /\ \A q \in 0 .. n - 1 : BlockBits - 1 - q \in out <=> n - 1 - q \in text
  /\ BlockBits - 1 - n \in out
  /\ \A p \in LenBits .. BlockBits - 2 - n : p \notin out
  /\ \A p \in 0 .. LenBits - 1 : p \in out <=> p \in len

\* When ready is up, the output is the padding of the 31 low bits of the string
\* that was on the input at time 0 (padding.vhd:24-40), followed by the length
\* that was there at time 0, whatever the inputs have become since.  The bench
\* expects all 32 bits (padding_tb.vhd:61).
PadsTimeZero ==
  ready = "1" => IsPadding(outputString, first[1], StrBits - 1, first[2])
==============================================================================

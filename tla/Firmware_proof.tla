---------------------------- MODULE Firmware_proof ----------------------------
(***************************************************************************)
(* For every length of the rings, any arrivals and interrupts at any       *)
(* instruction.                                                            *)
(*                                                                         *)
(* The driver (UartInv, of Spec): for all lengths of the calls and any     *)
(* order of them the indices stay in the rings, read returns what arrived  *)
(* in its order, and what write took leaves the device in its order, each  *)
(* character once. The invariant says where each character is. TxOK        *)
(* numbers the characters on their way out by their place: line, shift     *)
(* register, transmit register, ring. RxOK says that each place on the way *)
(* in, ring and device, holds only newer characters than the one before    *)
(* it; it cannot say more, because device and handler lose characters.     *)
(*                                                                         *)
(* The firmware (FwInv, of SpecFw): for every text, what it writes leaves  *)
(* in order but for characters that its unpaced writes overwrite, the      *)
(* status shows when some were, and the key it echoes is one that arrived. *)
(***************************************************************************)
EXTENDS Firmware, FiniteSetTheorems, SequenceTheorems, TLAPS

USE CharsAssumption, BufLenAssumption, LensAssumption, BoundsAssumption
-------------------------------------------------------------------------------
\* The places of a ring, and how far it is from one to another.
Place == 0..(BufLen - 1)
Dist(a, b) == IF a <= b THEN b - a ELSE b + BufLen - a

LEMMA NextPlace ==
  ASSUME NEW a \in Place
  PROVE  /\ next(a) \in Place
         /\ next(a) = IF a + 1 = BufLen THEN 0 ELSE a + 1
BY DEF Place, next

LEMMA DistType ==
  ASSUME NEW a \in Place, NEW b \in Place
  PROVE  Dist(a, b) \in Nat /\ Dist(a, b) < BufLen
BY DEF Place, Dist

LEMMA DistNext ==
  ASSUME NEW a \in Place, NEW b \in Place
  PROVE  /\ b # a => Dist(next(a), b) = Dist(a, b) - 1
         /\ next(b) # a => Dist(a, next(b)) = Dist(a, b) + 1
         /\ Dist(next(a), a) = BufLen - 1
BY NextPlace DEF Place, Dist

LEMMA DistOne ==
  ASSUME NEW a \in Place, NEW b \in Place, NEW c \in Place, Dist(a, b) = Dist(a, c)
  PROVE  b = c
BY DEF Place, Dist

LEMMA RingPlace ==
  ASSUME NEW a \in Place, NEW k \in Place
  PROVE  /\ (a + k) % BufLen \in Place
         /\ Dist(a, (a + k) % BufLen) = k
BY DEF Place, Dist

LEMMA RingLength ==
  ASSUME NEW a \in Place, NEW b \in Place
  PROVE  /\ Dist(a, b) \in Place
         /\ (b + BufLen - a) % BufLen = Dist(a, b)
BY DEF Place, Dist
-------------------------------------------------------------------------------
\* What the handler saw is still so when it acts on it.
HandlerOK ==
  /\ isr \in {"clear", "rx"} => /\ "RRDY" \in status => rx_char_ready
                                /\ "TRDY" \in status => tx_ready
  /\ isr = "rx" => "RRDY" \in status
  /\ isr = "tx" => tx_ready

\* The call of write has characters left where it handles one, and room in the
\* ring where it puts one.
atWrite == pc \in {"write", "full", "room", "put", "advance"}

CallOK ==
  /\ pc \in {"full", "room", "put"} => count > 0
  /\ Len(written) + (IF pc = "advance" THEN 1 ELSE 0)
                  + (IF atWrite THEN count ELSE 0) <= MaxWrite
  /\ pc \in {"put", "advance"} => next(tx_end) # tx_start

\* Where each character that was written is: on the line, in the shift register,
\* in the transmit register or in the ring.
shifting == IF tx_shift = NoChar THEN 0 ELSE 1
holding == IF tx_ready THEN 0 ELSE 1
gone == Len(txd) + shifting + holding
Numbered(s) == \A i \in 1..Len(s) : s[i] = i

TxOK ==
  /\ txd \in Seq(Chars)
  /\ Numbered(txd) /\ Numbered(written)
  /\ tx_shift # NoChar => tx_shift = Len(txd) + 1
  /\ ~tx_ready => tx_data = Len(txd) + shifting + 1
  /\ Len(written) = gone + Dist(tx_start, tx_end)
  /\ \A p \in Place :
       Dist(tx_start, p) < Dist(tx_start, tx_end)
         => tx_buf[p] = gone + Dist(tx_start, p) + 1
  /\ pc = "advance" => tx_buf[tx_end] = Len(written) + 1

\* The places of the receive ring that hold a character no call has copied.  When
\* the handler has filled the whole ring it looks empty, but not to the call
\* that is about to give a place back.
Unread(p) ==
  IF pc = "taken"
    THEN p # rx_start
           /\ (rx_start = rx_end \/ Dist(rx_start, p) < Dist(rx_start, rx_end))
    ELSE Dist(rx_start, p) < Dist(rx_start, rx_end)

\* What was read is older than what is in the ring, and that is older than what
\* is in the device.
RxOK ==
  /\ rx_char_ready => arrived > 0 /\ rx_data = arrived
  /\ \A i \in 1..Len(delivered) :
       /\ delivered[i] \in 1..arrived
       /\ rx_char_ready => delivered[i] < arrived
       /\ i < Len(delivered) => delivered[i] < delivered[i + 1]
  /\ \A p \in Place : Unread(p) =>
       /\ rx_buf[p] \in 1..arrived
       /\ rx_char_ready => rx_buf[p] < arrived
       /\ \A i \in 1..Len(delivered) : delivered[i] < rx_buf[p]
       /\ \A q \in Place :
            Unread(q) /\ Dist(rx_start, p) < Dist(rx_start, q)
              => rx_buf[p] < rx_buf[q]

UartInv == TypeOK /\ HandlerOK /\ CallOK /\ TxOK /\ RxOK

LEMMA InvInit == Init => UartInv
<1> SUFFICES ASSUME Init PROVE UartInv
  OBVIOUS
<1> USE DEF Init, InitUart
<1>1. TypeOK
  <2>1. TypeUart
    BY DEF TypeUart
  <2>2. <<>> \in Seq(Chars) /\ 0 \in 0..(BufLen - 1) /\ 0 \in 0..MaxArrive
    OBVIOUS
  <2>3. rx_buf \in [0..(BufLen - 1) -> Chars \cup {NoChar}]
    OBVIOUS
  <2>4. tx_buf \in [0..(BufLen - 1) -> Chars \cup {NoChar}]
    OBVIOUS
  <2>5. "out" \in labels
    BY DEF labels
  <2> QED BY <2>1, <2>2, <2>3, <2>4, <2>5 DEF TypeOK
<1>2. HandlerOK /\ CallOK
  BY DEF HandlerOK, CallOK, atWrite
<1>3. Dist(0, 0) = 0 /\ \A p \in Place : ~(Dist(0, p) < 0)
  BY DEF Place, Dist
<1>4. TxOK
  <2>1. Numbered(txd) /\ Numbered(written) /\ gone = 0
    BY DEF Numbered, gone, shifting, holding
  <2> QED BY <2>1, <1>3 DEF TxOK
<1>5. RxOK
  BY <1>3 DEF RxOK, Unread
<1> QED BY <1>1, <1>2, <1>4, <1>5 DEF UartInv
-------------------------------------------------------------------------------
\* What the handler saw stays so: only its own steps take the character or fill
\* the transmit register.
LEMMA HandlerStep ==
  ASSUME TypeOK, HandlerOK, [Next]_vars
  PROVE  HandlerOK'
<1> USE DEF HandlerOK, goOn, afterRx
<1>1. CASE Arrive
  BY <1>1 DEF Arrive, Arrival, GotNewChar, rings, call, txVars
<1>2. CASE Transmit
  BY <1>2 DEF Transmit, LoadShifter, ShiftDone, rxVars
<1>3. CASE IrqEntry
  <2>1. "FE" # "RRDY" /\ "TOE" # "RRDY" /\ "FE" # "TRDY" /\ "TOE" # "TRDY"
    OBVIOUS
  <2>2. "RRDY" \in status_reg => rx_char_ready
    BY <2>1 DEF status_reg, TypeOK, TypeUart
  <2>3. "TRDY" \in status_reg => tx_ready
    BY <2>1 DEF status_reg, TypeOK, TypeUart
  <2> QED BY <1>3, <2>2, <2>3 DEF IrqEntry, uartVars
<1>4. CASE IrqClear
  BY <1>4 DEF IrqClear, WriteStatus, rxVars, txVars
<1>5. CASE RxIrqError
  BY <1>5 DEF RxIrqError, uartVars
<1>6. CASE RxIrq
  BY <1>6 DEF RxIrq, txVars
<1>7. CASE TxIrq
  BY <1>7 DEF TxIrq
<1>8. CASE isr = "off" /\ isr' = "off"
  BY <1>8
<1>9. CASE UNCHANGED vars
  BY <1>9 DEF vars, uartVars
<1>10. ASSUME CallRead \/ CallWrite \/ CallClose \/ Write \/ Read \/ Close
       PROVE  isr = "off" /\ isr' = "off"
  BY <1>10 DEF CallRead, CallWrite, CallClose, Call, Write, WriteTest, WriteFull,
    WriteRoom, WritePut, WriteAdvance, WriteEnd, Read, ReadTake, ReadAdvance, ReadTest,
    ReadNothing, ReadEmpty, ReadEnd, Close, at, local, enable
<1> QED BY <1>1, <1>2, <1>3, <1>4, <1>5, <1>6, <1>7, <1>8, <1>9, <1>10 DEF Next, Irq
-------------------------------------------------------------------------------
\* The steps of the program in its calls.
Calls == CallRead \/ CallWrite \/ CallClose \/ Write \/ Read \/ Close

\* A character of the ring that is read is one that arrived, and a character
\* that is written is within its bound.
LEMMA TypeStep ==
  ASSUME UartInv, [Next]_vars
  PROVE  TypeOK'
<1> USE DEF UartInv, TypeOK, TypeUart
<1>1. CASE Arrive
  BY <1>1 DEF Arrive, Arrival, GotNewChar, framing_error, rings, call, txVars
<1>2. CASE Transmit
  BY <1>2 DEF Transmit, LoadShifter, ShiftDone, rxVars, rings, call, history
<1>3. CASE IrqEntry
  <2>1. status_reg \subseteq {"RRDY", "TRDY", "TOE", "FE"}
    BY DEF status_reg
  <2> QED BY <1>3, <2>1 DEF IrqEntry, uartVars, rings, call, history
<1>4. CASE IrqClear
  BY <1>4 DEF IrqClear, WriteStatus, goOn, afterRx, rxVars, txVars, rings, call, history
<1>5. CASE RxIrqError
  BY <1>5 DEF RxIrqError, goOn, afterRx, uartVars, rings, call, history
<1>6. CASE RxIrq
  <2>1. next(rx_end) \in 0..(BufLen - 1)
    BY NextPlace DEF Place
  <2>2. rx_buf' \in [0..(BufLen - 1) -> Chars \cup {NoChar}]
    BY <1>6 DEF RxIrq
  <2>3. rx_data' \in Chars \cup {NoChar} /\ arrived' \in 0..MaxArrive
    BY <1>6 DEF RxIrq, ReadRxdata, ReadRxdataLate, Arrival
  <2>4. rx_char_ready' \in BOOLEAN /\ errors' \subseteq {"TOE", "FE"}
    BY <1>6 DEF RxIrq, ReadRxdata, ReadRxdataLate, framing_error
  <2>5. control_reg' \subseteq {"RRDY", "TRDY"}
    BY <1>6 DEF RxIrq
  <2> QED BY <1>6, <2>1, <2>2, <2>3, <2>4, <2>5
          DEF RxIrq, goOn, afterRx, txVars, txRing, call
<1>7. CASE TxIrq
  <2>1. next(tx_start) \in 0..(BufLen - 1)
    BY NextPlace DEF Place
  <2>2. tx_buf[tx_start] \in Chars \cup {NoChar}
    OBVIOUS
  <2>3. errors' \subseteq {"TOE", "FE"} /\ tx_ready' \in BOOLEAN
        /\ tx_data' \in Chars \cup {NoChar} /\ tx_shift' \in Chars \cup {NoChar}
        /\ tx_start' \in 0..(BufLen - 1)
    BY <1>7, <2>1, <2>2 DEF TxIrq, WriteTxdata, txVars
  <2>4. control_reg' \subseteq {"RRDY", "TRDY"}
    BY <1>7 DEF TxIrq
  <2> QED BY <1>7, <2>3, <2>4 DEF TxIrq, goOn, rxVars, rxRing, call, history
<1>8. ASSUME Calls PROVE TypeOK'
  <2> USE DEF at, goto, return, local, enable, uartVars, rxVars, txVars, rings, rxRing,
              txRing, history, labels
  <2>1. CASE CallRead \/ CallWrite \/ CallClose
    <3>1. /\ pc' \in labels /\ len' \in Lens \cup {0} /\ count' \in 0..len'
          /\ block' \in BOOLEAN /\ local /\ UNCHANGED <<rings, arrived, delivered, written>>
      BY <2>1 DEF CallRead, CallWrite, CallClose, Call
    <3> QED BY <3>1
  <2>2. CASE WriteTest
    BY <2>2 DEF WriteTest
  <2>3. CASE WriteFull \/ WriteRoom
    BY <2>3 DEF WriteFull, WriteRoom
  <2>4. CASE WritePut
    <3>1. count \in Nat /\ count > 0 /\ Len(written) + count <= MaxWrite
      BY <2>4 DEF WritePut, CallOK, atWrite
    <3>2. nextChar \in 1..MaxWrite
      BY <3>1 DEF nextChar
    <3> QED BY <2>4, <3>1, <3>2 DEF WritePut
  <2>5. CASE WriteAdvance
    <3>1. nextChar \in 1..MaxWrite
      BY <2>5 DEF WriteAdvance, CallOK, atWrite, nextChar
    <3>2. next(tx_end) \in 0..(BufLen - 1)
      BY NextPlace DEF Place
    <3>3. written' \in Seq(Chars)
      BY <2>5, <3>1 DEF WriteAdvance
    <3> QED BY <2>5, <3>2, <3>3 DEF WriteAdvance
  <2>6. CASE WriteEnd \/ ReadEnd \/ Close
    <3>1. /\ pc' = "out" /\ len' = 0 /\ count' = 0 /\ block' = TRUE
          /\ isr' = isr /\ status' = status
          /\ control_reg' \subseteq {"RRDY", "TRDY"}
          /\ UNCHANGED <<txVars, rxVars, errors, rings, history>>
      BY <2>6 DEF WriteEnd, ReadEnd, Close
    <3> QED BY <3>1
  <2>7. CASE ReadTake
    <3>1. Unread(rx_start)
      BY <2>7 DEF ReadTake, Unread, Dist
    <3>2. rx_buf[rx_start] \in 1..MaxArrive
      BY <3>1 DEF RxOK, Place
    <3> QED BY <2>7, <3>2, SMTT(60) DEF ReadTake
  <2>8. CASE ReadAdvance
    <3>1. next(rx_start) \in 0..(BufLen - 1)
      BY NextPlace DEF Place
    <3> QED BY <2>8, <3>1 DEF ReadAdvance
  <2>9. CASE ReadTest \/ ReadNothing \/ ReadEmpty
    BY <2>9, SMTT(30) DEF ReadTest, ReadNothing, ReadEmpty
  <2> QED BY <1>8, <2>1, <2>2, <2>3, <2>4, <2>5, <2>6, <2>7, <2>8, <2>9
          DEF Calls, Write, Read
<1>9. CASE UNCHANGED vars
  BY <1>9 DEF vars, uartVars, rings, call, history
<1> QED BY <1>1, <1>2, <1>3, <1>4, <1>5, <1>6, <1>7, <1>8, <1>9 DEF Next, Irq, Calls
-------------------------------------------------------------------------------
\* A call writes no more than it was given, and the room a writer has seen stays:
\* only the writer takes it.
LEMMA CallStep ==
  ASSUME UartInv, [Next]_vars
  PROVE  CallOK'
<1>0. /\ tx_start \in Place /\ tx_end \in Place
      /\ Len(written) \in Nat /\ count \in Nat /\ Len(written) <= MaxWrite
  <2>1. tx_start \in Place /\ tx_end \in Place /\ Len(written) \in Nat /\ count \in Nat
    BY DEF UartInv, TypeOK, Place
  <2>2. CASE atWrite
    BY <2>1, <2>2 DEF UartInv, CallOK
  <2>3. CASE ~atWrite
    BY <2>1, <2>3 DEF UartInv, CallOK
  <2> QED BY <2>1, <2>2, <2>3
<1> USE DEF UartInv, CallOK, atWrite
<1>1. CASE UNCHANGED <<call, tx_start, tx_end, written>>
  BY <1>1 DEF call, next
<1>2. CASE Arrive \/ Transmit \/ IrqEntry \/ IrqClear \/ RxIrqError \/ RxIrq
           \/ UNCHANGED vars
  BY <1>1, <1>2 DEF Arrive, Arrival, Transmit, IrqEntry, IrqClear, RxIrqError, RxIrq,
    vars, rings, txRing, history
<1>3. CASE TxIrq
  <2>1. CASE tx_start = tx_end
    BY <1>1, <1>3, <2>1 DEF TxIrq, history
  <2>2. CASE tx_start # tx_end
    <3>1. next(tx_start) # next(tx_end)
      BY <1>0, <2>2, NextPlace, SMTT(60) DEF Place
    <3> QED BY <1>3, <2>2, <3>1 DEF TxIrq, call, history, next
  <2> QED BY <2>1, <2>2
<1>4. ASSUME Calls PROVE CallOK'
  <2> USE DEF at, goto, return, local, rings, rxRing, txRing, history
  <2>1. CASE CallRead \/ CallClose \/ WriteEnd \/ ReadEnd \/ Close
    <3>1. pc' \in {"read", "close", "out"} /\ written' = written
      BY <2>1 DEF CallRead, CallClose, Call, WriteEnd, ReadEnd, Close
    <3> QED BY <1>0, <3>1
  <2>2. CASE CallWrite
    BY <2>2 DEF CallWrite, Call
  <2>3. CASE WriteTest
    <3>1. \/ pc' = "put" /\ count > 0 /\ next(tx_end) # tx_start
          \/ pc' = "full" /\ count > 0
          \/ pc' = "written"
      BY <2>3 DEF WriteTest
    <3>2. count' = count /\ tx_end' = tx_end /\ tx_start' = tx_start
          /\ written' = written /\ pc = "write"
      BY <2>3 DEF WriteTest
    <3>3. Len(written) + count <= MaxWrite
      BY <1>0, <3>2
    <3>4. pc' = "put" => next(tx_end)' # tx_start'
      BY <3>1, <3>2 DEF next
    <3>5. CASE pc' = "written"
      BY <1>0, <3>2, <3>5
    <3>6. CASE pc' \in {"put", "full"}
      BY <1>0, <3>1, <3>2, <3>3, <3>4, <3>6
    <3> QED BY <3>1, <3>5, <3>6
  <2>4. CASE WriteFull \/ WriteRoom
    BY <2>4 DEF WriteFull, WriteRoom, enable, next
  <2>5. CASE WritePut
    <3>1. pc = "put" /\ pc' = "advance" /\ count' = count - 1
          /\ UNCHANGED <<tx_end, tx_start, written>>
      BY <2>5 DEF WritePut
    <3> QED BY <1>0, <3>1 DEF next
  <2>6. CASE WriteAdvance
    <3>1. Len(written') = Len(written) + 1
      BY <2>6 DEF WriteAdvance
    <3> QED BY <2>6, <3>1 DEF WriteAdvance
  <2>7. CASE ReadTake \/ ReadAdvance \/ ReadTest \/ ReadNothing \/ ReadEmpty
    <3>1. pc' \in {"read", "taken", "nothing", "empty", "ended"} /\ written' = written
      BY <2>7 DEF ReadTake, ReadAdvance, ReadTest, ReadNothing, ReadEmpty, enable
    <3> QED BY <1>0, <3>1
  <2> QED BY <1>4, <2>1, <2>2, <2>3, <2>4, <2>5, <2>6, <2>7 DEF Calls, Write, Read
<1> QED BY <1>2, <1>3, <1>4 DEF Next, Irq, Calls
-------------------------------------------------------------------------------
\* A step that leaves the transmitter and its ring alone.
LEMMA TxKept ==
  ASSUME TxOK, UNCHANGED <<txVars, txRing, written>>, pc' = "advance" => pc = "advance"
  PROVE  TxOK'
BY DEF TxOK, txVars, txRing, Numbered, gone, shifting, holding

\* A character moves on from the ring to the transmit register, to the shift
\* register and to the line, and none overtakes another.
LEMMA TxStep ==
  ASSUME UartInv, [Next]_vars
  PROVE  TxOK'
<1>0. /\ tx_start \in Place /\ tx_end \in Place /\ Dist(tx_start, tx_end) \in Nat
      /\ Len(written) \in Nat /\ Len(txd) \in Nat /\ gone \in Nat
  <2>1. tx_start \in Place /\ tx_end \in Place /\ Len(written) \in Nat /\ Len(txd) \in Nat
    BY DEF UartInv, TypeOK, TxOK, Place
  <2>2. Dist(tx_start, tx_end) \in Nat
    BY <2>1, DistType
  <2>3. gone \in Nat
    <3>1. shifting \in Nat /\ holding \in Nat
      BY DEF shifting, holding
    <3> QED BY <2>1, <3>1 DEF gone
  <2> QED BY <2>1, <2>2, <2>3
<1>1. gone <= MaxWrite
  <2>1. CASE atWrite
    BY <1>0, <2>1, SMTT(60) DEF UartInv, CallOK, TxOK, TypeOK
  <2>2. CASE ~atWrite
    BY <1>0, <2>2 DEF UartInv, CallOK, TxOK
  <2> QED BY <2>1, <2>2
<1>2. CASE LoadShifter /\ UNCHANGED <<rings, isr, status, call, history>>
  <2>1. tx_data = Len(txd) + 1 /\ gone = Len(txd) + 1
    BY <1>0, <1>2 DEF LoadShifter, UartInv, TxOK, gone, shifting, holding
  <2>2. tx_data \in Chars
    BY <1>0, <1>1, <2>1
  <2>3. tx_shift' = Len(txd) + 1 /\ tx_shift' # NoChar /\ tx_ready'
    BY <1>2, <2>1, <2>2 DEF LoadShifter
  <2>4. gone' = gone
    BY <1>2, <2>1, <2>3 DEF LoadShifter, gone, shifting, holding
  <2> QED BY <1>0, <1>2, <2>3, <2>4
          DEF LoadShifter, UartInv, TxOK, rings, call, history, Numbered
<1>3. CASE ShiftDone /\ UNCHANGED <<rings, isr, status, call, history>>
  <2>1. tx_shift = Len(txd) + 1 /\ tx_shift \in Chars /\ txd' = Append(txd, Len(txd) + 1)
    BY <1>3 DEF ShiftDone, UartInv, TxOK, TypeOK, TypeUart
  <2>2. txd' \in Seq(Chars) /\ Len(txd') = Len(txd) + 1 /\ Numbered(txd')
    BY <1>0, <2>1 DEF UartInv, TxOK, Numbered
  <2>3. gone' = gone
    BY <1>0, <1>3, <2>2 DEF ShiftDone, gone, shifting, holding
  <2>4. ~tx_ready' => tx_data' = Len(txd') + shifting' + 1
    BY <1>0, <1>3, <2>2 DEF ShiftDone, UartInv, TxOK, shifting
  <2> QED BY <1>0, <1>3, <2>2, <2>3, <2>4
          DEF ShiftDone, UartInv, TxOK, rings, call, history, Numbered
<1>4. CASE TxIrq
  <2>1. CASE tx_start = tx_end
    BY <1>4, <2>1, TxKept DEF TxIrq, UartInv, txRing, txVars, call, history
  <2>2. CASE tx_start # tx_end
    <3>1. /\ tx_data' = tx_buf[tx_start] /\ tx_ready' = FALSE /\ tx_start' = next(tx_start)
          /\ UNCHANGED <<tx_shift, txd, tx_buf, tx_end, call, history>>
      BY <1>4, <2>2 DEF TxIrq, WriteTxdata
    <3>2. tx_ready
      BY <1>4 DEF TxIrq, UartInv, HandlerOK
    <3>3. gone' = gone + 1 /\ gone = Len(txd) + shifting /\ shifting' = shifting
      BY <1>0, <3>1, <3>2 DEF gone, shifting, holding
    <3>4. Dist(tx_start, tx_start) = 0 /\ Dist(tx_start, tx_end) > 0
      BY <1>0, <2>2 DEF Dist, Place
    <3>5. tx_data' = gone + 1
      BY <1>0, <3>1, <3>4 DEF UartInv, TxOK
    <3>6. Dist(tx_start', tx_end') = Dist(tx_start, tx_end) - 1
      BY <1>0, <2>2, <3>1, DistNext
    <3>7. ASSUME NEW p \in Place, Dist(tx_start', p) < Dist(tx_start', tx_end')
          PROVE  tx_buf'[p] = gone' + Dist(tx_start', p) + 1
      <4>1. p # tx_start
        BY <1>0, <3>1, <3>6, <3>7, DistNext, DistType
      <4>2. Dist(tx_start', p) = Dist(tx_start, p) - 1 /\ Dist(tx_start, p) \in Nat
        BY <1>0, <3>1, <4>1, DistNext, DistType
      <4>3. tx_buf[p] = gone + Dist(tx_start, p) + 1
        BY <1>0, <3>6, <3>7, <4>2 DEF UartInv, TxOK
      <4> QED BY <1>0, <3>1, <3>3, <4>2, <4>3
    <3> QED BY <1>0, <1>4, <3>1, <3>3, <3>5, <3>6, <3>7 DEF UartInv, TxOK, Numbered, call, history, TxIrq
  <2> QED BY <2>1, <2>2
<1>5. CASE WritePut
  <2>1. /\ tx_buf' = [tx_buf EXCEPT ![tx_end] = Len(written) + 1] /\ pc' = "advance"
        /\ UNCHANGED <<txVars, tx_start, tx_end, written>>
    BY <1>5 DEF WritePut, goto, local, nextChar, uartVars, txVars, rings, history
  <2>2. gone' = gone
    BY <2>1 DEF gone, shifting, holding, txVars
  <2>3. tx_buf \in [Place -> Chars \cup {NoChar}]
    BY DEF UartInv, TypeOK, Place
  <2>4. tx_buf'[tx_end] = Len(written) + 1
    BY <1>0, <2>1, <2>3
  <2>5. ASSUME NEW p \in Place, Dist(tx_start, p) < Dist(tx_start, tx_end)
        PROVE  tx_buf'[p] = tx_buf[p]
    BY <1>0, <2>1, <2>3, <2>5
  <2> QED BY <1>0, <2>1, <2>2, <2>4, <2>5 DEF UartInv, TxOK, Numbered, txVars, shifting
<1>6. CASE WriteAdvance
  <2>1. /\ tx_end' = next(tx_end) /\ pc = "advance" /\ pc' = "write"
        /\ written' = Append(written, Len(written) + 1)
        /\ UNCHANGED <<txVars, tx_start, tx_buf>>
    BY <1>6 DEF WriteAdvance, at, goto, local, nextChar, uartVars, txVars
  <2>2. gone' = gone
    BY <2>1 DEF gone, shifting, holding, txVars
  <2>3. Len(written') = Len(written) + 1 /\ Numbered(written')
    BY <1>0, <2>1, SMTT(60) DEF UartInv, TxOK, TypeOK, Numbered
  <2>4. Dist(tx_start, tx_end') = Dist(tx_start, tx_end) + 1
    BY <1>0, <2>1, DistNext DEF UartInv, CallOK
  <2>5. ASSUME NEW p \in Place, Dist(tx_start, p) < Dist(tx_start, tx_end')
        PROVE  tx_buf[p] = gone + Dist(tx_start, p) + 1
    <3>1. CASE p = tx_end
      BY <1>0, <2>1, <3>1 DEF UartInv, TxOK
    <3>2. CASE p # tx_end
      <4>1. Dist(tx_start, p) # Dist(tx_start, tx_end) /\ Dist(tx_start, p) \in Nat
        BY <1>0, <3>2, DistOne, DistType
      <4> QED BY <1>0, <2>4, <2>5, <4>1 DEF UartInv, TxOK
    <3> QED BY <3>1, <3>2
  <2> QED BY <1>0, <2>1, <2>2, <2>3, <2>4, <2>5
          DEF UartInv, TxOK, Numbered, txVars, shifting
<1>7. CASE UNCHANGED <<txVars, txRing, written>> /\ (pc' = "advance" => pc = "advance")
  BY <1>7, TxKept DEF UartInv
<1>8. CASE Arrive \/ IrqEntry \/ IrqClear \/ RxIrqError \/ RxIrq \/ UNCHANGED vars
  BY <1>7, <1>8 DEF Arrive, Arrival, GotNewChar, IrqEntry, IrqClear, WriteStatus,
    RxIrqError, RxIrq, vars, rings, txRing, history, call, uartVars, txVars
<1>9. ASSUME CallRead \/ CallWrite \/ CallClose \/ WriteTest \/ WriteFull \/ WriteRoom
             \/ WriteEnd \/ Read \/ Close
      PROVE  UNCHANGED <<txVars, txRing, written>> /\ pc' # "advance"
  <2> USE DEF at, goto, return, local, enable, uartVars, txVars, rings, txRing, history
  <2>1. CASE CallRead \/ CallWrite \/ CallClose
    BY <2>1 DEF CallRead, CallWrite, CallClose, Call
  <2>2. CASE WriteTest \/ WriteFull \/ WriteRoom \/ WriteEnd \/ Close
    BY <2>2 DEF WriteTest, WriteFull, WriteRoom, WriteEnd, Close
  <2>3. CASE Read
    BY <2>3 DEF Read, ReadTake, ReadAdvance, ReadTest, ReadNothing, ReadEmpty, ReadEnd
  <2> QED BY <1>9, <2>1, <2>2, <2>3
<1> QED BY <1>2, <1>3, <1>4, <1>5, <1>6, <1>7, <1>8, <1>9
        DEF Next, Irq, Write, Transmit
-------------------------------------------------------------------------------
\* A step that leaves the receiver and its ring alone.
LEMMA RxKept ==
  ASSUME RxOK, UNCHANGED <<rxVars, rxRing, arrived, delivered>>,
         pc' = "taken" <=> pc = "taken"
  PROVE  RxOK'
BY DEF RxOK, rxVars, rxRing, Unread

\* What is newer stays newer: characters are lost between the line, the ring and
\* the reader, but never exchanged.
LEMMA RxStep ==
  ASSUME UartInv, [Next]_vars
  PROVE  RxOK'
<1>0. /\ rx_start \in Place /\ rx_end \in Place /\ arrived \in Nat
      /\ rx_buf \in [Place -> Chars \cup {NoChar}]
      /\ delivered \in Seq(Chars) /\ Len(delivered) \in Nat
  BY DEF UartInv, TypeOK, Place
<1>1. CASE Arrive
  <2>1. /\ rx_data' = arrived + 1 /\ arrived' = arrived + 1
        /\ UNCHANGED <<rxRing, delivered, pc>>
    BY <1>1 DEF Arrive, Arrival, GotNewChar, rings, rxRing, call
  <2>2. \A p : Unread(p)' <=> Unread(p)
    BY <2>1 DEF Unread, rxRing
  <2>3. 1..arrived \subseteq 1..arrived' /\ \A n \in 1..arrived : n < arrived'
    BY <1>0, <2>1
  <2> QED BY <1>0, <2>1, <2>2, <2>3 DEF UartInv, RxOK, rxRing
<1>2. CASE RxIrq
  <2>1. /\ rx_buf' = [rx_buf EXCEPT ![rx_end] = arrived] /\ rx_end' = next(rx_end)
        /\ rx_char_ready /\ ~rx_char_ready' /\ arrived' \in {arrived, arrived + 1}
        /\ UNCHANGED <<rx_start, delivered, pc>>
    BY <1>2 DEF RxIrq, ReadRxdata, ReadRxdataLate, Arrival, call, UartInv, HandlerOK, RxOK
  <2>2. ASSUME NEW p \in Place, Unread(p)'
        PROVE  \/ p = rx_end
               \/ p # rx_end /\ Unread(p) /\ Dist(rx_start, p) < Dist(rx_start, rx_end)
    <3>1. /\ Dist(rx_start, p) \in 0..(BufLen - 1) /\ Dist(rx_start, rx_end) \in 0..(BufLen - 1)
          /\ rx_start # rx_end => Dist(rx_start, rx_end) > 0
          /\ p # rx_end => Dist(rx_start, p) # Dist(rx_start, rx_end)
      BY <1>0, DistOne, DistType DEF Place, Dist
    <3>2. CASE next(rx_end) # rx_start
      <4>1. Dist(rx_start, rx_end') = Dist(rx_start, rx_end) + 1
        BY <1>0, <2>1, <3>2, DistNext
      <4>2. Dist(rx_start, p) < Dist(rx_start, rx_end) + 1
        BY <2>1, <2>2, <3>2, <4>1 DEF Unread
      <4>3. p # rx_start => Dist(rx_start, p) > 0
        BY <1>0 DEF Place, Dist
      <4> QED BY <2>1, <2>2, <3>1, <4>2, <4>3 DEF Unread
    <3>3. CASE next(rx_end) = rx_start
      <4>1. Dist(rx_start, rx_end) = BufLen - 1
        BY <1>0, <3>3, DistNext
      <4>2. Dist(rx_start, rx_start) = 0 /\ rx_end' = rx_start
        BY <1>0, <2>1, <3>3 DEF Place, Dist
      <4>3. pc = "taken" /\ p # rx_start
        BY <2>1, <2>2, <3>1, <4>2 DEF Unread
      <4>4. CASE p # rx_end
        BY <3>1, <4>1, <4>3, <4>4 DEF Unread
      <4> QED BY <4>4
    <3> QED BY <3>2, <3>3
  <2>3. rx_buf'[rx_end] = arrived /\ \A p \in Place \ {rx_end} : rx_buf'[p] = rx_buf[p]
    BY <1>0, <2>1
  <2>4. arrived \in 1..arrived' /\ 1..arrived \subseteq 1..arrived'
    BY <1>0, <2>1 DEF UartInv, RxOK
  <2>5. ASSUME NEW p \in Place, Unread(p)'
        PROVE  /\ rx_buf'[p] \in 1..arrived'
               /\ \A i \in 1..Len(delivered) : delivered[i] < rx_buf'[p]
               /\ \A q \in Place :
                    Unread(q)' /\ Dist(rx_start, p) < Dist(rx_start, q)
                      => rx_buf'[p] < rx_buf'[q]
    <3>1. CASE p = rx_end
      <4>1. \A q \in Place : Unread(q)' => ~(Dist(rx_start, p) < Dist(rx_start, q))
        BY <1>0, <2>2, <3>1, DistType
      <4> QED BY <2>1, <2>3, <2>4, <3>1, <4>1 DEF UartInv, RxOK
    <3>2. CASE p # rx_end
      <4>1. Unread(p) /\ rx_buf'[p] = rx_buf[p] /\ rx_buf[p] < arrived
        BY <2>1, <2>2, <2>3, <2>5, <3>2 DEF UartInv, RxOK
      <4>2. ASSUME NEW q \in Place, Unread(q)', Dist(rx_start, p) < Dist(rx_start, q)
            PROVE  rx_buf'[p] < rx_buf'[q]
        BY <2>2, <2>3, <4>1, <4>2 DEF UartInv, RxOK
      <4> QED BY <2>4, <4>1, <4>2 DEF UartInv, RxOK
    <3> QED BY <3>1, <3>2
  <2> QED BY <2>1, <2>4, <2>5 DEF UartInv, RxOK
<1>3. CASE ReadTake
  <2>1. /\ rx_start # rx_end /\ pc = "read" /\ pc' = "taken"
        /\ delivered' = Append(delivered, rx_buf[rx_start])
        /\ UNCHANGED <<rxVars, rxRing, arrived>>
    BY <1>3 DEF ReadTake, at, goto, local, uartVars, rxVars, rings, rxRing
  <2>2. Dist(rx_start, rx_start) = 0 /\ Dist(rx_start, rx_end) > 0
        /\ \A p \in Place : p # rx_start => Dist(rx_start, p) > 0
    BY <1>0, <2>1 DEF Place, Dist
  <2>3. Unread(rx_start) /\ \A p : Unread(p)' => Unread(p) /\ p # rx_start
    BY <2>1, <2>2 DEF Unread, rxRing
  <2>4. /\ Len(delivered') = Len(delivered) + 1
        /\ \A i \in 1..Len(delivered) : delivered'[i] = delivered[i]
        /\ delivered'[Len(delivered) + 1] = rx_buf[rx_start]
    BY <1>0, <2>1
  <2>5. ASSUME NEW i \in 1..Len(delivered')
        PROVE  /\ delivered'[i] \in 1..arrived
               /\ rx_char_ready => delivered'[i] < arrived
               /\ i < Len(delivered') => delivered'[i] < delivered'[i + 1]
               /\ \A p \in Place : Unread(p)' => delivered'[i] < rx_buf[p]
    <3>1. CASE i = Len(delivered) + 1
      BY <1>0, <2>2, <2>3, <2>4, <3>1 DEF UartInv, RxOK
    <3>2. CASE i \in 1..Len(delivered)
      <4>1. i + 1 \in 1..Len(delivered) \/ i + 1 = Len(delivered) + 1
        BY <1>0, <3>2
      <4> QED BY <1>0, <2>3, <2>4, <3>2, <4>1 DEF UartInv, RxOK
    <3> QED BY <1>0, <2>4, <3>1, <3>2
  <2> QED BY <2>1, <2>3, <2>5 DEF UartInv, RxOK, rxVars, rxRing
<1>4. CASE ReadAdvance
  <2>1. /\ pc = "taken" /\ pc' = "read" /\ rx_start' = next(rx_start)
        /\ UNCHANGED <<rxVars, rx_buf, rx_end, arrived, delivered>>
    BY <1>4 DEF ReadAdvance, at, goto, local, uartVars, rxVars, history
  <2>2. ASSUME NEW p \in Place, Unread(p)'
        PROVE  Unread(p) /\ Dist(rx_start', p) = Dist(rx_start, p) - 1
    <3>1. Dist(rx_start', p) < Dist(rx_start', rx_end)
      BY <2>1, <2>2 DEF Unread
    <3>2. /\ Dist(rx_start', rx_end) < BufLen
          /\ rx_start # rx_end => Dist(rx_start', rx_end) = Dist(rx_start, rx_end) - 1
      BY <1>0, <2>1, DistNext, NextPlace, DistType
    <3>3. p # rx_start
      <4>1. Dist(rx_start, rx_end) \in Nat /\ Dist(rx_start, rx_end) < BufLen
            /\ Dist(rx_start', rx_end) \in Nat
            /\ Dist(rx_start', rx_start) = BufLen - 1
        BY <1>0, <2>1, DistNext, DistType, NextPlace
      <4>2. rx_start = rx_end => Dist(rx_start', rx_end) = BufLen - 1
        BY <4>1
      <4> QED BY <3>1, <3>2, <4>1, <4>2
    <3>4. Dist(rx_start', p) = Dist(rx_start, p) - 1
      BY <1>0, <2>1, <3>3, DistNext
    <3>5. Dist(rx_start, p) \in Nat /\ Dist(rx_start, rx_end) \in Nat
      BY <1>0, DistType
    <3> QED BY <2>1, <3>1, <3>2, <3>3, <3>4, <3>5 DEF Unread
  <2>3. ASSUME NEW p \in Place, NEW q \in Place, Unread(p)', Unread(q)',
               Dist(rx_start', p) < Dist(rx_start', q)
        PROVE  rx_buf[p] < rx_buf[q]
    <3>1. Dist(rx_start, p) < Dist(rx_start, q)
      BY <1>0, <2>2, <2>3, DistType, SMTT(60)
    <3> QED BY <2>2, <2>3, <3>1 DEF UartInv, RxOK
  <2> QED BY <2>1, <2>2, <2>3 DEF UartInv, RxOK, rxVars
<1>5. CASE UNCHANGED <<rxVars, rxRing, arrived, delivered>> /\ (pc' = "taken" <=> pc = "taken")
  BY <1>5, RxKept DEF UartInv
<1>6. CASE Transmit \/ IrqEntry \/ IrqClear \/ RxIrqError \/ TxIrq \/ UNCHANGED vars
  BY <1>5, <1>6 DEF Transmit, LoadShifter, ShiftDone, IrqEntry, IrqClear, WriteStatus,
    RxIrqError, TxIrq, vars, rings, rxRing, history, call, uartVars, rxVars
<1>7. ASSUME CallRead \/ CallWrite \/ CallClose \/ Write \/ ReadTest \/ ReadNothing
             \/ ReadEmpty \/ ReadEnd \/ Close
      PROVE  UNCHANGED <<rxVars, rxRing, arrived, delivered>>
             /\ pc # "taken" /\ pc' # "taken"
  <2> USE DEF at, goto, return, local, enable, uartVars, rxVars, rings, rxRing, history
  <2>1. CASE CallRead \/ CallWrite \/ CallClose
    BY <2>1 DEF CallRead, CallWrite, CallClose, Call
  <2>2. CASE Write
    BY <2>2 DEF Write, WriteTest, WriteFull, WriteRoom, WritePut, WriteAdvance, WriteEnd
  <2>3. CASE ReadTest \/ ReadNothing \/ ReadEmpty \/ ReadEnd \/ Close
    BY <2>3 DEF ReadTest, ReadNothing, ReadEmpty, ReadEnd, Close
  <2> QED BY <1>7, <2>1, <2>2, <2>3
<1> QED BY <1>1, <1>2, <1>3, <1>4, <1>5, <1>6, <1>7 DEF Next, Irq, Read
-------------------------------------------------------------------------------
LEMMA InvStep == UartInv /\ [Next]_vars => UartInv'
BY TypeStep, HandlerStep, CallStep, TxStep, RxStep DEF UartInv

LEMMA Invariance == Spec => []UartInv
BY InvInit, InvStep, PTL DEF Spec

\* Every register, index and argument stays in its range, whatever is called and
\* whatever arrives: the volatile indices never leave the rings.
THEOREM TypeCorrect == Spec => []TypeOK
<1>1. UartInv => TypeOK
  BY DEF UartInv
<1> QED BY <1>1, Invariance, PTL

\* What the calls of read return keeps the order of arrival, for every length of
\* the ring, every split of the reads and every moment of an interrupt, although
\* the handler may overwrite a whole ring.
THEOREM ReadOrder == Spec => []ReadsInOrder
<1>1. ASSUME UartInv PROVE ReadsInOrder
  <2> DEFINE n == Dist(rx_start, rx_end)
             ring == Ring(rx_buf, rx_start, rx_end)
             place(k) == (rx_start + k) % BufLen
             skip == IF pc = "taken" /\ ring # <<>> THEN 1 ELSE 0
  <2>1. /\ rx_start \in Place /\ rx_end \in Place /\ arrived \in Nat
        /\ delivered \in Seq(Chars) /\ Len(delivered) \in Nat
    BY <1>1 DEF UartInv, TypeOK, Place
  <2>2. n \in Nat /\ n < BufLen
    BY <2>1, DistType
  <2>3. ring = [i \in 1..n |-> rx_buf[place(i - 1)]]
    <3>1. (rx_end + BufLen - rx_start) % BufLen = n
      BY <2>1, RingLength
    <3>2. \A i \in 1..n : rx_start + i - 1 = rx_start + (i - 1)
      BY <2>1, <2>2 DEF Place
    <3> QED BY <2>2, <3>1, <3>2 DEF Ring
  <2>4. ASSUME NEW k \in 0..(n - 1)
        PROVE  /\ place(k) \in Place /\ Dist(rx_start, place(k)) = k
               /\ k > 0 => place(k) # rx_start
    <3>1. k \in Place /\ Dist(rx_start, rx_start) = 0
      BY <2>1, <2>2 DEF Place, Dist
    <3>2. place(k) \in Place /\ Dist(rx_start, place(k)) = k
      BY <2>1, <3>1, RingPlace
    <3> HIDE DEF place
    <3> QED BY <3>1, <3>2
  <2> HIDE DEF n, place
  <2>5. ring = <<>> <=> n = 0
    BY <2>2, <2>3
  <2>6. skip \in {0, 1} /\ skip <= n
        /\ \A k \in 0..(n - 1) : k >= skip => Unread(place(k))
    BY <2>2, <2>4, <2>5 DEF Unread, n
  <2>7. \A k \in 0..(n - 1) : k >= skip =>
          /\ rx_buf[place(k)] \in 1..arrived
          /\ \A j \in 1..Len(delivered) : delivered[j] < rx_buf[place(k)]
          /\ k + 1 < n => rx_buf[place(k)] < rx_buf[place(k + 1)]
    BY <1>1, <2>2, <2>4, <2>6 DEF UartInv, RxOK
  <2> HIDE DEF skip, ring
  <2>8. /\ pending \in Seq(Chars \cup {NoChar}) /\ Len(pending) = n - skip
        /\ \A i \in 1..(n - skip) : pending[i] = rx_buf[place(i + skip - 1)]
    <3>1. ring \in Seq(Chars \cup {NoChar}) /\ Len(ring) = n
      <4>1. rx_buf \in [Place -> Chars \cup {NoChar}]
        BY <1>1 DEF UartInv, TypeOK, Place
      <4>2. \A i \in 1..n : rx_buf[place(i - 1)] \in Chars \cup {NoChar}
        BY <2>2, <2>4, <4>1
      <4> QED BY <2>2, <2>3, <4>2
    <3>2. CASE skip = 0
      <4>1. pending = ring
        BY <3>2 DEF pending, skip, ring
      <4> QED BY <2>2, <2>3, <3>1, <3>2, <4>1
    <3>3. CASE skip = 1
      <4>1. pending = Tail(ring) /\ ring # <<>>
        BY <3>3 DEF pending, skip, ring
      <4>2. pending \in Seq(Chars \cup {NoChar}) /\ Len(pending) = n - 1
            /\ \A i \in 1..(n - 1) : pending[i] = ring[i + 1]
        BY <2>2, <2>6, <3>1, <3>3, <4>1
      <4> QED BY <2>2, <2>3, <3>3, <4>2
    <3> QED BY <2>6, <3>2, <3>3
  <2>9. ASSUME NEW i \in 1..Len(pending)
        PROVE  /\ \A j \in 1..Len(delivered) : delivered[j] < pending[i]
               /\ i < Len(pending) => pending[i] < pending[i + 1]
    <3> DEFINE k == i + skip - 1
    <3>1. k \in 0..(n - 1) /\ k >= skip /\ (i < Len(pending) => k + 1 < n)
      BY <2>2, <2>6, <2>8
    <3>2. pending[i] = rx_buf[place(k)]
          /\ (i < Len(pending) => pending[i + 1] = rx_buf[place(k + 1)])
      BY <2>2, <2>6, <2>8
    <3> QED BY <2>7, <3>1, <3>2
  <2> SUFFICES ASSUME NEW i \in 1..(Len(delivered \o pending) - 1)
               PROVE  (delivered \o pending)[i] < (delivered \o pending)[i + 1]
    BY DEF ReadsInOrder
  <2>10. CASE i + 1 <= Len(delivered)
    BY <1>1, <2>1, <2>8, <2>10 DEF UartInv, RxOK
  <2>11. CASE i = Len(delivered)
    BY <2>1, <2>8, <2>9, <2>11
  <2>12. CASE i > Len(delivered)
    BY <2>1, <2>8, <2>9, <2>12
  <2> QED BY <2>1, <2>10, <2>11, <2>12
<1> QED BY <1>1, Invariance, PTL

\* The driver and the device send what the calls of write took, each character
\* once and in its order, for every length of the ring and every program.
THEOREM TransmitsInOrder == Spec => ImplementsChannel
<1>1. Init => C!Init
  BY DEF Init, InitUart, C!Init
<1>2. ASSUME UartInv, [Next]_vars
      PROVE  [C!Accept \/ C!Send]_<<written, txd>>
  <2>1. CASE WriteAdvance
    <3>1. written' = Append(written, nextChar) /\ txd' = txd
      BY <2>1 DEF WriteAdvance, local, uartVars
    <3>2. nextChar \in 1..MaxWrite
      BY <1>2, <2>1 DEF WriteAdvance, at, UartInv, TypeOK, CallOK, atWrite, nextChar
    <3> QED BY <3>1, <3>2 DEF C!Accept
  <2>2. CASE ShiftDone /\ UNCHANGED <<rings, isr, status, call, history>>
    <3>1. txd' = Append(txd, Len(txd) + 1) /\ written' = written
      BY <1>2, <2>2 DEF ShiftDone, history, UartInv, TxOK
    <3>2. Len(txd) < Len(written)
      <4>1. shifting = 1 /\ holding \in Nat /\ Len(txd) \in Nat /\ Len(written) \in Nat
        BY <1>2, <2>2 DEF ShiftDone, shifting, holding, UartInv, TxOK, TypeOK
      <4>2. Dist(tx_start, tx_end) \in Nat
        BY <1>2, DistType DEF UartInv, TypeOK, Place
      <4> QED BY <1>2, <4>1, <4>2 DEF UartInv, TxOK, gone
    <3>3. written[Len(txd) + 1] = Len(txd) + 1
      BY <1>2, <3>2 DEF UartInv, TxOK, TypeOK, Numbered
    <3> QED BY <3>1, <3>2, <3>3 DEF C!Send
  <2>3. ASSUME ~WriteAdvance, ~(ShiftDone /\ UNCHANGED <<rings, isr, status, call, history>>)
        PROVE  UNCHANGED <<written, txd>>
    <3> USE DEF at, goto, return, local, enable, uartVars, txVars, history
    <3>1. CASE Arrive \/ Transmit \/ Irq \/ UNCHANGED vars
      BY <2>3, <3>1 DEF Arrive, GotNewChar, Transmit, LoadShifter, Irq, IrqEntry,
        IrqClear, WriteStatus, RxIrqError, RxIrq, TxIrq, WriteTxdata, vars
    <3>2. CASE CallRead \/ CallWrite \/ CallClose \/ Close
      BY <3>2 DEF CallRead, CallWrite, CallClose, Call, Close
    <3>3. CASE Write \/ Read
      BY <2>3, <3>3 DEF Write, WriteTest, WriteFull, WriteRoom, WritePut, WriteEnd,
        Read, ReadTake, ReadAdvance, ReadTest, ReadNothing, ReadEmpty, ReadEnd
    <3> QED BY <1>2, <3>1, <3>2, <3>3 DEF Next
  <2> QED BY <2>1, <2>2, <2>3
<1> QED BY <1>1, <1>2, Invariance, PTL DEF Spec, ImplementsChannel, C!Behaviour
-------------------------------------------------------------------------------
USE TextAssumption
-------------------------------------------------------------------------------
\* The instructions, and the lengths of the three texts.
Instr ==
  {clear, poll("TRDY"), poll("RRDY"), [op |-> "status"], [op |-> "read"], [op |-> "echo"]}
    \cup {write(c) : c \in Chars}

B == Len(bitbang)
S == Len(splash)
P == Len(input_request)

LEMMA Lengths == B \in Nat /\ S \in Nat /\ P \in Nat /\ B > 0 /\ S > 0 /\ P > 0
  BY DEF B, S, P

\* A place in one sequence after another.
LEMMA ConcatAt ==
  ASSUME NEW s \in Seq(Instr), NEW t \in Seq(Instr)
  PROVE  /\ s \o t \in Seq(Instr) /\ Len(s \o t) = Len(s) + Len(t)
         /\ \A i \in 1..Len(s) : (s \o t)[i] = s[i]
         /\ \A i \in 1..Len(t) : (s \o t)[Len(s) + i] = t[i]
  OBVIOUS

\* A table of so many instructions is a sequence of that length.
LEMMA TableSeq ==
  ASSUME NEW n \in Nat, NEW f \in [1..n -> Instr]
  PROVE  f \in Seq(Instr) /\ Len(f) = n
  OBVIOUS

\* The paced text waits before each character.
LEMMA PacedAt ==
  ASSUME NEW text \in Seq(Chars)
  PROVE  /\ Paced(text) \in Seq(Instr) /\ Len(Paced(text)) = 2 * Len(text)
         /\ \A i \in 1..(2 * Len(text)) :
              /\ i % 2 = 1 => Paced(text)[i] = poll("TRDY")
              /\ i % 2 # 1 => \E c \in Chars : Paced(text)[i] = write(c)
<1>1. \A i \in 1..(2 * Len(text)) : i % 2 # 1 => i \div 2 \in 1..Len(text)
  OBVIOUS
<1>2. \A i \in 1..(2 * Len(text)) : i % 2 # 1 => text[i \div 2] \in Chars
  BY <1>1
<1>3. \A i \in 1..(2 * Len(text)) :
        /\ i % 2 = 1 => Paced(text)[i] = poll("TRDY")
        /\ i % 2 # 1 => Paced(text)[i] = write(text[i \div 2])
  BY DEF Paced
<1>4. \A i \in 1..(2 * Len(text)) : Paced(text)[i] \in Instr
  BY <1>2, <1>3 DEF Instr
<1>5. Paced(text) \in [1..(2 * Len(text)) -> Instr]
  BY <1>4 DEF Paced
<1>6. Paced(text) \in Seq(Instr) /\ Len(Paced(text)) = 2 * Len(text)
  <2>1. 2 * Len(text) \in Nat
    OBVIOUS
  <2> QED BY <1>5, <2>1, TableSeq
<1> QED BY <1>2, <1>3, <1>6

\* The first half of the program, by place,
LEMMA TransmitAt ==
  LET T == BitBangUartTransmit
  IN  /\ T \in Seq(Instr) /\ Len(T) = 2 * B + S + 2
      /\ T[1] = clear
      /\ \A i \in 2..(2 * B + 1) : /\ i % 2 = 0 => T[i] = poll("TRDY")
                                   /\ i % 2 # 0 => \E c \in Chars : T[i] = write(c)
      /\ \A i \in (2 * B + 2)..(2 * B + S + 1) : \E c \in Chars : T[i] = write(c)
      /\ T[2 * B + S + 2] = [op |-> "status"]
<1> DEFINE p == Paced(bitbang)
           q == [i \in 1..Len(splash) |-> write(splash[i])]
           t1 == <<clear>> \o p
           t2 == t1 \o q
           last == <<[op |-> "status"]>>
           T == t2 \o last
<1>0. B \in Nat /\ S \in Nat
  BY Lengths
<1>1. /\ p \in Seq(Instr) /\ Len(p) = 2 * B
      /\ \A i \in 1..(2 * B) : /\ i % 2 = 1 => p[i] = poll("TRDY")
                               /\ i % 2 # 1 => \E c \in Chars : p[i] = write(c)
  BY PacedAt DEF B
<1>2. /\ q \in Seq(Instr) /\ Len(q) = S
      /\ \A i \in 1..S : \E c \in Chars : q[i] = write(c)
  <2>1. \A i \in 1..S : splash[i] \in Chars /\ write(splash[i]) \in Instr
    BY DEF S, Instr
  <2> QED BY <2>1 DEF S
<1>3. /\ <<clear>> \in Seq(Instr) /\ last \in Seq(Instr)
      /\ Len(last) = 1 /\ last[1] = [op |-> "status"]
  BY DEF Instr
<1>4. BitBangUartTransmit = T
  BY DEF BitBangUartTransmit
<1> HIDE DEF p, q, last
<1>5. /\ t1 \in Seq(Instr) /\ Len(t1) = 2 * B + 1 /\ t1[1] = clear
      /\ \A i \in 1..(2 * B) : t1[1 + i] = p[i]
  <2>1. /\ t1 \in Seq(Instr) /\ Len(t1) = Len(<<clear>>) + Len(p)
        /\ \A i \in 1..Len(<<clear>>) : t1[i] = <<clear>>[i]
        /\ \A i \in 1..Len(p) : t1[Len(<<clear>>) + i] = p[i]
    BY <1>1, <1>3, ConcatAt
  <2>2. Len(<<clear>>) = 1 /\ <<clear>>[1] = clear
    OBVIOUS
  <2> HIDE DEF t1
  <2> QED BY <1>0, <1>1, <2>1, <2>2
<1> HIDE DEF t1
<1>6. /\ t2 \in Seq(Instr) /\ Len(t2) = 2 * B + 1 + S
      /\ \A i \in 1..(2 * B + 1) : t2[i] = t1[i]
      /\ \A i \in 1..S : t2[2 * B + 1 + i] = q[i]
  <2>1. /\ t2 \in Seq(Instr) /\ Len(t2) = Len(t1) + Len(q)
        /\ \A i \in 1..Len(t1) : t2[i] = t1[i]
        /\ \A i \in 1..Len(q) : t2[Len(t1) + i] = q[i]
    BY <1>2, <1>5, ConcatAt
  <2> HIDE DEF t2
  <2> QED BY <1>0, <1>2, <1>5, <2>1
<1> HIDE DEF t2
<1>7. /\ T \in Seq(Instr) /\ Len(T) = 2 * B + S + 2
      /\ \A i \in 1..(2 * B + 1 + S) : T[i] = t2[i]
      /\ T[2 * B + S + 2] = [op |-> "status"]
  <2>1. /\ T \in Seq(Instr) /\ Len(T) = Len(t2) + Len(last)
        /\ \A i \in 1..Len(t2) : T[i] = t2[i]
        /\ \A i \in 1..Len(last) : T[Len(t2) + i] = last[i]
    BY <1>3, <1>6, ConcatAt
  <2> HIDE DEF T
  <2> QED BY <1>0, <1>3, <1>6, <2>1
<1> HIDE DEF T
<1>8. T[1] = clear
  BY <1>0, <1>5, <1>6, <1>7
<1>9. ASSUME NEW i \in 2..(2 * B + 1)
      PROVE  /\ i % 2 = 0 => T[i] = poll("TRDY")
             /\ i % 2 # 0 => \E c \in Chars : T[i] = write(c)
  <2>1. i - 1 \in 1..(2 * B) /\ (i % 2 = 0 <=> (i - 1) % 2 = 1)
    BY <1>0
  <2>2. T[i] = p[i - 1]
    BY <1>0, <1>5, <1>6, <1>7, <2>1
  <2> QED BY <1>1, <2>1, <2>2
<1>10. ASSUME NEW i \in (2 * B + 2)..(2 * B + S + 1)
       PROVE  \E c \in Chars : T[i] = write(c)
  <2>1. i - (2 * B + 1) \in 1..S /\ i = 2 * B + 1 + (i - (2 * B + 1))
    BY <1>0
  <2>2. t2[i] = q[i - (2 * B + 1)]
    BY <1>6, <2>1
  <2>3. T[i] = t2[i]
    BY <1>0, <1>7
  <2> QED BY <1>2, <2>1, <2>2, <2>3
<1> QED BY <1>4, <1>7, <1>8, <1>9, <1>10

\* and the second.
LEMMA ReceiveAt ==
  LET T == BitBangUartReceive
  IN  /\ T \in Seq(Instr) /\ Len(T) = 2 * P + 5
      /\ T[1] = clear
      /\ \A i \in 2..(2 * P + 1) : /\ i % 2 = 0 => T[i] = poll("TRDY")
                                   /\ i % 2 # 0 => \E c \in Chars : T[i] = write(c)
      /\ T[2 * P + 2] = poll("RRDY") /\ T[2 * P + 3] = [op |-> "read"]
      /\ T[2 * P + 4] = poll("TRDY") /\ T[2 * P + 5] = [op |-> "echo"]
<1> DEFINE p == Paced(input_request)
           q == <<poll("RRDY"), [op |-> "read"], poll("TRDY"), [op |-> "echo"]>>
           t1 == <<clear>> \o p
           T == t1 \o q
<1>0. P \in Nat
  BY Lengths
<1>1. /\ p \in Seq(Instr) /\ Len(p) = 2 * P
      /\ \A i \in 1..(2 * P) : /\ i % 2 = 1 => p[i] = poll("TRDY")
                               /\ i % 2 # 1 => \E c \in Chars : p[i] = write(c)
  BY PacedAt DEF P
<1>2. /\ q \in Seq(Instr) /\ Len(q) = 4 /\ q[1] = poll("RRDY") /\ q[2] = [op |-> "read"]
      /\ q[3] = poll("TRDY") /\ q[4] = [op |-> "echo"]
  BY DEF Instr
<1>3. <<clear>> \in Seq(Instr)
  BY DEF Instr
<1>4. BitBangUartReceive = T
  BY DEF BitBangUartReceive
<1> HIDE DEF p, q
<1>5. /\ t1 \in Seq(Instr) /\ Len(t1) = 2 * P + 1 /\ t1[1] = clear
      /\ \A i \in 1..(2 * P) : t1[1 + i] = p[i]
  <2>1. /\ t1 \in Seq(Instr) /\ Len(t1) = Len(<<clear>>) + Len(p)
        /\ \A i \in 1..Len(<<clear>>) : t1[i] = <<clear>>[i]
        /\ \A i \in 1..Len(p) : t1[Len(<<clear>>) + i] = p[i]
    BY <1>1, <1>3, ConcatAt
  <2>2. Len(<<clear>>) = 1 /\ <<clear>>[1] = clear
    OBVIOUS
  <2> HIDE DEF t1
  <2> QED BY <1>0, <1>1, <2>1, <2>2
<1> HIDE DEF t1
<1>6. /\ T \in Seq(Instr) /\ Len(T) = 2 * P + 5
      /\ \A i \in 1..(2 * P + 1) : T[i] = t1[i]
      /\ \A i \in 1..4 : T[2 * P + 1 + i] = q[i]
  <2>1. /\ T \in Seq(Instr) /\ Len(T) = Len(t1) + Len(q)
        /\ \A i \in 1..Len(t1) : T[i] = t1[i]
        /\ \A i \in 1..Len(q) : T[Len(t1) + i] = q[i]
    BY <1>2, <1>5, ConcatAt
  <2> HIDE DEF T
  <2> QED BY <1>0, <1>2, <1>5, <2>1, SMTT(30)
<1> HIDE DEF T
<1>7. ASSUME NEW i \in 2..(2 * P + 1)
      PROVE  /\ i % 2 = 0 => T[i] = poll("TRDY")
             /\ i % 2 # 0 => \E c \in Chars : T[i] = write(c)
  <2>1. i - 1 \in 1..(2 * P) /\ (i % 2 = 0 <=> (i - 1) % 2 = 1)
    BY <1>0
  <2>2. T[i] = p[i - 1]
    BY <1>0, <1>5, <1>6, <2>1, SMTT(60)
  <2> QED BY <1>1, <2>1, <2>2
<1>8. /\ T[1] = clear /\ T[2 * P + 2] = q[1] /\ T[2 * P + 3] = q[2]
      /\ T[2 * P + 4] = q[3] /\ T[2 * P + 5] = q[4]
  <2>1. 1 \in 1..4 /\ 2 \in 1..4 /\ 3 \in 1..4 /\ 4 \in 1..4 /\ 1 \in 1..(2 * P + 1)
    BY <1>0
  <2> QED BY <1>0, <1>5, <1>6, <2>1
<1> QED BY <1>2, <1>4, <1>6, <1>7, <1>8

\* The program: where each kind of instruction is, and that outside the splash no
\* write is without its poll.
LEMMA MainPlaces ==
  /\ statusAt = 2 * B + S + 2 /\ splashAt = (2 * B + 2)..(2 * B + S + 1)
  /\ readAt = statusAt + 2 * P + 3 /\ Len(main) = readAt + 2
<1> DEFINE T == BitBangUartTransmit
           R == BitBangUartReceive
<1>1. T \in Seq(Instr) /\ Len(T) = 2 * B + S + 2 /\ R \in Seq(Instr) /\ Len(R) = 2 * P + 5
  BY TransmitAt, ReceiveAt
<1>2. statusAt = Len(T) /\ splashAt = (2 * B + 2)..(2 * B + S + 1) /\ readAt = Len(main) - 2
  BY DEF statusAt, splashAt, readAt, B, S
<1>3. main = T \o R
  BY DEF main
<1> HIDE DEF T, R
<1>4. Len(main) = Len(T) + Len(R)
  BY <1>1, <1>3, ConcatAt
<1> QED BY <1>1, <1>2, <1>4, Lengths

LEMMA MainAt ==
  /\ \A i \in 1..Len(main) : main[i] \in Instr
  /\ \A i \in 1..Len(main) : /\ main[i].op = "clear" <=> i \in {1, statusAt + 1}
                             /\ main[i].op = "status" <=> i = statusAt
                             /\ main[i].op = "read" <=> i = readAt
                             /\ main[i].op = "echo" <=> i = readAt + 2
  /\ \A i \in 2..(2 * B + 1) : main[i].op = IF i % 2 = 0 THEN "poll" ELSE "write"
  /\ \A i \in splashAt : main[i].op = "write"
  /\ \A i \in 1..Len(main) : main[i].op \in {"write", "echo"} /\ i \notin splashAt
       => i - 1 \in 1..Len(main) /\ main[i - 1] = poll("TRDY")
  /\ main[readAt - 1] = poll("RRDY")
<1> DEFINE T == BitBangUartTransmit
           R == BitBangUartReceive
<1>0. /\ B \in Nat /\ S \in Nat /\ P \in Nat /\ B > 0 /\ S > 0 /\ P > 0
      /\ statusAt = 2 * B + S + 2 /\ splashAt = (2 * B + 2)..(2 * B + S + 1)
      /\ readAt = statusAt + 2 * P + 3 /\ Len(main) = readAt + 2
  BY Lengths, MainPlaces
<1>1. /\ T \in Seq(Instr) /\ Len(T) = statusAt /\ T[1] = clear
      /\ \A i \in 2..(2 * B + 1) : /\ i % 2 = 0 => T[i] = poll("TRDY")
                                   /\ i % 2 # 0 => \E c \in Chars : T[i] = write(c)
      /\ \A i \in splashAt : \E c \in Chars : T[i] = write(c)
      /\ T[statusAt] = [op |-> "status"]
  BY <1>0, TransmitAt
<1>2. /\ R \in Seq(Instr) /\ Len(R) = 2 * P + 5 /\ R[1] = clear
      /\ \A i \in 2..(2 * P + 1) : /\ i % 2 = 0 => R[i] = poll("TRDY")
                                   /\ i % 2 # 0 => \E c \in Chars : R[i] = write(c)
      /\ R[2 * P + 2] = poll("RRDY") /\ R[2 * P + 3] = [op |-> "read"]
      /\ R[2 * P + 4] = poll("TRDY") /\ R[2 * P + 5] = [op |-> "echo"]
  BY ReceiveAt
<1> HIDE DEF T, R
<1>3. /\ main \in Seq(Instr)
      /\ \A i \in 1..statusAt : main[i] = T[i]
      /\ \A i \in 1..(2 * P + 5) : main[statusAt + i] = R[i]
  <2>1. main = T \o R
    BY DEF main, T, R
  <2>2. T \in Seq(Instr) /\ R \in Seq(Instr) /\ Len(T) = statusAt /\ Len(R) = 2 * P + 5
    BY <1>1, <1>2
  <2>3. /\ T \o R \in Seq(Instr)
        /\ \A i \in 1..Len(T) : (T \o R)[i] = T[i]
        /\ \A i \in 1..Len(R) : (T \o R)[Len(T) + i] = R[i]
    BY <2>2, ConcatAt, Zenon
  <2>4. /\ main \in Seq(Instr)
        /\ \A i \in 1..Len(T) : main[i] = T[i]
        /\ \A i \in 1..Len(R) : main[Len(T) + i] = R[i]
    BY <2>1, <2>3, Zenon
  <2> QED BY <2>2, <2>4
<1>4. /\ clear.op = "clear" /\ poll("TRDY").op = "poll" /\ poll("RRDY").op = "poll"
      /\ \A c : write(c).op = "write"
  BY DEF clear, poll, write
<1>5. ASSUME NEW i \in 1..statusAt
      PROVE  \/ i = 1 /\ main[i].op = "clear"
             \/ i \in 2..(2 * B + 1) /\ i % 2 = 0 /\ main[i] = poll("TRDY")
             \/ i \in 2..(2 * B + 1) /\ i % 2 # 0 /\ main[i].op = "write" /\ main[i - 1] = poll("TRDY")
             \/ i \in splashAt /\ main[i].op = "write"
             \/ i = statusAt /\ main[i].op = "status"
  <2>1. i = 1 \/ i \in 2..(2 * B + 1) \/ i \in splashAt \/ i = statusAt
    BY <1>0
  <2>2. CASE i = 1
    BY <1>0, <1>1, <1>3, <1>4, <2>2
  <2>3. CASE i \in 2..(2 * B + 1)
    <3>1. CASE i % 2 = 0
      BY <1>0, <1>1, <1>3, <2>3, <3>1
    <3>2. CASE i % 2 # 0
      <4>1. i - 1 \in 2..(2 * B + 1) /\ (i - 1) % 2 = 0
        BY <1>0, <2>3, <3>2, SMTT(30)
      <4>2. main[i - 1] = T[i - 1] /\ main[i] = T[i]
        BY <1>0, <1>3, <2>3, <4>1
      <4> QED BY <1>1, <1>4, <2>3, <3>2, <4>1, <4>2
    <3> QED BY <3>1, <3>2
  <2>4. CASE i \in splashAt
    BY <1>0, <1>1, <1>3, <1>4, <2>4
  <2>5. CASE i = statusAt
    BY <1>0, <1>1, <1>3, <2>5
  <2> QED BY <2>1, <2>2, <2>3, <2>4, <2>5
<1>6. ASSUME NEW i \in (statusAt + 1)..Len(main)
      PROVE  \/ i = statusAt + 1 /\ main[i].op = "clear"
             \/ i < readAt - 1 /\ i > statusAt + 1 /\ main[i].op = "poll"
             \/ i < readAt - 1 /\ i > statusAt + 1 /\ main[i].op = "write" /\ main[i - 1] = poll("TRDY")
             \/ i = readAt - 1 /\ main[i] = poll("RRDY")
             \/ i = readAt /\ main[i].op = "read"
             \/ i = readAt + 1 /\ main[i].op = "poll"
             \/ i = readAt + 2 /\ main[i].op = "echo" /\ main[i - 1] = poll("TRDY")
  <2> DEFINE k == i - statusAt
  <2>1. k \in 1..(2 * P + 5) /\ i = statusAt + k
    BY <1>0
  <2>2. main[i] = R[k]
    BY <1>3, <2>1
  <2>3. k > 1 => main[i - 1] = R[k - 1]
    <3>1. k > 1 => k - 1 \in 1..(2 * P + 5) /\ i - 1 = statusAt + (k - 1)
      BY <1>0, <2>1
    <3> QED BY <1>3, <3>1
  <2> HIDE DEF k
  <2>4. CASE k \in 2..(2 * P + 1)
    <3>0. i < readAt - 1 /\ i > statusAt + 1
      BY <1>0, <2>1, <2>4
    <3>1. CASE k % 2 = 0
      BY <1>2, <1>4, <2>2, <2>4, <3>0, <3>1
    <3>2. CASE k % 2 # 0
      <4>1. k - 1 \in 2..(2 * P + 1) /\ (k - 1) % 2 = 0 /\ k > 1
        BY <1>0, <2>4, <3>2, SMTT(30)
      <4>2. main[i - 1] = poll("TRDY")
        BY <1>2, <2>3, <4>1
      <4>3. main[i].op = "write"
        BY <1>2, <1>4, <2>2, <2>4, <3>2, SMTT(60)
      <4> QED BY <3>0, <4>2, <4>3
    <3> QED BY <3>1, <3>2
  <2>5. CASE k = 1
    BY <1>0, <1>2, <1>4, <2>1, <2>2, <2>5
  <2>6. CASE k = 2 * P + 2
    <3>1. i = readAt - 1
      BY <1>0, <2>1, <2>6
    <3>2. main[i] = poll("RRDY")
      BY <1>2, <2>2, <2>6
    <3> QED BY <3>1, <3>2
  <2>8. CASE k = 2 * P + 3
    BY <1>0, <1>2, <2>1, <2>2, <2>8
  <2>9. CASE k = 2 * P + 4
    BY <1>0, <1>2, <1>4, <2>1, <2>2, <2>9
  <2>7. CASE k = 2 * P + 5
    <3>1. k > 1 /\ k - 1 = 2 * P + 4 /\ i = readAt + 2
      BY <1>0, <2>1, <2>7
    <3> QED BY <1>2, <2>2, <2>3, <2>7, <3>1, SMTT(60)
  <2> QED BY <1>0, <2>1, <2>4, <2>5, <2>6, <2>7, <2>8, <2>9
<1>7. \A i \in 1..Len(main) : i \in 1..statusAt \/ i \in (statusAt + 1)..Len(main)
  BY <1>0
<1>8. \A i \in 1..Len(main) : main[i] \in Instr
  BY <1>3
<1>9. ASSUME NEW i \in 1..Len(main)
      PROVE  /\ main[i].op = "clear" <=> i \in {1, statusAt + 1}
             /\ main[i].op = "status" <=> i = statusAt
             /\ main[i].op = "read" <=> i = readAt
             /\ main[i].op = "echo" <=> i = readAt + 2
             /\ main[i].op \in {"write", "echo"} /\ i \notin splashAt
                  => i - 1 \in 1..Len(main) /\ main[i - 1] = poll("TRDY")
  <2>1. CASE i \in 1..statusAt
    BY <1>0, <1>4, <1>5, <2>1
  <2>2. CASE i \in (statusAt + 1)..Len(main)
    BY <1>0, <1>4, <1>6, <2>2, SMTT(60)
  <2> QED BY <1>7, <2>1, <2>2
<1>10. ASSUME NEW i \in 2..(2 * B + 1)
       PROVE  main[i].op = IF i % 2 = 0 THEN "poll" ELSE "write"
  <2>1. i \in 1..statusAt /\ i # 1 /\ i # statusAt /\ i \notin splashAt
    BY <1>0
  <2> QED BY <1>4, <1>5, <2>1
<1>11. \A i \in splashAt : main[i].op = "write"
  <2>1. \A i \in splashAt : i \in 1..statusAt /\ i \notin 2..(2 * B + 1) /\ i # 1 /\ i # statusAt
    BY <1>0
  <2> QED BY <1>5, <2>1
<1>12. main[readAt - 1] = poll("RRDY")
  <2>1. readAt - 1 \in (statusAt + 1)..Len(main) /\ readAt - 1 # statusAt + 1
    BY <1>0
  <2> QED BY <1>0, <1>6, <2>1
<1> QED BY <1>8, <1>9, <1>10, <1>11, <1>12
-------------------------------------------------------------------------------
\* all without the places in lost, for any two sequences.
Without(s, all, lost) ==
  LET kept == 1..Len(all) \ lost
  IN  /\ Len(s) = Cardinality(kept)
      /\ \A i \in kept : s[Cardinality(kept \cap 1..i)] = all[i]

\* The types, and what the program leaves alone: the send ring stays empty, and
\* the reader never gives back a place of the receive ring.
FwType ==
  /\ tx_ready \in BOOLEAN /\ rx_char_ready \in BOOLEAN
  /\ tx_data \in Chars \cup {NoChar} /\ tx_shift \in Chars \cup {NoChar}
  /\ ~tx_ready => tx_data \in Chars
  /\ errors \subseteq {"TOE", "FE"}
  /\ tx_start = tx_end /\ rx_start = 0 /\ rx_end \in Place
  /\ rx_buf \in [Place -> Chars \cup {NoChar}]
  /\ isr \in {"off", "clear", "rx", "tx"} /\ status \subseteq {"RRDY", "TRDY", "TOE", "FE"}
  /\ arrived \in 0..MaxArrive
  /\ sent \in Seq(Chars) /\ txd \in Seq(Chars)
  /\ ip \in 1..(Len(main) + 1)

\* A character the handler saw is there until the handler takes it.
SeenOK ==
  /\ isr \in {"clear", "rx"} /\ "RRDY" \in status => rx_char_ready
  /\ isr = "rx" => "RRDY" \in status

\* Outside the splash, a character is written into an empty register.
PolledOK ==
  ip \in 1..Len(main) /\ main[ip].op \in {"write", "echo"} /\ ip \notin splashAt
    => tx_ready

\* How many characters the program has written until it reads the status.
CountOK ==
  /\ ip = 1 => Len(sent) = 0
  /\ ip \in 2..(2 * B + 1) => 2 * Len(sent) = IF ip % 2 = 0 THEN ip - 2 ELSE ip - 3
  /\ ip \in splashAt \cup {statusAt} => Len(sent) = ip - B - 2

\* What was lost was written no later than the splash, and another character
\* has followed it.
LostOK ==
  \E lost \in SUBSET ((B..(B + S - 1)) \cap 1..(Len(sent) - 1)) : Without(wire, sent, lost)

\* The overrun flag tells of every loss, until a handler clears it.
whole == Len(wire) = Len(sent)

FlagOK ==
  /\ ip <= 2 * B + 1 => whole /\ "TOE" \notin errors
  /\ ip \in splashAt \cup {statusAt} /\ interrupted = {}
       => isr = "off" /\ (whole <=> "TOE" \notin errors)
  /\ ip = statusAt + 1 /\ interrupted = {} => (whole <=> "TOE" \notin uart_status)

\* The key: the ring holds characters older than the one in the device, and the
\* one that was echoed is in neither unless the handler came between.
KeyOK ==
  /\ arrived > 0 => rx_data = arrived
  /\ rx_char_ready => arrived > 0
  /\ \A p \in Place : p < rx_end =>
       rx_buf[p] \in 1..arrived /\ (rx_char_ready => rx_buf[p] < arrived)
  /\ ip >= readAt => arrived > 0
  /\ ip = readAt /\ readAt \notin interrupted => rx_char_ready /\ isr = "off"
  /\ ip > readAt =>
       /\ incoming_character \in 1..arrived
       /\ readAt \notin interrupted =>
            /\ \A p \in Place : p < rx_end => rx_buf[p] # incoming_character
            /\ rx_char_ready => incoming_character < arrived

FwInv == FwType /\ SeenOK /\ PolledOK /\ CountOK /\ LostOK /\ FlagOK /\ KeyOK
-------------------------------------------------------------------------------
\* The places of a sequence, and a part of them.
LEMMA PlacesFinite ==
  ASSUME NEW n \in Nat
  PROVE  IsFiniteSet(1..n) /\ Cardinality(1..n) = n
<1>1. 1 \in Int /\ n \in Int
  OBVIOUS
<1>2. IsFiniteSet(1..n) /\ Cardinality(1..n) = IF 1 > n THEN 0 ELSE n - 1 + 1
  BY <1>1, FS_Interval
<1> QED BY <1>2

LEMMA PartFinite ==
  ASSUME NEW n \in Nat, NEW T \in SUBSET (1..n)
  PROVE  /\ IsFiniteSet(T) /\ Cardinality(T) \in Nat /\ Cardinality(T) <= n
         /\ Cardinality(T) = n => T = 1..n
<1>1. IsFiniteSet(1..n) /\ Cardinality(1..n) = n
  BY PlacesFinite
<1>2. /\ IsFiniteSet(T) /\ Cardinality(T) <= Cardinality(1..n)
      /\ Cardinality(1..n) = Cardinality(T) => 1..n = T
  BY <1>1, FS_Subset
<1> QED BY <1>1, <1>2, FS_CardinalityType

\* A place of the whole sequence is at its count in the other one.
LEMMA KeptCount ==
  ASSUME NEW n \in Nat, NEW kept \in SUBSET (1..n), NEW i \in kept
  PROVE  /\ IsFiniteSet(kept) /\ Cardinality(kept) \in Nat
         /\ Cardinality(kept \cap 1..i) \in 1..Cardinality(kept)
<1>2. IsFiniteSet(kept)
  BY PartFinite
<1>3. /\ IsFiniteSet(kept \cap 1..i)
      /\ Cardinality(kept \cap 1..i) <= Cardinality(kept)
  BY <1>2, FS_Intersection
<1>4. Cardinality(kept) \in Nat /\ Cardinality(kept \cap 1..i) \in Nat
  BY <1>2, <1>3, FS_CardinalityType
<1>5. kept \cap 1..i # {}
  <2>1. i \in 1..i
    OBVIOUS
  <2> QED BY <2>1
<1>6. Cardinality(kept \cap 1..i) # 0
  BY <1>3, <1>5, FS_EmptySet
<1> QED BY <1>2, <1>3, <1>4, <1>6

\* Nothing is lost exactly when the lengths agree.
LEMMA WithoutWhole ==
  ASSUME NEW s \in Seq(Chars), NEW all \in Seq(Chars), NEW lost \in SUBSET (1..Len(all)),
         Without(s, all, lost)
  PROVE  Len(s) <= Len(all) /\ (Len(s) = Len(all) <=> s = all)
<1> DEFINE n == Len(all)
           kept == 1..n \ lost
<1>1. n \in Nat
  OBVIOUS
<1>2. Len(s) = Cardinality(kept) /\ \A i \in kept : s[Cardinality(kept \cap 1..i)] = all[i]
  BY DEF Without
<1>3. kept \in SUBSET (1..n)
  OBVIOUS
<1> HIDE DEF kept
<1>4. Cardinality(kept) <= n /\ (Cardinality(kept) = n => kept = 1..n)
  BY <1>1, <1>3, PartFinite
<1>5. ASSUME kept = 1..n PROVE s = all
  <2>1. \A i \in 1..n : s[i] = all[i]
    <3> TAKE i \in 1..n
    <3>1. kept \cap 1..i = 1..i
      BY <1>1, <1>5
    <3>2. Cardinality(1..i) = i
      <4>1. i \in Nat
        BY <1>1
      <4> QED BY <4>1, PlacesFinite
    <3> QED BY <1>2, <1>5, <3>1, <3>2
  <2>2. Len(s) = Len(all)
    BY <1>1, <1>2, <1>5, PlacesFinite
  <2> QED BY <2>1, <2>2, SeqEqual
<1> QED BY <1>1, <1>2, <1>4, <1>5

\* Another character that is not lost.
LEMMA WithoutAppend ==
  ASSUME NEW s \in Seq(Chars), NEW all \in Seq(Chars), NEW lost \in SUBSET (1..Len(all)),
         Without(s, all, lost), NEW c \in Chars
  PROVE  Without(Append(s, c), Append(all, c), lost)
<1> DEFINE n == Len(all)
           kept == 1..n \ lost
           more == 1..Len(Append(all, c)) \ lost
<1>1. n \in Nat /\ Len(Append(all, c)) = n + 1 /\ Len(Append(s, c)) = Len(s) + 1
  OBVIOUS
<1>2. Len(s) = Cardinality(kept) /\ \A i \in kept : s[Cardinality(kept \cap 1..i)] = all[i]
  BY DEF Without
<1>3. kept \in SUBSET (1..n) /\ more = kept \cup {n + 1} /\ n + 1 \notin kept
  BY <1>1
<1>4. \A i \in kept : more \cap 1..i = kept \cap 1..i
  BY <1>1, <1>3
<1>5. more \cap 1..(n + 1) = more
  BY <1>1, <1>3
<1> HIDE DEF kept, more
<1>6. IsFiniteSet(kept)
  BY <1>1, <1>3, PartFinite
<1>7. Cardinality(more) = Cardinality(kept) + 1
  BY <1>3, <1>6, FS_AddElement
<1>8. ASSUME NEW i \in more
      PROVE  Append(s, c)[Cardinality(more \cap 1..i)] = Append(all, c)[i]
  <2>1. CASE i = n + 1
    <3>1. Append(s, c)[Len(s) + 1] = c /\ Append(all, c)[n + 1] = c
      OBVIOUS
    <3> QED BY <1>2, <1>5, <1>7, <2>1, <3>1
  <2>2. CASE i \in kept
    <3>1. Cardinality(kept \cap 1..i) \in 1..Len(s)
      BY <1>1, <1>2, <1>3, <2>2, KeptCount
    <3>2. i \in 1..n
      BY <1>3, <2>2
    <3>3. Append(s, c)[Cardinality(kept \cap 1..i)] = s[Cardinality(kept \cap 1..i)]
      BY <3>1
    <3>4. Append(all, c)[i] = all[i]
      BY <3>2
    <3> QED BY <1>2, <1>4, <2>2, <3>3, <3>4
  <2> QED BY <1>3, <2>1, <2>2
<1> QED BY <1>1, <1>2, <1>7, <1>8 DEF Without, more

\* One that overwrites the last.
LEMMA WithoutReplace ==
  ASSUME NEW s \in Seq(Chars), NEW all \in Seq(Chars), NEW lost \in SUBSET (1..Len(all)),
         Without(s, all, lost), NEW c \in Chars, Len(all) > 0, Len(all) \notin lost,
         NEW t \in Seq(Chars), Len(t) = Len(s), t[Len(t)] = c,
         \A j \in 1..(Len(s) - 1) : t[j] = s[j]
  PROVE  Without(t, Append(all, c), lost \cup {Len(all)})
<1> DEFINE n == Len(all)
           kept == 1..n \ lost
           rest == kept \ {n}
           more == 1..Len(Append(all, c)) \ (lost \cup {n})
<1>1. n \in Nat /\ n > 0 /\ Len(Append(all, c)) = n + 1
  OBVIOUS
<1>2. Len(s) = Cardinality(kept) /\ \A i \in kept : s[Cardinality(kept \cap 1..i)] = all[i]
  BY DEF Without
<1>3. /\ kept \in SUBSET (1..n) /\ rest \in SUBSET (1..n) /\ n \in kept
      /\ more = rest \cup {n + 1} /\ n + 1 \notin rest
  BY <1>1
<1>4. \A i \in rest : more \cap 1..i = rest \cap 1..i /\ kept \cap 1..i = rest \cap 1..i
  BY <1>1, <1>3
<1>5. more \cap 1..(n + 1) = more
  BY <1>1, <1>3
<1>6. rest = kept \ {n}
  OBVIOUS
<1> HIDE DEF kept, rest, more
<1>7. IsFiniteSet(kept) /\ IsFiniteSet(rest)
  BY <1>1, <1>3, PartFinite
<1>8. Cardinality(rest) = Cardinality(kept) - 1
  BY <1>3, <1>6, <1>7, FS_RemoveElement
<1>9. Cardinality(more) = Cardinality(rest) + 1
  BY <1>3, <1>7, FS_AddElement
<1>10. Cardinality(kept) \in Nat
  BY <1>7, FS_CardinalityType
<1>11. ASSUME NEW i \in more
       PROVE  t[Cardinality(more \cap 1..i)] = Append(all, c)[i]
  <2>1. CASE i = n + 1
    <3>1. Append(all, c)[n + 1] = c
      OBVIOUS
    <3>2. Cardinality(more) = Len(t)
      BY <1>2, <1>8, <1>9, <1>10
    <3> QED BY <1>5, <2>1, <3>1, <3>2
  <2>2. CASE i \in rest
    <3>1. Cardinality(rest \cap 1..i) \in 1..(Len(s) - 1)
      BY <1>1, <1>2, <1>3, <1>8, <2>2, KeptCount
    <3>2. i \in 1..n /\ i \in kept
      BY <1>3, <1>6, <2>2
    <3>3. t[Cardinality(rest \cap 1..i)] = s[Cardinality(rest \cap 1..i)]
      BY <3>1
    <3>4. Append(all, c)[i] = all[i]
      BY <3>2
    <3> QED BY <1>2, <1>4, <2>2, <3>2, <3>3, <3>4
  <2> QED BY <1>3, <2>1, <2>2
<1>12. Len(t) = Cardinality(more)
  BY <1>2, <1>8, <1>9, <1>10
<1> QED BY <1>11, <1>12 DEF Without, more
-------------------------------------------------------------------------------
\* What is in the device and on the line, as three pieces.
LEMMA WirePieces ==
  ASSUME NEW s \in Seq(Chars), NEW a \in Chars, NEW c \in Chars
  PROVE  /\ s \o <<>> \o <<>> = s
         /\ s \o <<a>> \o <<>> = Append(s, a)
         /\ s \o <<>> \o <<c>> = Append(s, c)
         /\ s \o <<a>> \o <<c>> = Append(Append(s, a), c)
  OBVIOUS

LEMMA WireType ==
  ASSUME FwType
  PROVE  wire \in Seq(Chars) /\ (~tx_ready => Len(wire) > 0)
<1>1. txd \in Seq(Chars) /\ (tx_shift # NoChar => tx_shift \in Chars)
      /\ (~tx_ready => tx_data \in Chars)
  BY DEF FwType
<1>2. CASE tx_shift = NoChar /\ tx_ready
  <2>1. wire = txd \o <<>> \o <<>>
    BY <1>2 DEF wire
  <2> QED BY <1>1, <1>2, <2>1
<1>3. CASE tx_shift # NoChar /\ tx_ready
  <2>1. wire = txd \o <<tx_shift>> \o <<>>
    BY <1>3 DEF wire
  <2> QED BY <1>1, <1>3, <2>1
<1>4. CASE tx_shift = NoChar /\ ~tx_ready
  <2>1. wire = txd \o <<>> \o <<tx_data>>
    BY <1>4 DEF wire
  <2> QED BY <1>1, <1>4, <2>1
<1>5. CASE tx_shift # NoChar /\ ~tx_ready
  <2>1. wire = txd \o <<tx_shift>> \o <<tx_data>>
    BY <1>5 DEF wire
  <2> QED BY <1>1, <1>5, <2>1
<1> QED BY <1>2, <1>3, <1>4, <1>5

\* The device only moves characters on.
LEMMA WireTransmit ==
  ASSUME FwType, LoadShifter \/ ShiftDone
  PROVE  wire' = wire
<1>1. txd \in Seq(Chars) /\ (tx_shift # NoChar => tx_shift \in Chars)
      /\ (~tx_ready => tx_data \in Chars) /\ NoChar \notin Chars
  BY DEF FwType
<1>2. CASE LoadShifter
  <2>1. wire = txd \o <<>> \o <<tx_data>>
    BY <1>2 DEF wire, LoadShifter
  <2>2. wire' = txd \o <<tx_data>> \o <<>>
    BY <1>1, <1>2 DEF wire, LoadShifter
  <2> QED BY <1>1, <1>2, <2>1, <2>2 DEF LoadShifter
<1>3. CASE ShiftDone
  <2>1. CASE tx_ready
    <3>1. wire = txd \o <<tx_shift>> \o <<>>
      BY <1>3, <2>1 DEF wire, ShiftDone
    <3>2. wire' = Append(txd, tx_shift) \o <<>> \o <<>>
      BY <1>3, <2>1 DEF wire, ShiftDone
    <3>3. tx_shift \in Chars /\ Append(txd, tx_shift) \in Seq(Chars)
      BY <1>1, <1>3 DEF ShiftDone
    <3> QED BY <1>1, <3>1, <3>2, <3>3
  <2>2. CASE ~tx_ready
    <3>1. wire = txd \o <<tx_shift>> \o <<tx_data>>
      BY <1>3, <2>2 DEF wire, ShiftDone
    <3>2. wire' = Append(txd, tx_shift) \o <<>> \o <<tx_data>>
      BY <1>3, <2>2 DEF wire, ShiftDone
    <3>3. tx_shift \in Chars /\ Append(txd, tx_shift) \in Seq(Chars)
      BY <1>1, <1>3 DEF ShiftDone
    <3> QED BY <1>1, <2>2, <3>1, <3>2, <3>3
  <2> QED BY <2>1, <2>2
<1> QED BY <1>2, <1>3

\* A write adds a character, or puts it in the place of the last one.
LEMMA WireWrite ==
  ASSUME FwType, NEW c \in Chars, WriteTxdata(c)
  PROVE  /\ tx_ready => wire' = Append(wire, c)
         /\ ~tx_ready => /\ wire' \in Seq(Chars) /\ Len(wire') = Len(wire)
                         /\ wire'[Len(wire')] = c
                         /\ \A j \in 1..(Len(wire) - 1) : wire'[j] = wire[j]
<1>1. txd \in Seq(Chars) /\ (tx_shift # NoChar => tx_shift \in Chars)
      /\ (~tx_ready => tx_data \in Chars)
  BY DEF FwType
<1>2. txd' = txd /\ tx_shift' = tx_shift /\ tx_data' = c /\ tx_ready' = FALSE
  BY DEF WriteTxdata
<1> DEFINE out == txd \o (IF tx_shift = NoChar THEN <<>> ELSE <<tx_shift>>)
<1>3. out \in Seq(Chars)
  BY <1>1
<1>4. wire' = out \o <<c>>
  BY <1>2 DEF wire
<1>5. wire = out \o (IF tx_ready THEN <<>> ELSE <<tx_data>>)
  BY DEF wire
<1> HIDE DEF out
<1>6. CASE tx_ready
  <2>1. wire = out
    BY <1>3, <1>5, <1>6
  <2> QED BY <1>3, <1>4, <1>6, <2>1
<1>7. CASE ~tx_ready
  <2>1. wire = out \o <<tx_data>>
    BY <1>5, <1>7
  <2> QED BY <1>1, <1>3, <1>4, <1>7, <2>1
<1> QED BY <1>6, <1>7
-------------------------------------------------------------------------------
\* The initial state.
LEMMA FwInit == InitFw => FwInv
<1> SUFFICES ASSUME InitFw PROVE FwInv
  OBVIOUS
<1> USE DEF InitFw, Init, InitUart
<1>0. /\ B \in Nat /\ S \in Nat /\ P \in Nat /\ B > 0 /\ S > 0 /\ P > 0
      /\ statusAt = 2 * B + S + 2 /\ splashAt = (2 * B + 2)..(2 * B + S + 1)
      /\ readAt = statusAt + 2 * P + 3 /\ Len(main) = readAt + 2
  BY Lengths, MainPlaces
<1>1. FwType
  <2>1. rx_buf \in [Place -> Chars \cup {NoChar}] /\ 0 \in Place
    BY DEF Place
  <2>2. 1 \in 1..(Len(main) + 1) /\ 0 \in 0..MaxArrive /\ <<>> \in Seq(Chars)
    BY <1>0
  <2> QED BY <2>1, <2>2 DEF FwType
<1>2. SeenOK /\ PolledOK /\ CountOK
  BY <1>0 DEF SeenOK, PolledOK, CountOK
<1>3. wire = <<>> \o <<>> \o <<>>
  BY DEF wire
<1>4. wire = <<>> /\ Len(wire) = 0 /\ Len(sent) = 0
  BY <1>3
<1>5. LostOK
  <2>1. 1..0 \ {} = {} /\ Cardinality({}) = 0
    BY FS_EmptySet
  <2>2. Without(wire, sent, {})
    BY <1>4, <2>1 DEF Without
  <2> QED BY <2>2 DEF LostOK
<1>6. FlagOK
  BY <1>0, <1>4 DEF FlagOK, whole
<1>7. KeyOK
  BY <1>0 DEF KeyOK, Place
<1> QED BY <1>1, <1>2, <1>5, <1>6, <1>7 DEF FwInv
-------------------------------------------------------------------------------
\* An instruction is executed between two handlers, and the next one follows.
LEMMA ProgramStep ==
  ASSUME Program, ip \in 1..(Len(main) + 1)
  PROVE  /\ isr = "off" /\ ip \in 1..Len(main) /\ ip' = ip + 1
         /\ UNCHANGED <<rings, isr, status, history, interrupted>>
  BY DEF Program, ClearStatus, PollFlag, WriteChar, Echo, ReadStatus, ReadKey, instr

\* A write is of a character, and the register is ready for it outside the splash.
LEMMA WriteStep ==
  ASSUME FwInv, WriteChar \/ Echo
  PROVE  /\ \E c \in Chars : WriteTx(c)
         /\ ip \notin splashAt => tx_ready
<1>1. ip \in 1..Len(main) /\ main[ip].op \in {"write", "echo"}
  BY DEF WriteChar, Echo, instr, FwInv, FwType
<1>2. CASE WriteChar
  <2>1. main[ip] \in Instr /\ main[ip].op = "write"
    BY <1>1, <1>2, MainAt DEF WriteChar, instr
  <2>2. \E c \in Chars : main[ip] = write(c)
    BY <2>1 DEF Instr, clear, poll
  <2>3. main[ip].char \in Chars
    BY <2>2 DEF write
  <2> QED BY <1>1, <1>2, <2>3 DEF WriteChar, FwInv, PolledOK
<1>3. CASE Echo
  <2>1. main[ip].op = "echo" /\ ip = readAt + 2
    BY <1>1, <1>3, MainAt DEF Echo, instr
  <2>2. readAt \in Int
    BY MainPlaces, Lengths
  <2>3. incoming_character \in 1..arrived /\ arrived \in 0..MaxArrive
    BY <2>1, <2>2 DEF FwInv, KeyOK, FwType
  <2>4. incoming_character \in Chars
    BY <2>3
  <2> QED BY <1>1, <1>3, <2>4 DEF Echo, FwInv, PolledOK
<1> QED BY <1>2, <1>3

\* The types, and the ring that nobody sends from.
LEMMA FwTypeStep ==
  ASSUME FwInv, [NextFw]_fwVars
  PROVE  FwType'
<1> USE DEF FwInv, FwType
<1>1. CASE Arrive /\ UNCHANGED program
  BY <1>1 DEF Arrive, Arrival, GotNewChar, framing_error, rings, program, txVars
<1>2. CASE Transmit /\ UNCHANGED program
  <2>1. UNCHANGED <<rings, isr, status, arrived, ip, sent, rx_char_ready, errors>>
    BY <1>2 DEF Transmit, LoadShifter, ShiftDone, program, history, rxVars
  <2>2. CASE LoadShifter
    BY <2>1, <2>2 DEF LoadShifter, rings
  <2>3. CASE ShiftDone
    <3>1. txd' \in Seq(Chars)
      BY <2>3 DEF ShiftDone
    <3> QED BY <2>1, <2>3, <3>1 DEF ShiftDone, rings
  <2> QED BY <1>2, <2>2, <2>3 DEF Transmit
<1>3. CASE Interrupt
  <2>0. ip' = ip /\ sent' = sent
    BY <1>3 DEF Interrupt
  <2>1. CASE IrqEntry
    <3>1. status_reg \subseteq {"RRDY", "TRDY", "TOE", "FE"}
      BY DEF status_reg
    <3> QED BY <2>0, <2>1, <3>1 DEF IrqEntry, uartVars, rings, history
  <2>2. CASE IrqClear
    BY <2>0, <2>2 DEF IrqClear, WriteStatus, goOn, afterRx, rxVars, txVars, rings, history
  <2>3. CASE RxIrqError
    BY <2>0, <2>3 DEF RxIrqError, goOn, afterRx, uartVars, rings, history
  <2>4. CASE RxIrq
    <3>1. next(rx_end) \in Place
      BY DEF Place, next
    <3>2. arrived' \in 0..MaxArrive /\ arrived' \in Nat
      BY <2>4 DEF RxIrq, Arrival
    <3>3. rx_data \in Chars
      BY <2>4 DEF RxIrq, SeenOK, KeyOK
    <3>4. rx_buf' \in [Place -> Chars \cup {NoChar}]
      BY <2>4, <3>3 DEF RxIrq
    <3>5. rx_char_ready' \in BOOLEAN /\ errors' \subseteq {"TOE", "FE"}
      BY <2>4 DEF RxIrq, ReadRxdata, ReadRxdataLate, framing_error
    <3> QED BY <2>0, <2>4, <3>1, <3>2, <3>4, <3>5 DEF RxIrq, goOn, afterRx, txVars, txRing
  <2>5. CASE TxIrq
    BY <2>0, <2>5 DEF TxIrq, txVars, goOn, rxVars, rxRing, history
  <2> QED BY <1>3, <2>1, <2>2, <2>3, <2>4, <2>5 DEF Interrupt, Irq
<1>4. ASSUME Program PROVE FwType'
  <2>1. /\ ip' \in 1..(Len(main) + 1)
        /\ UNCHANGED <<rings, isr, status, history>>
    <3>1. Len(main) \in Nat
      BY MainPlaces, Lengths
    <3> QED BY <1>4, <3>1, ProgramStep
  <2>2. CASE WriteChar \/ Echo
    <3>1. PICK c \in Chars : WriteTx(c)
      BY <2>2, WriteStep
    <3>2. sent' \in Seq(Chars)
      BY <3>1 DEF WriteTx
    <3>3. errors' \subseteq {"TOE", "FE"}
      BY <3>1 DEF WriteTx, WriteTxdata
    <3> QED BY <2>1, <3>1, <3>2, <3>3 DEF WriteTx, WriteTxdata, rxVars, rings, history
  <2>3. CASE ClearStatus
    BY <2>1, <2>3 DEF ClearStatus, WriteStatus, rxVars, txVars, rings, history
  <2>4. CASE PollFlag \/ ReadStatus
    BY <2>1, <2>4 DEF PollFlag, ReadStatus, uartVars, rings, history
  <2>5. CASE ReadKey
    BY <2>1, <2>5 DEF ReadKey, ReadRxdata, txVars, rings, history
  <2> QED BY <1>4, <2>2, <2>3, <2>4, <2>5 DEF Program
<1>5. CASE UNCHANGED fwVars
  BY <1>5 DEF fwVars, vars, uartVars, rings, history, program
<1> QED BY <1>1, <1>2, <1>3, <1>4, <1>5 DEF NextFw

\* What the handler saw.
LEMMA SeenStep ==
  ASSUME FwInv, [NextFw]_fwVars
  PROVE  SeenOK'
<1> USE DEF FwInv, SeenOK
<1>1. CASE Arrive /\ UNCHANGED program
  BY <1>1 DEF Arrive, GotNewChar
<1>2. CASE Transmit /\ UNCHANGED program
  BY <1>2 DEF Transmit, LoadShifter, ShiftDone, rxVars
<1>3. CASE Interrupt
  <2>1. CASE IrqEntry
    <3>1. "RRDY" \in status_reg => rx_char_ready
      BY DEF status_reg, FwType
    <3> QED BY <2>1, <3>1 DEF IrqEntry, uartVars
  <2>2. CASE IrqClear
    BY <2>2 DEF IrqClear, WriteStatus, goOn, afterRx, rxVars
  <2>3. CASE RxIrqError
    BY <2>3 DEF RxIrqError, goOn, afterRx, uartVars
  <2>4. CASE RxIrq
    BY <2>4 DEF RxIrq, goOn, afterRx
  <2>5. CASE TxIrq
    BY <2>5 DEF TxIrq, goOn
  <2> QED BY <1>3, <2>1, <2>2, <2>3, <2>4, <2>5 DEF Interrupt, Irq
<1>4. CASE Program
  <2>1. isr' = "off"
    BY <1>4, ProgramStep DEF FwType
  <2> QED BY <2>1
<1>5. CASE UNCHANGED fwVars
  BY <1>5 DEF fwVars, vars, uartVars
<1> QED BY <1>1, <1>2, <1>3, <1>4, <1>5 DEF NextFw
-------------------------------------------------------------------------------
\* The device and the handler leave the program and what it wrote alone: the
\* handler has nothing of its own to send.
LEMMA OthersStep ==
  ASSUME FwInv, [NextFw]_fwVars, ~Program
  PROVE  /\ UNCHANGED <<ip, sent, uart_status, incoming_character>> /\ wire' = wire
         /\ tx_ready => tx_ready'
<1> USE DEF FwInv
<1>1. CASE Arrive /\ UNCHANGED program
  BY <1>1 DEF Arrive, GotNewChar, program, txVars, wire
<1>2. CASE Transmit /\ UNCHANGED program
  <2>1. wire' = wire
    BY <1>2, WireTransmit DEF Transmit
  <2> QED BY <1>2, <2>1 DEF Transmit, LoadShifter, ShiftDone, program
<1>3. CASE Interrupt
  <2>1. UNCHANGED txVars
    BY <1>3 DEF Interrupt, Irq, IrqEntry, IrqClear, WriteStatus, RxIrqError, RxIrq, TxIrq,
      FwType, uartVars, txVars
  <2> QED BY <1>3, <2>1 DEF Interrupt, txVars, wire
<1>4. CASE UNCHANGED fwVars
  BY <1>4 DEF fwVars, vars, uartVars, program, wire
<1> QED BY <1>1, <1>2, <1>3, <1>4 DEF NextFw

\* The program comes to a paced write only from the poll that saw the flag.
LEMMA PolledStep ==
  ASSUME FwInv, [NextFw]_fwVars
  PROVE  PolledOK'
<1>1. CASE ~Program
  <2>1. PolledOK /\ ip' = ip /\ (tx_ready => tx_ready')
    BY <1>1, OthersStep DEF FwInv
  <2> QED BY <2>1 DEF PolledOK
<1>2. CASE Program
  <2>0. ip \in 1..Len(main) /\ ip' = ip + 1
    BY <1>2, ProgramStep DEF FwInv, FwType
  <2> SUFFICES ASSUME ip' \in 1..Len(main), main[ip'].op \in {"write", "echo"},
                      ip' \notin splashAt
               PROVE  tx_ready'
    BY DEF PolledOK
  <2>1. main[ip] = poll("TRDY")
    BY <2>0, MainAt
  <2>2. main[ip].op = "poll" /\ main[ip].flag = "TRDY"
    BY <2>1 DEF poll
  <2>3. PollFlag
    BY <1>2, <2>2 DEF Program, ClearStatus, WriteChar, ReadStatus, ReadKey, Echo, instr
  <2>4. "TRDY" \in status_reg
    BY <2>2, <2>3 DEF PollFlag
  <2>5. tx_ready
    BY <2>4 DEF status_reg, FwInv, FwType
  <2> QED BY <2>3, <2>5 DEF PollFlag, uartVars
<1> QED BY <1>1, <1>2

\* Each turn of the paced loop writes one character, and so does each
\* instruction of the splash.
LEMMA CountStep ==
  ASSUME FwInv, [NextFw]_fwVars
  PROVE  CountOK'
<1>0. /\ B \in Nat /\ S \in Nat /\ P \in Nat /\ B > 0 /\ S > 0 /\ P > 0
      /\ statusAt = 2 * B + S + 2 /\ splashAt = (2 * B + 2)..(2 * B + S + 1)
      /\ readAt = statusAt + 2 * P + 3 /\ Len(main) = readAt + 2
  BY Lengths, MainPlaces
<1>1. CASE ~Program
  <2>1. CountOK /\ ip' = ip /\ sent' = sent
    BY <1>1, OthersStep DEF FwInv
  <2> QED BY <2>1 DEF CountOK
<1>2. CASE Program
  <2>0. ip \in 1..Len(main) /\ ip' = ip + 1 /\ Len(sent) \in Nat
    BY <1>2, ProgramStep DEF FwInv, FwType
  <2>1. /\ ip = 1 => main[ip].op = "clear"
        /\ ip \in 2..(2 * B + 1) => main[ip].op = IF ip % 2 = 0 THEN "poll" ELSE "write"
        /\ ip \in splashAt => main[ip].op = "write"
    BY <1>0, <2>0, MainAt
  <2>2. /\ main[ip].op = "write" => Len(sent') = Len(sent) + 1
        /\ main[ip].op \in {"clear", "poll"} => Len(sent') = Len(sent)
    <3>1. main[ip].op = "write" => \E c \in Chars : WriteTx(c)
      <4>1. main[ip].op = "write" => WriteChar
        BY <1>2 DEF Program, ClearStatus, PollFlag, ReadStatus, ReadKey, Echo, instr
      <4> QED BY <4>1, WriteStep
    <3>2. main[ip].op = "write" => \E c \in Chars : sent' = Append(sent, c)
      BY <3>1 DEF WriteTx
    <3>3. main[ip].op \in {"clear", "poll"} => ClearStatus \/ PollFlag
      BY <1>2 DEF Program, WriteChar, ReadStatus, ReadKey, Echo, instr
    <3>4. sent \in Seq(Chars)
      BY DEF FwInv, FwType
    <3> QED BY <3>2, <3>3, <3>4 DEF ClearStatus, PollFlag
  <2>3. /\ ip = 1 => Len(sent) = 0
        /\ ip \in 2..(2 * B + 1) => 2 * Len(sent) = IF ip % 2 = 0 THEN ip - 2 ELSE ip - 3
        /\ ip \in splashAt => Len(sent) = ip - B - 2
    BY DEF FwInv, CountOK
  <2>4. Len(sent') \in Nat /\ ip' # 1
    <3>1. sent' \in Seq(Chars)
      BY FwTypeStep DEF FwType
    <3> QED BY <2>0, <3>1
  <2>5. ASSUME ip' \in 2..(2 * B + 1)
        PROVE  2 * Len(sent') = IF ip' % 2 = 0 THEN ip' - 2 ELSE ip' - 3
    <3>1. ip = 1 \/ ip \in 2..(2 * B + 1)
      BY <1>0, <2>0, <2>5
    <3>2. CASE ip = 1
      <4>1. Len(sent') = 0
        BY <2>1, <2>2, <2>3, <3>2
      <4>2. ip' = 2 /\ ip' % 2 = 0
        BY <2>0, <3>2
      <4> QED BY <4>1, <4>2
    <3>3. CASE ip \in 2..(2 * B + 1) /\ ip % 2 = 0
      <4>1. ip' % 2 # 0 /\ Len(sent') = Len(sent) /\ 2 * Len(sent) = ip - 2
        BY <2>0, <2>1, <2>2, <2>3, <3>3
      <4> QED BY <2>0, <4>1
    <3>4. CASE ip \in 2..(2 * B + 1) /\ ip % 2 # 0
      <4>1. Len(sent') = Len(sent) + 1
        BY <2>1, <2>2, <3>4
      <4>2. ip' % 2 = 0 /\ 2 * Len(sent) = ip - 3
        BY <2>0, <2>3, <3>4, SMTT(60)
      <4> QED BY <2>0, <4>1, <4>2
    <3> QED BY <3>1, <3>2, <3>3, <3>4
  <2>6. ASSUME ip' \in splashAt \cup {statusAt}
        PROVE  Len(sent') = ip' - B - 2
    <3>1. ip = 2 * B + 1 \/ ip \in splashAt
      BY <1>0, <2>0, <2>6
    <3>2. CASE ip = 2 * B + 1
      <4>1. ip \in 2..(2 * B + 1) /\ ip % 2 # 0
        BY <1>0, <3>2
      <4>2. Len(sent') = Len(sent) + 1
        BY <2>1, <2>2, <4>1
      <4>3. 2 * Len(sent) = 2 * B - 2
        BY <1>0, <2>3, <3>2, <4>1
      <4>4. Len(sent) = B - 1
        BY <1>0, <2>0, <4>3, SMTT(30)
      <4>5. ip' - B - 2 = B
        BY <1>0, <2>0, <3>2
      <4> QED BY <1>0, <4>2, <4>4, <4>5
    <3>3. CASE ip \in splashAt
      <4>1. Len(sent') = Len(sent) + 1
        BY <2>1, <2>2, <3>3
      <4>2. Len(sent) = ip - B - 2
        BY <2>3, <3>3
      <4> QED BY <1>0, <2>0, <4>1, <4>2
    <3> QED BY <3>1, <3>2, <3>3
  <2> QED BY <2>4, <2>5, <2>6 DEF CountOK
<1> QED BY <1>1, <1>2

\* A character is overwritten only in the splash, right after it was written.
LEMMA LostStep ==
  ASSUME FwInv, [NextFw]_fwVars
  PROVE  LostOK'
<1>0. /\ B \in Nat /\ S \in Nat /\ B > 0 /\ S > 0
      /\ splashAt = (2 * B + 2)..(2 * B + S + 1)
  BY Lengths, MainPlaces
<1>1. CASE ~Program
  <2>1. LostOK /\ wire' = wire /\ sent' = sent
    BY <1>1, OthersStep DEF FwInv
  <2> QED BY <2>1 DEF LostOK
<1>2. CASE Program /\ ~(WriteChar \/ Echo)
  <2>1. sent' = sent /\ UNCHANGED txVars
    BY <1>2 DEF Program, ClearStatus, WriteStatus, PollFlag, ReadStatus, ReadKey, uartVars, txVars
  <2>2. LostOK /\ wire' = wire
    BY <2>1 DEF FwInv, wire, txVars
  <2> QED BY <2>1, <2>2 DEF LostOK
<1>3. CASE WriteChar \/ Echo
  <2>1. PICK c \in Chars : WriteTx(c)
    BY <1>3, WriteStep
  <2>2. PICK lost \in SUBSET ((B..(B + S - 1)) \cap 1..(Len(sent) - 1)) :
          Without(wire, sent, lost)
    BY DEF FwInv, LostOK
  <2>3. /\ sent \in Seq(Chars) /\ sent' = Append(sent, c) /\ Len(sent) \in Nat
        /\ Len(sent') = Len(sent) + 1
    BY <2>1 DEF WriteTx, FwInv, FwType
  <2>4. lost \in SUBSET (1..Len(sent)) /\ Len(sent) \notin lost
    BY <2>2, <2>3
  <2>5. wire \in Seq(Chars) /\ FwType /\ WriteTxdata(c)
    BY <2>1, WireType DEF FwInv, WriteTx
  <2>6. CASE tx_ready
    <3>1. wire' = Append(wire, c)
      BY <2>5, <2>6, WireWrite
    <3>2. Without(wire', sent', lost)
      BY <2>2, <2>3, <2>4, <2>5, <3>1, WithoutAppend
    <3>3. lost \in SUBSET ((B..(B + S - 1)) \cap 1..(Len(sent') - 1))
      BY <2>2, <2>3
    <3> QED BY <3>2, <3>3 DEF LostOK
  <2>7. CASE ~tx_ready
    <3>1. ip \in splashAt
      BY <1>3, <2>7, WriteStep
    <3>2. Len(sent) = ip - B - 2
      BY <3>1 DEF FwInv, CountOK
    <3>3. Len(sent) \in B..(B + S - 1) /\ Len(sent) > 0
      BY <1>0, <3>1, <3>2
    <3>4. /\ wire' \in Seq(Chars) /\ Len(wire') = Len(wire) /\ wire'[Len(wire')] = c
          /\ \A j \in 1..(Len(wire) - 1) : wire'[j] = wire[j]
      BY <2>5, <2>7, WireWrite
    <3>5. Without(wire', Append(sent, c), lost \cup {Len(sent)})
      BY <2>2, <2>3, <2>4, <2>5, <3>3, <3>4, WithoutReplace
    <3>6. lost \cup {Len(sent)} \in SUBSET ((B..(B + S - 1)) \cap 1..(Len(sent') - 1))
      <4>1. ASSUME NEW i \in lost \cup {Len(sent)}
            PROVE  i \in B..(B + S - 1) /\ i \in 1..(Len(sent') - 1)
        <5>1. CASE i \in lost
          BY <2>2, <2>3, <5>1
        <5>2. CASE i = Len(sent)
          BY <2>3, <3>3, <5>2
        <5> QED BY <5>1, <5>2
      <4> QED BY <4>1
    <3> QED BY <2>3, <3>5, <3>6 DEF LostOK
  <2> QED BY <2>6, <2>7
<1> QED BY <1>1, <1>2, <1>3

\* The wire is never ahead of the program.
LEMMA Shorter ==
  ASSUME FwType, LostOK
  PROVE  /\ Len(wire) \in Nat /\ Len(sent) \in Nat /\ Len(wire) <= Len(sent)
         /\ whole <=> wire = sent
<1>1. PICK lost \in SUBSET ((B..(B + S - 1)) \cap 1..(Len(sent) - 1)) :
        Without(wire, sent, lost)
  BY DEF LostOK
<1>2. sent \in Seq(Chars) /\ wire \in Seq(Chars)
  BY WireType DEF FwType
<1>3. lost \in SUBSET (1..Len(sent))
  BY <1>1, <1>2
<1>4. Len(wire) <= Len(sent) /\ (Len(wire) = Len(sent) <=> wire = sent)
  BY <1>1, <1>2, <1>3, WithoutWhole
<1> QED BY <1>2, <1>4 DEF whole

\* A write that finds the register full loses a character and says so.
LEMMA FlagWrite ==
  ASSUME FwInv, WriteChar \/ Echo
  PROVE  /\ tx_ready => (whole' <=> whole) /\ ("TOE" \in errors' <=> "TOE" \in errors)
         /\ ~tx_ready => ~whole' /\ "TOE" \in errors'
<1>1. PICK c \in Chars : WriteTx(c)
  BY WriteStep
<1>2. FwType /\ WriteTxdata(c) /\ sent' = Append(sent, c)
  BY <1>1 DEF FwInv, WriteTx
<1>3. sent \in Seq(Chars) /\ wire \in Seq(Chars)
  BY <1>2, WireType DEF FwType
<1>4. Len(sent') = Len(sent) + 1
  BY <1>2, <1>3
<1>5. Len(wire) \in Nat /\ Len(sent) \in Nat /\ Len(wire) <= Len(sent)
  BY Shorter DEF FwInv
<1>6. /\ tx_ready => wire' = Append(wire, c)
      /\ ~tx_ready => Len(wire') = Len(wire)
  BY <1>2, WireWrite
<1>7. tx_ready => Len(wire') = Len(wire) + 1
  BY <1>3, <1>6
<1>8. errors' = errors \cup (IF tx_ready THEN {} ELSE {"TOE"})
  BY <1>2 DEF WriteTxdata
<1> QED BY <1>4, <1>5, <1>6, <1>7, <1>8 DEF whole

LEMMA FlagStep ==
  ASSUME FwInv, [NextFw]_fwVars
  PROVE  FlagOK'
<1>0. /\ B \in Nat /\ S \in Nat /\ P \in Nat /\ B > 0 /\ S > 0
      /\ statusAt = 2 * B + S + 2 /\ splashAt = (2 * B + 2)..(2 * B + S + 1)
      /\ readAt = statusAt + 2 * P + 3
  BY Lengths, MainPlaces
<1>1. FlagOK /\ FwType /\ PolledOK
  BY DEF FwInv
<1>2. CASE ~Program
  <2>1. UNCHANGED <<ip, uart_status>> /\ whole' = whole
    BY <1>2, OthersStep DEF whole
  <2>2. "TOE" \in errors' => "TOE" \in errors
    <3>1. CASE Arrive
      BY <3>1 DEF Arrive, GotNewChar, framing_error
    <3>2. CASE Transmit
      BY <3>2 DEF Transmit, LoadShifter, ShiftDone
    <3>3. CASE IrqEntry \/ IrqClear \/ RxIrqError \/ TxIrq
      BY <1>1, <3>3 DEF IrqEntry, IrqClear, WriteStatus, RxIrqError, TxIrq, FwType, uartVars
    <3>4. CASE RxIrq
      BY <3>4 DEF RxIrq, ReadRxdata, ReadRxdataLate, framing_error
    <3>5. CASE UNCHANGED fwVars
      BY <3>5 DEF fwVars, vars, uartVars
    <3> QED BY <1>2, <3>1, <3>2, <3>3, <3>4, <3>5 DEF NextFw, Interrupt, Irq
  <2>3. interrupted' = {} => interrupted = {}
    BY <1>2 DEF NextFw, Interrupt, program, fwVars
  <2>4. ASSUME ip \in splashAt \cup {statusAt}, interrupted' = {}
        PROVE  isr' = isr /\ ("TOE" \in errors' <=> "TOE" \in errors)
    <3>1. ~Interrupt
      BY <2>4 DEF Interrupt
    <3>2. CASE Arrive
      BY <3>2 DEF Arrive, GotNewChar, framing_error
    <3>3. CASE Transmit
      BY <3>3 DEF Transmit, LoadShifter, ShiftDone
    <3>4. CASE UNCHANGED fwVars
      BY <3>4 DEF fwVars, vars, uartVars
    <3> QED BY <1>2, <3>1, <3>2, <3>3, <3>4 DEF NextFw
  <2> QED BY <1>1, <2>1, <2>2, <2>3, <2>4 DEF FlagOK
<1>3. CASE Program
  <2>0. ip \in 1..Len(main) /\ ip' = ip + 1 /\ isr' = "off" /\ interrupted' = interrupted
    BY <1>1, <1>3, ProgramStep DEF FwType
  <2>1. ASSUME ip <= 2 * B + 1
        PROVE  whole' /\ "TOE" \notin errors'
    <3>1. whole /\ "TOE" \notin errors
      BY <1>1, <2>1 DEF FlagOK
    <3>2. CASE WriteChar \/ Echo
      <4>1. ip \notin splashAt
        BY <1>0, <2>0, <2>1
      <4> QED BY <3>1, <3>2, <4>1, WriteStep, FlagWrite
    <3>3. CASE ~(WriteChar \/ Echo)
      <4>1. sent' = sent /\ UNCHANGED txVars /\ ("TOE" \in errors' => "TOE" \in errors)
        BY <1>3, <3>3 DEF Program, ClearStatus, WriteStatus, PollFlag, ReadStatus, ReadKey,
          ReadRxdata, uartVars, txVars
      <4> QED BY <3>1, <4>1 DEF whole, wire, txVars
    <3> QED BY <3>2, <3>3
  <2>2. ASSUME ip \in splashAt, interrupted = {}
        PROVE  whole' <=> "TOE" \notin errors'
    <3>1. whole <=> "TOE" \notin errors
      BY <1>1, <2>2 DEF FlagOK
    <3>2. main[ip].op = "write"
      BY <2>2, MainAt
    <3>3. WriteChar
      BY <1>3, <3>2 DEF Program, ClearStatus, PollFlag, ReadStatus, ReadKey, Echo, instr
    <3> QED BY <3>1, <3>3, FlagWrite
  <2>3. ASSUME ip = statusAt, interrupted = {}
        PROVE  whole' <=> "TOE" \notin uart_status'
    <3>1. whole <=> "TOE" \notin errors
      BY <1>1, <2>3 DEF FlagOK
    <3>2. main[ip].op = "status"
      BY <2>0, <2>3, MainAt
    <3>3. ReadStatus
      BY <1>3, <3>2 DEF Program, ClearStatus, PollFlag, WriteChar, ReadKey, Echo, instr
    <3>4. "TOE" \in status_reg <=> "TOE" \in errors
      BY DEF status_reg
    <3>5. whole' <=> whole
      BY <3>3 DEF ReadStatus, whole, wire, uartVars
    <3> QED BY <3>1, <3>3, <3>4, <3>5 DEF ReadStatus
  <2>4. ip' <= 2 * B + 1 => ip <= 2 * B + 1
    BY <1>0, <2>0
  <2>5. ip' \in splashAt \cup {statusAt} => ip <= 2 * B + 1 \/ ip \in splashAt
    BY <1>0, <2>0
  <2>6. ip' = statusAt + 1 => ip = statusAt
    BY <1>0, <2>0
  <2> QED BY <2>0, <2>1, <2>2, <2>3, <2>4, <2>5, <2>6 DEF FlagOK
<1> QED BY <1>2, <1>3

\* The key, from the device to the ring or to the program.
LEMMA KeyStep ==
  ASSUME FwInv, [NextFw]_fwVars
  PROVE  KeyOK'
<1>0. readAt \in Int /\ statusAt \in Int /\ Len(main) = readAt + 2 /\ readAt > 1
  BY Lengths, MainPlaces
<1>1. FwType /\ SeenOK /\ KeyOK /\ arrived \in Nat /\ ip \in Int /\ rx_end \in Int
  BY DEF FwInv, FwType, Place
<1>2. CASE Arrive /\ UNCHANGED program
  <2>1. /\ rx_data' = arrived' /\ arrived' = arrived + 1 /\ isr' = isr
        /\ UNCHANGED <<rings, program>>
    BY <1>2 DEF Arrive, Arrival, GotNewChar
  <2>2. rx_char_ready'
    BY <1>2 DEF Arrive, GotNewChar
  <2> QED BY <1>0, <1>1, <2>1, <2>2 DEF KeyOK, FwType, rings, program
<1>3. CASE Transmit /\ UNCHANGED program
  BY <1>1, <1>3 DEF Transmit, LoadShifter, ShiftDone, rxVars, rings, history, program, KeyOK
<1>4. CASE Interrupt
  <2>0. /\ ip' = ip /\ incoming_character' = incoming_character
        /\ ip = readAt => readAt \in interrupted'
        /\ readAt \in interrupted => readAt \in interrupted'
    BY <1>4 DEF Interrupt
  <2>1. CASE IrqEntry \/ IrqClear \/ RxIrqError \/ TxIrq
    <3>1. UNCHANGED <<rx_data, rx_char_ready, rx_buf, rx_end, arrived>>
      BY <2>1 DEF IrqEntry, IrqClear, WriteStatus, RxIrqError, TxIrq, uartVars, rxVars, rings,
        rxRing, history
    <3> QED BY <1>1, <2>0, <3>1 DEF KeyOK
  <2>2. CASE RxIrq
    <3>1. rx_char_ready /\ arrived > 0 /\ rx_data = arrived /\ arrived \in 0..MaxArrive
      BY <1>1, <2>2 DEF RxIrq, SeenOK, KeyOK, FwType
    <3>2. /\ rx_buf' = [rx_buf EXCEPT ![rx_end] = arrived] /\ rx_end' = next(rx_end)
          /\ ~rx_char_ready'
      BY <2>2, <3>1 DEF RxIrq, ReadRxdata, ReadRxdataLate
    <3>3. rx_data' = arrived' /\ (arrived' = arrived \/ arrived' = arrived + 1)
      BY <2>2, <3>1 DEF RxIrq, ReadRxdata, ReadRxdataLate, Arrival
    <3>4. \A p \in Place : p < rx_end' => p < rx_end \/ p = rx_end
      <4>1. rx_end \in Place
        BY <1>1 DEF FwType
      <4>2. next(rx_end) = IF rx_end + 1 = BufLen THEN 0 ELSE rx_end + 1
        BY <4>1, SMTT(60) DEF Place, next
      <4> QED BY <3>2, <4>1, <4>2 DEF Place
    <3>5. \A p \in Place : rx_buf'[p] = IF p = rx_end THEN arrived ELSE rx_buf[p]
      BY <1>1, <3>2 DEF FwType
    <3>6. \A p \in Place : p < rx_end' => rx_buf'[p] \in 1..arrived'
      <4> TAKE p \in Place
      <4> HAVE p < rx_end'
      <4>1. CASE p = rx_end
        BY <1>1, <3>1, <3>3, <3>5, <4>1
      <4>2. CASE p # rx_end
        <5>1. p < rx_end /\ rx_buf'[p] = rx_buf[p]
          BY <3>4, <3>5, <4>2
        <5> QED BY <1>1, <3>3, <5>1 DEF KeyOK
      <4> QED BY <4>1, <4>2
    <3>7. ASSUME ip > readAt
          PROVE  /\ incoming_character \in 1..arrived'
                 /\ readAt \notin interrupted' =>
                      \A p \in Place : p < rx_end' => rx_buf'[p] # incoming_character
      <4>1. incoming_character \in 1..arrived
        BY <1>1, <3>7 DEF KeyOK
      <4>2. incoming_character \in 1..arrived'
        BY <1>1, <3>3, <4>1
      <4>3. ASSUME readAt \notin interrupted', NEW p \in Place, p < rx_end'
            PROVE  rx_buf'[p] # incoming_character
        <5>1. incoming_character < arrived
          BY <1>1, <2>0, <3>1, <3>7, <4>3 DEF KeyOK
        <5>2. p < rx_end => rx_buf[p] # incoming_character
          BY <1>1, <2>0, <3>7, <4>3 DEF KeyOK
        <5>3. CASE p = rx_end
          BY <1>1, <3>5, <4>1, <5>1, <5>3
        <5>4. CASE p # rx_end
          BY <3>4, <3>5, <4>3, <5>2, <5>4
        <5> QED BY <5>3, <5>4
      <4> QED BY <4>2, <4>3
    <3>8. arrived' > 0
      BY <1>1, <3>1, <3>3
    <3> QED BY <2>0, <3>2, <3>3, <3>6, <3>7, <3>8 DEF KeyOK
  <2> QED BY <1>4, <2>1, <2>2 DEF Interrupt, Irq
<1>5. CASE Program
  <2>0. /\ ip \in 1..Len(main) /\ ip' = ip + 1 /\ isr' = "off" /\ interrupted' = interrupted
        /\ UNCHANGED <<rx_buf, rx_end, arrived>>
    BY <1>1, <1>5, ProgramStep DEF FwType, rings, history
  <2>1. CASE ip < readAt - 1
    <3>1. main[ip].op # "read"
      BY <1>0, <2>0, <2>1, MainAt
    <3>2. UNCHANGED <<rx_data, rx_char_ready>>
      BY <1>5, <3>1 DEF Program, ClearStatus, WriteStatus, PollFlag, WriteChar, WriteTx,
        ReadStatus, ReadKey, Echo, instr, uartVars, rxVars
    <3>3. ip' < readAt
      BY <1>0, <2>0, <2>1
    <3> QED BY <1>0, <1>1, <2>0, <3>2, <3>3 DEF KeyOK
  <2>2. CASE ip = readAt - 1
    <3>1. main[ip].op = "poll" /\ main[ip].flag = "RRDY"
      BY <2>2, MainAt DEF poll
    <3>2. PollFlag
      BY <1>5, <3>1 DEF Program, ClearStatus, WriteChar, ReadStatus, ReadKey, Echo, instr
    <3>3. UNCHANGED <<rx_data, rx_char_ready>> /\ "RRDY" \in status_reg
      BY <3>1, <3>2 DEF PollFlag, uartVars
    <3>4. rx_char_ready
      BY <1>1, <3>3 DEF status_reg, FwType
    <3>5. ip' = readAt
      BY <1>0, <2>0, <2>2
    <3> QED BY <1>0, <1>1, <2>0, <3>3, <3>4, <3>5 DEF KeyOK
  <2>3. CASE ip = readAt
    <3>1. main[ip].op = "read"
      BY <2>0, <2>3, MainAt
    <3>2. ReadKey
      BY <1>5, <3>1 DEF Program, ClearStatus, PollFlag, WriteChar, ReadStatus, Echo, instr
    <3>3. incoming_character' = rx_data /\ rx_data' = rx_data /\ ~rx_char_ready'
      BY <3>2 DEF ReadKey, ReadRxdata
    <3>4. arrived > 0 /\ rx_data = arrived
      BY <1>0, <1>1, <2>3 DEF KeyOK
    <3>5. readAt \notin interrupted =>
            \A p \in Place : p < rx_end => rx_buf[p] \in 1..arrived /\ rx_buf[p] < arrived
      BY <1>1, <2>3 DEF KeyOK
    <3>6. incoming_character' = arrived /\ arrived \in 1..arrived
      BY <1>1, <3>3, <3>4
    <3>7. \A p \in Place : p < rx_end => rx_buf[p] \in 1..arrived
      BY <1>1 DEF KeyOK
    <3>8. readAt \notin interrupted =>
            \A p \in Place : p < rx_end => rx_buf[p] # arrived
      BY <1>1, <3>5
    <3>9. ip' > readAt
      BY <1>0, <2>0, <2>3
    <3> QED BY <1>0, <2>0, <3>3, <3>4, <3>6, <3>7, <3>8, <3>9 DEF KeyOK
  <2>4. CASE ip > readAt
    <3>1. main[ip].op # "read"
      BY <1>0, <2>0, <2>4, MainAt, SMTT(30)
    <3>2. UNCHANGED <<rx_data, rx_char_ready, incoming_character>>
      BY <1>5, <3>1 DEF Program, ClearStatus, WriteStatus, PollFlag, WriteChar, WriteTx,
        ReadStatus, ReadKey, Echo, instr, uartVars, rxVars
    <3>3. ip' > readAt
      BY <1>0, <2>0, <2>4
    <3> QED BY <1>0, <1>1, <2>0, <2>4, <3>2, <3>3 DEF KeyOK
  <2> QED BY <1>0, <1>1, <2>1, <2>2, <2>3, <2>4
<1>6. CASE UNCHANGED fwVars
  BY <1>1, <1>6 DEF fwVars, vars, uartVars, rings, history, program, KeyOK
<1> QED BY <1>2, <1>3, <1>4, <1>5, <1>6 DEF NextFw
-------------------------------------------------------------------------------
LEMMA FwSafe == SpecFw => []FwInv
<1>1. FwInv /\ [NextFw]_fwVars => FwInv'
  BY FwTypeStep, SeenStep, PolledStep, CountStep, LostStep, FlagStep, KeyStep DEF FwInv
<1> QED BY FwInit, <1>1, PTL DEF SpecFw

\* hello_world.c:191-216: for every text and whatever the line and the handler
\* do, what the program writes leaves in order and once, but for characters that
\* the writes of the splash overwrite, the last one of the paced text among them.
THEOREM OnlySplash == SpecFw => []OnlySplashLost
<1>1. FwInv => OnlySplashLost
  <2> SUFFICES ASSUME FwInv PROVE OnlySplashLost
    OBVIOUS
  <2>1. PICK lost \in SUBSET ((B..(B + S - 1)) \cap 1..(Len(sent) - 1)) :
          Without(wire, sent, lost)
    BY DEF FwInv, LostOK
  <2>2. Len(sent) \in Nat /\ B \in Nat /\ S \in Nat
    BY Lengths DEF FwInv, FwType
  <2>3. exposed = (B..(B + S - 1)) \ {Len(sent)}
    BY DEF exposed, B, S
  <2>4. lost \in SUBSET (exposed \cap 1..Len(sent))
    BY <2>1, <2>2, <2>3
  <2>5. IsWithout(wire, lost)
    BY <2>1 DEF Without, IsWithout
  <2> QED BY <2>4, <2>5 DEF OnlySplashLost
<1> QED BY <1>1, FwSafe, PTL

\* hello_world.c:227: what the status shows after the splash is the truth about
\* the characters lost, when no handler has run since.
THEOREM OverrunShown == SpecFw => []OverrunSeen
<1>1. FwInv => OverrunSeen
  BY Shorter DEF FwInv, FlagOK, OverrunSeen
<1> QED BY <1>1, FwSafe, PTL

\* hello_world.c:147-151: the character that is echoed is one that arrived, and
\* the driver's ring has it as well only after an interrupt between poll and read.
THEOREM EchoFromKey == SpecFw => []EchoOnce
<1>1. FwInv => EchoOnce
  <2> SUFFICES ASSUME FwInv, ip > readAt
               PROVE  /\ incoming_character \in 1..arrived
                      /\ incoming_character \in Range(Ring(rx_buf, rx_start, rx_end))
                           => readAt \in interrupted
    BY DEF EchoOnce
  <2>1. /\ incoming_character \in 1..arrived
        /\ readAt \notin interrupted =>
             \A p \in Place : p < rx_end => rx_buf[p] # incoming_character
    BY DEF FwInv, KeyOK
  <2>2. rx_start = 0 /\ rx_end \in Place
    BY DEF FwInv, FwType
  <2>3. ASSUME NEW c \in Range(Ring(rx_buf, rx_start, rx_end))
        PROVE  \E p \in Place : p < rx_end /\ c = rx_buf[p]
    <3>1. (rx_end + BufLen - 0) % BufLen = rx_end
      BY <2>2, SMTT(30) DEF Place
    <3>2. Ring(rx_buf, rx_start, rx_end) = [i \in 1..rx_end |-> rx_buf[(0 + i - 1) % BufLen]]
      BY <2>2, <3>1 DEF Ring
    <3>3. PICK i \in 1..rx_end : c = rx_buf[(0 + i - 1) % BufLen]
      BY <2>3, <3>2 DEF Range
    <3>4. i - 1 \in Place /\ i - 1 < rx_end /\ 0 + i - 1 = i - 1
      BY <2>2 DEF Place
    <3>5. \A p \in Place : p % BufLen = p
      BY SMTT(30) DEF Place
    <3> QED BY <3>3, <3>4, <3>5
  <2> QED BY <2>1, <2>3
<1> QED BY <1>1, FwSafe, PTL
===============================================================================

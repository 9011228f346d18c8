------------------------------ MODULE UartDriver ------------------------------
(***************************************************************************)
(* The interrupt driven UART driver of the board support package,          *)
(* src/HashComp/software/Rs232Comm_bsp/drivers/src/altera_avalon_uart_*.c, *)
(* with the device under it and any single-threaded program above it.      *)
(*                                                                         *)
(* The program (pc) shares two rings with the interrupt handler (isr).     *)
(* The handler runs to its end before the program goes on; the device goes *)
(* on all the time.  sp->ctrl is not a variable of its own: whenever the   *)
(* program or the device takes a step it equals the device's control_reg.  *)
(* The UART has no flow control, so the tests of CTS are decided, and      *)
(* semaphores and event flags are empty macros without an operating system.*)
(***************************************************************************)
EXTENDS Uart

CONSTANTS
  BufLen,       \* ALT_AVALON_UART_BUF_LEN
  MaxArrive,    \* bound: the characters that arrive
  MaxWrite,     \* bound: the characters that are written
  Lens          \* the lengths the program passes to read and write

ASSUME BufLenAssumption == BufLen \in Nat \ {0, 1}

ASSUME LensAssumption == Lens \subseteq Nat

\* The bounds keep the characters, which are numbered, in Chars.
ASSUME BoundsAssumption ==
  /\ MaxArrive \in Nat /\ 1..MaxArrive \subseteq Chars
  /\ MaxWrite \in Nat /\ 1..MaxWrite \subseteq Chars

VARIABLES
  rx_buf, rx_start, rx_end,
  tx_buf, tx_start, tx_end,
  isr,          \* where the interrupt handler is
  status,       \* its copy of the status register
  pc,           \* where the program is in the driver
  len, count, block,    \* arguments and locals of the call it is in
  arrived,      \* history: how many characters have arrived, numbered from 1
  delivered,    \* history: what the calls of read have returned
  written       \* history: what the calls of write have taken

rings == <<rx_buf, rx_start, rx_end, tx_buf, tx_start, tx_end>>
rxRing == <<rx_buf, rx_start, rx_end>>
txRing == <<tx_buf, tx_start, tx_end>>
call == <<pc, len, count, block>>
history == <<arrived, delivered, written>>
vars == <<uartVars, rings, isr, status, call, history>>

\* The place after i: the length is a power of two, so & ALT_AVALON_UART_BUF_MSK
\* is the remainder.
next(i) == (i + 1) % BufLen

\* A ring from its start to its end.
Ring(buf, start, end) ==
  [i \in 1..((end + BufLen - start) % BufLen) |-> buf[(start + i - 1) % BufLen]]

\* After altera_avalon_uart_init.
Init ==
  /\ InitUart({"RRDY"})
  /\ rx_buf = [i \in 0..(BufLen - 1) |-> NoChar] /\ rx_start = 0 /\ rx_end = 0
  /\ tx_buf = [i \in 0..(BufLen - 1) |-> NoChar] /\ tx_start = 0 /\ tx_end = 0
  /\ isr = "off" /\ status = {}
  /\ pc = "out" /\ len = 0 /\ count = 0 /\ block = TRUE
  /\ arrived = 0 /\ delivered = <<>> /\ written = <<>>
-------------------------------------------------------------------------------
\* The device.
Arrival ==
  /\ arrived < MaxArrive
  /\ arrived' = arrived + 1

Arrive ==
  /\ Arrival /\ \E framed \in BOOLEAN : GotNewChar(arrived + 1, framed)
  /\ UNCHANGED <<rings, isr, status, call, delivered, written>>

Transmit ==
  /\ LoadShifter \/ ShiftDone
  /\ UNCHANGED <<rings, isr, status, call, history>>
-------------------------------------------------------------------------------
\* Fault: the transmitter is not asked whether it is ready.
afterRx_always == "tx"

\* Where the handler goes on, and "off" when it is done.
afterRx == IF "TRDY" \in status THEN "tx" ELSE "off"

goOn(where) ==
  /\ isr' = where
  /\ status' = IF where = "off" THEN {} ELSE status

\* altera_avalon_uart_irq: the processor enters the handler, which reads the
\* status register,
IrqEntry ==
  /\ isr = "off" /\ qualified_irq
  /\ isr' = "clear"
  /\ status' = status_reg
  /\ UNCHANGED <<uartVars, rings, call, history>>

\* Fault: the error flags are not cleared.
IrqClear_dirty ==
  /\ isr = "clear"
  /\ goOn(IF "RRDY" \in status THEN "rx" ELSE afterRx)
  /\ UNCHANGED <<uartVars, rings, call, history>>

\* clears the error flags, those included that were raised since,
IrqClear ==
  /\ isr = "clear"
  /\ WriteStatus
  /\ goOn(IF "RRDY" \in status THEN "rx" ELSE afterRx)
  /\ UNCHANGED <<rings, call, history>>

\* hands a character it saw to altera_avalon_uart_rxirq, which leaves it where
\* it is when the status shows an error
RxIrqError ==
  /\ isr = "rx" /\ "FE" \in status
  /\ goOn(afterRx)
  /\ UNCHANGED <<uartVars, rings, call, history>>

\* and else moves it to the ring,
RxIrq ==
  /\ isr = "rx" /\ "FE" \notin status
  /\ rx_buf' = [rx_buf EXCEPT ![rx_end] = rx_data]
  /\ rx_end' = next(rx_end)
  /\ control_reg' = IF next(rx_end') = rx_start
                      THEN control_reg \ {"RRDY"} ELSE control_reg
  /\ \/ ReadRxdata /\ UNCHANGED arrived
     \/ Arrival /\ \E framed \in BOOLEAN : ReadRxdataLate(arrived + 1, framed)
  /\ goOn(afterRx)
  /\ UNCHANGED <<txVars, rx_start, txRing, call, delivered, written>>

\* and room in the transmitter to altera_avalon_uart_txirq.
TxIrq ==
  /\ isr = "tx"
  /\ IF tx_start = tx_end
       THEN UNCHANGED <<txVars, errors, tx_start>>
       ELSE WriteTxdata(tx_buf[tx_start]) /\ tx_start' = next(tx_start)
  /\ control_reg' = CASE tx_start' = tx_end -> control_reg \ {"TRDY"}
                      [] OTHER -> control_reg \cup {"TRDY"}
  /\ goOn("off")
  /\ UNCHANGED <<rxVars, rxRing, tx_buf, tx_end, call, history>>
-------------------------------------------------------------------------------
\* The program takes a step in the driver while no handler runs.
at(label) == isr = "off" /\ pc = label
goto(label) == pc' = label /\ UNCHANGED <<len, block>>
return == pc' = "out" /\ len' = 0 /\ count' = 0 /\ block' = TRUE

\* A region with interrupts disabled: sp->ctrl and the register gain a bit.
enable(interrupt) ==
  /\ control_reg' = control_reg \cup {interrupt}
  /\ UNCHANGED <<txVars, rxVars, errors, rings, isr, status>>

local == UNCHANGED <<uartVars, isr, status>>

\* The program calls read, write or close, with or without O_NONBLOCK.
Call(first, n) ==
  /\ at("out")
  /\ pc' = first /\ len' = n
  /\ block' \in BOOLEAN
  /\ local /\ UNCHANGED <<rings, history>>

CallRead == \E n \in Lens : Call("read", n) /\ count' = 0
CallWrite ==
  \E n \in Lens :
    Len(written) + n <= MaxWrite /\ Call("write", n) /\ count' = n
CallClose == Call("close", 0) /\ count' = 0
-------------------------------------------------------------------------------
\* altera_avalon_uart_write: the tests of the loop, and of the room in the ring,
WriteTest ==
  /\ at("write")
  /\ goto(IF count > 0 /\ next(tx_end) # tx_start THEN "put"
          ELSE IF count > 0 /\ block THEN "full" ELSE "written")
  /\ local /\ UNCHANGED <<count, rings, history>>

\* Fault: a waiting writer relies on an interrupt it never enables.
WriteFull_silent ==
  /\ at("full")
  /\ goto("room")
  /\ local /\ UNCHANGED <<count, rings, history>>

\* the wait for room, with transmit interrupts made sure of,
WriteFull ==
  /\ at("full")
  /\ enable("TRDY")
  /\ goto("room") /\ UNCHANGED <<count, history>>

WriteRoom ==
  /\ at("room") /\ next(tx_end) # tx_start
  /\ goto("put")
  /\ local /\ UNCHANGED <<count, rings, history>>

\* the copy of the next character (they are numbered from 1),
nextChar == Len(written) + 1

WritePut ==
  /\ at("put")
  /\ count' = count - 1
  /\ tx_buf' = [tx_buf EXCEPT ![tx_end] = nextChar]
  /\ goto("advance")
  /\ local /\ UNCHANGED <<rxRing, tx_start, tx_end, history>>

WriteAdvance ==
  /\ at("advance")
  /\ tx_end' = next(tx_end)
  /\ written' = Append(written, nextChar)
  /\ goto("write")
  /\ local
  /\ UNCHANGED <<count, rxRing, tx_buf, tx_start,
                 arrived, delivered>>

\* Fault: the transmitter is not started.
WriteEnd_silent ==
  /\ at("written")
  /\ return
  /\ local /\ UNCHANGED <<rings, history>>

\* and the end, which starts the transmitter.
WriteEnd ==
  /\ at("written")
  /\ enable("TRDY")
  /\ return /\ UNCHANGED history
-------------------------------------------------------------------------------
\* altera_avalon_uart_read: a character is copied
ReadTake ==
  /\ at("read")
  /\ count < len /\ rx_start # rx_end
  /\ count' = count + 1
  /\ delivered' = Append(delivered, rx_buf[rx_start])
  /\ goto("taken")
  /\ local /\ UNCHANGED <<rings, arrived, written>>

\* and its place given back,
ReadAdvance ==
  /\ at("taken")
  /\ rx_start' = next(rx_start)
  /\ goto("read")
  /\ local /\ UNCHANGED <<count, rx_buf, rx_end, txRing, history>>

\* until the ring is empty or the caller has enough;
ReadTest ==
  /\ at("read")
  /\ ~(count < len /\ rx_start # rx_end)
  /\ goto(IF count = 0 THEN "nothing" ELSE "ended")
  /\ local /\ UNCHANGED <<count, rings, history>>

\* with nothing read and the ring still empty it gives up or waits,
ReadNothing ==
  /\ at("nothing")
  /\ goto(CASE rx_start = rx_end /\ block  -> "empty"
            [] rx_start = rx_end /\ ~block -> "ended"
            [] rx_start # rx_end /\ len > 0 -> "read"
            [] OTHER                        -> "ended")
  /\ local /\ UNCHANGED <<count, rings, history>>

\* with receive interrupts made sure of,
ReadEmpty ==
  /\ at("empty")
  /\ enable("RRDY")
  /\ goto(IF len > 0 THEN "read" ELSE "ended") /\ UNCHANGED <<count, history>>

\* Fault: the interrupt that a full ring masked stays masked.
ReadEnd_silent ==
  /\ at("ended")
  /\ return
  /\ local /\ UNCHANGED <<rings, history>>

\* as before it returns.
ReadEnd ==
  /\ at("ended")
  /\ enable("RRDY")
  /\ return /\ UNCHANGED history
-------------------------------------------------------------------------------
\* altera_avalon_uart_close.
Close ==
  /\ at("close")
  /\ tx_start = tx_end \/ ~block
  /\ return
  /\ local /\ UNCHANGED <<rings, history>>
-------------------------------------------------------------------------------
Irq == IrqEntry \/ IrqClear \/ RxIrqError \/ RxIrq \/ TxIrq
Write == WriteTest \/ WriteFull \/ WriteRoom \/ WritePut \/ WriteAdvance \/ WriteEnd
Read == ReadTake \/ ReadAdvance \/ ReadTest \/ ReadNothing \/ ReadEmpty \/ ReadEnd

Next ==
  \/ Arrive \/ Transmit
  \/ Irq
  \/ CallRead \/ CallWrite \/ CallClose
  \/ Write \/ Read \/ Close

\* The transmitter shifts, an interrupt is taken and its handler ends, and the
\* program goes on with a call it has made.  Nobody has to send a character or
\* to make a call.
Fairness == WF_vars(Transmit) /\ WF_vars(Irq) /\ WF_vars(Write \/ Read \/ Close)

Spec == Init /\ [][Next]_vars /\ Fairness
-------------------------------------------------------------------------------
labels == {"out", "write", "full", "room", "put", "advance", "written",
           "read", "taken", "nothing", "empty", "ended", "close"}

\* The type invariant, with the places that the volatile indices may take.
TypeOK ==
  /\ TypeUart
  /\ {rx_start, rx_end, tx_start, tx_end} \subseteq 0..(BufLen - 1)
  /\ rx_buf \in [0..(BufLen - 1) -> Chars \cup {NoChar}]
  /\ tx_buf \in [0..(BufLen - 1) -> Chars \cup {NoChar}]
  /\ isr \in {"off", "clear", "rx", "tx"}
  /\ status \subseteq {"RRDY", "TRDY", "TOE", "FE"}
  /\ pc \in labels /\ len \in Lens \cup {0} /\ count \in 0..len /\ block \in BOOLEAN
  /\ arrived \in 0..MaxArrive
  /\ delivered \in Seq(Chars) /\ written \in Seq(Chars)

\* The characters in the receive ring that no call has copied yet.
pending ==
  LET ring == Ring(rx_buf, rx_start, rx_end)
  IN  IF pc = "taken" /\ ring # <<>> THEN Tail(ring) ELSE ring

\* What read returns comes in the order of arrival and nothing of it twice,
\* whatever was lost in the device or the ring.
ReadsInOrder ==
  LET all == delivered \o pending
  IN  \A i \in 1..(Len(all) - 1) : all[i] < all[i + 1]

\* What write took leaves the device in that order, each character once: the
\* handler never overwrites tx_data and never sends a place of the ring early
\* or twice.
C == INSTANCE Channel
       WITH Message <- Chars, accepted <- written, sent <- txd

ImplementsChannel == C!Behaviour

\* All of it leaves: the program's last enabling of the interrupt comes after
\* the handler's disabling of it on an empty ring.
EverythingSent == C!Progress

\* Whoever reads, waiting or not, gets the character out of the device that is
\* there, even if a full ring had masked its interrupt: no order of masking by
\* the handler and unmasking by the readers leaves it there for good.
CharTaken == rx_char_ready /\ pc \in {"empty", "ended"} ~> ~rx_char_ready

\* Every call returns, however full the rings are, but for a blocking read that
\* has got nothing.
waiting ==
  pc \in {"read", "nothing", "empty"} /\ block /\ len > 0 /\ count = 0

CallsReturn == pc # "out" /\ ~waiting ~> pc = "out"

\* altera_avalon_uart_init.c:189-190: on a full ring the receive interrupt is
\* disabled, to be enabled again when data is removed; until then the handler
\* puts nothing over the data in the ring.
NothingOverwritten ==
  [][Len(Ring(rx_buf, rx_start, rx_end)) = BufLen - 1 /\ "RRDY" \notin control_reg
       => rx_end' = rx_end]_vars
===============================================================================

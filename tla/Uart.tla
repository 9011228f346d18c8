--------------------------------- MODULE Uart ---------------------------------
(***************************************************************************)
(* src/HashComp/BSF/synthesis/submodules/System_uart_0.v: the serial port, *)
(* at the grain of one register access or one character on the line.  The  *)
(* bit clocks, the shift registers and the synchronizer are cut to the     *)
(* moment a character has been sent or received.  It has no flow control   *)
(* (lines 684-685) and no parity (line 517).                               *)
(***************************************************************************)
EXTENDS Naturals, Sequences

CONSTANTS
  Chars,        \* what a character can be
  NoChar        \* no character: the shift register is empty

ASSUME CharsAssumption == NoChar \notin Chars

VARIABLES
  tx_ready,         \* tx_data may be written
  tx_data,
  tx_shift,         \* the character in the transmit shift register
  txd,              \* history: the characters that left it
  rx_char_ready,    \* rx_data holds a character nobody has read
  rx_data,
  errors,           \* the error flags of the status register: "FE" a stop
                    \* bit was missing, "TOE" tx_data was overwritten
  control_reg       \* the interrupts that are enabled

uartVars == <<tx_ready, tx_data, tx_shift, txd,
              rx_char_ready, rx_data, errors, control_reg>>
txVars == <<tx_ready, tx_data, tx_shift, txd>>
rxVars == <<rx_char_ready, rx_data>>

InitUart(enabled) ==
  /\ tx_ready = TRUE
  /\ tx_data = NoChar
  /\ tx_shift = NoChar
  /\ txd = <<>>
  /\ rx_char_ready = FALSE
  /\ rx_data = NoChar
  /\ errors = {}
  /\ control_reg = enabled

\* The status register, less the bits that no software of the system acts on
\* (overrun, break and parity of the receiver, the empty shift register).
status_reg ==
  errors \cup (IF rx_char_ready THEN {"RRDY"} ELSE {})
         \cup (IF tx_ready THEN {"TRDY"} ELSE {})

\* The level on the interrupt line.
qualified_irq == control_reg \cap status_reg # {}
-------------------------------------------------------------------------------
\* The device on its own: the transmit register moves to the shift register.
LoadShifter ==
  /\ ~tx_ready /\ tx_shift = NoChar
  /\ tx_shift' = tx_data
  /\ tx_ready' = TRUE
  /\ UNCHANGED <<tx_data, txd, rxVars, errors, control_reg>>

\* The last bit of a character has left the shift register.
ShiftDone ==
  /\ tx_shift # NoChar
  /\ txd' = Append(txd, tx_shift)
  /\ tx_shift' = NoChar
  /\ UNCHANGED <<tx_ready, tx_data, rxVars, errors, control_reg>>

framing_error(framed) == IF framed THEN {} ELSE {"FE"}

\* A character has arrived, well framed or not; one that nobody has read is
\* overwritten.
GotNewChar(c, framed) ==
  /\ rx_data' = c
  /\ rx_char_ready' = TRUE
  /\ errors' = errors \cup framing_error(framed)
  /\ UNCHANGED <<txVars, control_reg>>
-------------------------------------------------------------------------------
\* Fault: the read does not acknowledge the character.
ReadRxdata_keeps == UNCHANGED <<rx_char_ready, rx_data, errors>>

\* A read of the receive register, whose value is the current rx_data.
ReadRxdata ==
  /\ rx_char_ready' = FALSE
  /\ UNCHANGED <<rx_data, errors>>

\* The same when a character arrives in the same clock cycle.  The read wins:
\* rx_char_ready falls and the new character is not announced.
ReadRxdataLate(c, framed) ==
  /\ rx_char_ready' = FALSE
  /\ rx_data' = c
  /\ errors' = errors \cup framing_error(framed)

\* Fault: an overrun leaves no flag.
WriteTxdata_silent(c) ==
  /\ tx_data' = c
  /\ tx_ready' = FALSE
  /\ UNCHANGED <<tx_shift, txd, errors>>

\* A write of the transmit register, ready or not.
WriteTxdata(c) ==
  /\ tx_data' = c
  /\ tx_ready' = FALSE
  /\ errors' = errors \cup (IF tx_ready THEN {} ELSE {"TOE"})
  /\ UNCHANGED <<tx_shift, txd>>

\* Any write of the status register clears the error flags.
WriteStatus ==
  /\ errors' = {}
  /\ UNCHANGED <<txVars, rxVars, control_reg>>

\* The types of the registers.
TypeUart ==
  /\ tx_ready \in BOOLEAN /\ rx_char_ready \in BOOLEAN
  /\ tx_data \in Chars \cup {NoChar}
  /\ tx_shift \in Chars \cup {NoChar}
  /\ rx_data \in Chars \cup {NoChar}
  /\ errors \subseteq {"TOE", "FE"}
  /\ control_reg \subseteq {"RRDY", "TRDY"}
===============================================================================

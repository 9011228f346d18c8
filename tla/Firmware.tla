------------------------------- MODULE Firmware -------------------------------
(***************************************************************************)
(* src/HashComp/software/Rs232Comm/hello_world.c: the program that polls   *)
(* the registers of the UART, with the device and with the interrupt       *)
(* handler of the driver.  main takes the UART to be in polled mode, but   *)
(* alt_sys_init has installed the handler and enabled its interrupt before *)
(* main is called.  The program is straight-line code, so it is a sequence *)
(* of instructions; a loop that polls a flag is an instruction that waits. *)
(***************************************************************************)
EXTENDS UartDriver, SequencesExt

CONSTANTS
  bitbang,          \* the characters of "BIT BANG"
  splash,           \* 'B', 'A', 'S' and 'H'
  input_request     \* the characters of the prompt

ASSUME TextAssumption ==
  \A text \in {bitbang, splash, input_request} : text \in Seq(Chars) /\ text # <<>>

VARIABLES
  ip,           \* the instruction the program is at
  uart_status,  \* what it has read of the status register
  incoming_character,
  sent,         \* history: what it has written to the transmit register
  interrupted   \* history: the instructions, of those that matter, before which
                \* a handler was entered

program == <<ip, uart_status, incoming_character, sent, interrupted>>
fwVars == <<vars, program>>

clear == [op |-> "clear"]
poll(flag) == [op |-> "poll", flag |-> flag]
write(c) == [op |-> "write", char |-> c]

\* Fault: the transmitter is not waited for.
Paced_blind(text) == [i \in 1..Len(text) |-> write(text[i])]

\* The loop that waits for TRDY and writes the next character.
Paced(text) ==
  [i \in 1..(2 * Len(text)) |->
     IF i % 2 = 1 THEN poll("TRDY") ELSE write(text[i \div 2])]

BitBangUartTransmit ==
  <<clear>> \o Paced(bitbang)
            \o [i \in 1..Len(splash) |-> write(splash[i])]
            \o <<[op |-> "status"]>>

BitBangUartReceive ==
  <<clear>> \o Paced(input_request)
            \o <<poll("RRDY"), [op |-> "read"], poll("TRDY"), [op |-> "echo"]>>

\* Then it loops for ever.
main == BitBangUartTransmit \o BitBangUartReceive

InitFw ==
  /\ Init
  /\ ip = 1 /\ uart_status = {} /\ incoming_character = NoChar
  /\ sent = <<>> /\ interrupted = {}
-------------------------------------------------------------------------------
\* An instruction, executed while no handler runs.
instr(op) ==
  /\ isr = "off" /\ ip <= Len(main) /\ main[ip].op = op
  /\ ip' = ip + 1
  /\ UNCHANGED <<rings, isr, status, call, history, interrupted>>

ClearStatus ==
  /\ instr("clear")
  /\ WriteStatus
  /\ UNCHANGED <<uart_status, incoming_character, sent>>

\* The last turn of a polling loop: the flag is up.
PollFlag ==
  /\ instr("poll")
  /\ main[ip].flag \in status_reg
  /\ uart_status' = {main[ip].flag}
  /\ UNCHANGED <<uartVars, incoming_character, sent>>

WriteTx(c) ==
  /\ WriteTxdata(c)
  /\ sent' = Append(sent, c)
  /\ UNCHANGED <<rxVars, control_reg, uart_status, incoming_character>>

WriteChar == instr("write") /\ WriteTx(main[ip].char)

Echo == instr("echo") /\ WriteTx(incoming_character)

ReadStatus ==
  /\ instr("status")
  /\ uart_status' = status_reg
  /\ UNCHANGED <<uartVars, incoming_character, sent>>

ReadKey ==
  /\ instr("read")
  /\ incoming_character' = rx_data
  /\ ReadRxdata
  /\ UNCHANGED <<txVars, control_reg, uart_status, sent>>

Program == ClearStatus \/ PollFlag \/ WriteChar \/ ReadStatus \/ ReadKey \/ Echo

\* Where the unpaced writes and the reading of the key are.
splashAt == (2 * Len(bitbang) + 2)..(2 * Len(bitbang) + Len(splash) + 1)
statusAt == Len(BitBangUartTransmit)
readAt == Len(main) - 2

\* The processor takes the interrupt before the program's next instruction.
Interrupt ==
  /\ Irq
  /\ interrupted' =
       interrupted \cup ({ip} \cap (splashAt \cup {statusAt, readAt}))
  /\ UNCHANGED <<ip, uart_status, incoming_character, sent>>

NextFw ==
  \/ (Arrive \/ Transmit) /\ UNCHANGED program
  \/ Interrupt
  \/ Program

\* The transmitter shifts, the processor takes its interrupts and returns from
\* them, and executes its program when there is none.
SpecFw ==
  /\ InitFw /\ [][NextFw]_fwVars
  /\ WF_fwVars(Transmit /\ UNCHANGED program)
  /\ WF_fwVars(Interrupt) /\ WF_fwVars(Program)
-------------------------------------------------------------------------------
\* What has left the device or still will.
wire ==
  txd \o (IF tx_shift = NoChar THEN <<>> ELSE <<tx_shift>>)
      \o (IF tx_ready THEN <<>> ELSE <<tx_data>>)

\* The characters that the next write may have overwritten: the last one of the
\* text, and those of the splash that another one has followed.
exposed == (Len(bitbang)..(Len(bitbang) + Len(splash) - 1)) \ {Len(sent)}

\* s is sent without the characters at the places of lost, in order.
IsWithout(s, lost) ==
  LET kept == 1..Len(sent) \ lost
  IN  /\ Len(s) = Cardinality(kept)
      /\ \A i \in kept : s[Cardinality(kept \cap 1..i)] = sent[i]

\* hello_world.c:191-216: whatever the handler does between the instructions and
\* however slow the line is, all the program writes leaves in order and once,
\* but for characters overwritten by the writes that do not poll, the last one
\* of the paced text among them.
OnlySplashLost ==
  \E lost \in SUBSET (exposed \cap 1..Len(sent)) : IsWithout(wire, lost)

\* hello_world.c:227: the status shows the overrun of every lost character,
\* unless an interrupt was taken since the splash began, whose handler clears
\* the flag the program is after.
OverrunSeen ==
  ip = statusAt + 1 /\ interrupted = {}
    => (wire = sent <=> "TOE" \notin uart_status)

\* hello_world.c:147-151: what is echoed is a key.  It is in the ring of the
\* driver as well only when the handler was entered between the poll that saw
\* it and the read.
EchoOnce ==
  ip > readAt =>
    /\ incoming_character \in 1..arrived
    /\ incoming_character \in Range(Ring(rx_buf, rx_start, rx_end))
         => readAt \in interrupted

\* hello_world.c:135: neither the polling for the transmitter nor the handler
\* keeps the program from asking for its key: the handler takes each character,
\* or masks it, and interrupts end.
KeyAskedFor == <>(ip >= readAt - 1)
===============================================================================

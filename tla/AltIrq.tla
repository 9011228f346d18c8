-------------------------------- MODULE AltIrq --------------------------------
(***************************************************************************)
(* The interrupts of the HAL with the internal interrupt controller:       *)
(* src/HashComp/software/Rs232Comm_bsp/HAL/src/alt_irq_handler.c and       *)
(* alt_iic*.c, inc/sys/alt_irq.h and inc/priv/alt_legacy_irq.h.            *)
(*                                                                         *)
(* The processor takes an interrupt between two instructions of the        *)
(* program while status.PIE is set, and clears it until the handler is     *)
(* left.  The program's pc is the step of the call it is in.               *)
(***************************************************************************)
EXTENDS Naturals

CONSTANTS
  ALT_NIRQ,     \* the interrupts are 0 .. ALT_NIRQ - 1, the lowest comes first
  Isr,          \* the handlers a driver registers; the driver of isr passes it
                \* isr as its context too
  NULL

ASSUME IrqAssumption ==
  ALT_NIRQ \in Nat \ {0} /\ NULL \notin Isr \cup 0..ALT_NIRQ

VARIABLES
  line,             \* the interrupts whose device asks for service
  pie,              \* status.PIE
  ienable,          \* the register IENABLE
  alt_irq_active,   \* its copy in memory
  handler, context, \* the two fields of alt_irq[]
  active,           \* alt_irq_handler: what it has read of IPENDING
  serving,          \* the interrupt whose handler runs, ALT_NIRQ between two of
                    \* them, and NULL outside alt_irq_handler
  pc, status, arg   \* the call the program is in, its irq_context, arguments

controller == <<line, pie, ienable, alt_irq_active, handler, context, active, serving>>
irqVars == <<controller, pc, status, arg>>

Irq == 0..(ALT_NIRQ - 1)

noArg == [id |-> 0, isr |-> NULL]

\* After altera_nios2_gen2_irq_init and alt_irq_cpu_enable_interrupts, and the
\* registration of the handlers of h.
InitIrq(h) ==
  /\ line = {} /\ pie = TRUE
  /\ handler = h /\ context = h
  /\ ienable = {i \in Irq : h[i] # NULL} /\ alt_irq_active = ienable
  /\ active = {} /\ serving = NULL
  /\ pc = "out" /\ status = FALSE /\ arg = noArg

alt_irq_pending == line \cap ienable
-------------------------------------------------------------------------------
\* A device asks for service.
Raise(i) ==
  /\ line' = line \cup {i}
  /\ UNCHANGED <<pie, ienable, alt_irq_active, handler, context, active, serving,
                 pc, status, arg>>

\* The processor takes an interrupt; alt_irq_entry.S finds it pending and calls
\* alt_irq_handler, which reads what is pending.
Enter ==
  /\ serving = NULL /\ pie /\ alt_irq_pending # {}
  /\ pie' = FALSE
  /\ serving' = ALT_NIRQ
  /\ active' = alt_irq_pending
  /\ UNCHANGED <<line, ienable, alt_irq_active, handler, context, pc, status, arg>>

\* The inner loop: the first bit that is set.
first == CHOOSE i \in active : \A j \in active : i <= j

Dispatch ==
  /\ serving = ALT_NIRQ /\ active # {}
  /\ serving' = first
  /\ UNCHANGED <<line, pie, ienable, alt_irq_active, handler, context, active,
                 pc, status, arg>>

\* The handler has satisfied its device and returned; the outer loop reads again
\* what is pending.
Served ==
  /\ serving \in Irq
  /\ line' = line \ {serving}
  /\ active' = line' \cap ienable
  /\ serving' = ALT_NIRQ
  /\ UNCHANGED <<pie, ienable, alt_irq_active, handler, context, pc, status, arg>>

\* Nothing is pending: eret restores the status register.
Leave ==
  /\ serving = ALT_NIRQ /\ active = {}
  /\ serving' = NULL
  /\ pie' = TRUE
  /\ UNCHANGED <<line, ienable, alt_irq_active, handler, context, active,
                 pc, status, arg>>
-------------------------------------------------------------------------------
\* A step of the program, which is in the call at this label.
at(label) == serving = NULL /\ pc = label

alt_irq_disable_all == status' = pie /\ pie' = FALSE

alt_irq_enable_all(irq_context) == pie' = irq_context

\* Both change the copy and the register with interrupts disabled, and leave
\* status.PIE as it was.
alt_irq_enable(id) ==
  /\ alt_irq_active' = alt_irq_active \cup {id}
  /\ ienable' = alt_irq_active'

alt_irq_disable(id) ==
  /\ alt_irq_active' = alt_irq_active \ {id}
  /\ ienable' = alt_irq_active'

\* alt_ic_irq_enable and alt_ic_irq_disable, which are these and return 0.
Switch(id) ==
  /\ at("out")
  /\ handler[id] # NULL
  /\ alt_irq_enable(id) \/ alt_irq_disable(id)
  /\ UNCHANGED <<line, pie, handler, context, active, serving, pc, status, arg>>

\* Fault: the table is updated with interrupts enabled.
Register_open(id, isr) ==
  /\ at("out")
  /\ pc' = "handler" /\ arg' = [id |-> id, isr |-> isr]
  /\ status' = pie
  /\ UNCHANGED <<line, pie, ienable, alt_irq_active, handler, context, active, serving>>

\* alt_iic_isr_register(id, isr, context): interrupts are disabled,
Register(id, isr) ==
  /\ at("out")
  /\ pc' = "handler" /\ arg' = [id |-> id, isr |-> isr]
  /\ alt_irq_disable_all
  /\ UNCHANGED <<line, ienable, alt_irq_active, handler, context, active, serving>>

\* the handler and then its context entered,
RegisterHandler ==
  /\ at("handler")
  /\ handler' = [handler EXCEPT ![arg.id] = arg.isr]
  /\ pc' = "context"
  /\ UNCHANGED <<line, pie, ienable, alt_irq_active, context, active, serving, status, arg>>

RegisterContext ==
  /\ at("context")
  /\ context' = [context EXCEPT ![arg.id] = arg.isr]
  /\ pc' = "switch"
  /\ UNCHANGED <<line, pie, ienable, alt_irq_active, handler, active, serving, status, arg>>

\* the interrupt enabled, or disabled for a null handler,
RegisterSwitch ==
  /\ at("switch")
  /\ IF arg.isr # NULL THEN alt_irq_enable(arg.id) ELSE alt_irq_disable(arg.id)
  /\ pc' = "unlock"
  /\ UNCHANGED <<line, pie, handler, context, active, serving, status, arg>>

\* and interrupts put back as they were.
Unlock ==
  /\ at("unlock")
  /\ alt_irq_enable_all(status)
  /\ pc' = "out" /\ status' = FALSE /\ arg' = noArg
  /\ UNCHANGED <<line, ienable, alt_irq_active, handler, context, active, serving>>

Registering == RegisterHandler \/ RegisterContext \/ RegisterSwitch \/ Unlock
-------------------------------------------------------------------------------
\* alt_iic_isr_register.c:85-88: no interrupt finds the table inconsistent.  The
\* handler that is called is the one registered, with its own context, also when
\* an interrupt comes in the middle of a registration or of its removal.
TableWhole ==
  serving \in Irq => handler[serving] # NULL /\ context[serving] = handler[serving]
===============================================================================

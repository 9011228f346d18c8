SPECIFICATION Spec
CONSTANTS
  Alarm = {a1, a2}
  Head = Head
  NULL = NULL
  ALT_NIRQ = 2
  clock = 0
  alt_tick = alt_tick
  Isr = {alt_tick, uart_irq}
  TickLimit = 4
INVARIANTS TableWhole ListWhole
PROPERTIES ImplementsTimer FirstServed

-------------------------------- MODULE AltTick --------------------------------
(***************************************************************************)
(* The alarms of the HAL: HAL/src/alt_tick.c, alt_alarm_start.c and the    *)
(* list of inc/sys/alt_llist.h, under src/HashComp/software/Rs232Comm_bsp. *)
(* The driver of the system clock, which this board support package leaves *)
(* out, calls alt_tick from its interrupt; the program and the callbacks   *)
(* start and stop alarms.                                                  *)
(***************************************************************************)
EXTENDS AltIrq, Integers

CONSTANTS
  Alarm,
  Head,         \* alt_alarm_list
  clock,        \* the interrupt of the system clock
  alt_tick,     \* its handler
  TickLimit     \* where the tick counter rolls over: 2^32

ASSUME TickAssumption ==
  /\ TickLimit \in Nat \ {0, 1}
  /\ Head \notin Alarm /\ NULL \notin Alarm \cup {Head}
  /\ clock \in Irq /\ alt_tick \in Isr

VARIABLES
  alt_nticks,
  next, previous,   \* the links of the list; NULL in an alarm never started
  time, rollover,   \* the fields of an alarm
  alarm, following, \* alt_tick: alarm and next; NULL outside it
  calling,          \* the callback of alarm runs
  broken            \* history: a caller has broken a rule (see Start, CallStart
                    \* and CallStop)

list == <<next, previous>>
fields == <<time, rollover>>
tick == <<alarm, following, calling>>
tickVars == <<alt_nticks, list, fields, tick, broken>>
vars == <<irqVars, tickVars>>

Tick == 0..(TickLimit - 1)
plus(m, n) == (m + n) % TickLimit

\* After alt_sysclk_init and the registration of the clock's interrupt.
Init ==
  /\ InitIrq([i \in Irq |-> IF i = clock THEN alt_tick ELSE NULL])
  /\ alt_nticks = 0
  /\ next = [x \in Alarm \cup {Head} |-> IF x = Head THEN Head ELSE NULL]
  /\ previous = next
  /\ time = [a \in Alarm |-> 0] /\ rollover = [a \in Alarm |-> FALSE]
  /\ alarm = NULL /\ following = NULL /\ calling = FALSE
  /\ broken = FALSE
-------------------------------------------------------------------------------
alt_llist_insert(entry) ==
  /\ next' = [next EXCEPT ![Head] = entry, ![entry] = next[Head]]
  /\ previous' = [previous EXCEPT ![next[Head]] = entry, ![entry] = Head]

\* Fault: the entry keeps its links.
alt_llist_remove_keeps(entry) ==
  /\ next' = [next EXCEPT ![previous[entry]] = next[entry]]
  /\ previous' = [previous EXCEPT ![next[entry]] = previous[entry]]

\* The entry then points to itself, so that removing it again is harmless.
alt_llist_remove(entry) ==
  /\ next' = [next EXCEPT ![previous[entry]] = next[entry], ![entry] = entry]
  /\ previous' = [previous EXCEPT ![next[entry]] = previous[entry], ![entry] = entry]

\* Fault: the flag of the last time is left.
setTime_plain(a, n) ==
  /\ time' = [time EXCEPT ![a] = plus(n, alt_nticks + 1)]
  /\ rollover' = [rollover EXCEPT ![a] = FALSE]

\* The time of an alarm that is started, and whether the counter rolls over
\* before it.
setTime(a, n) ==
  /\ time' = [time EXCEPT ![a] = plus(n, alt_nticks + 1)]
  /\ rollover' = [rollover EXCEPT ![a] = time'[a] < alt_nticks]

\* On the list.
running(a) == next[a] \notin {NULL, a}
-------------------------------------------------------------------------------
\* alt_alarm_start of an alarm that is not running.  The longest time there is
\* breaks a rule that nobody wrote down: it comes out as no time at all.
Start(a, n) ==
  /\ at("out") /\ ~running(a)
  /\ pc' = "time" /\ arg' = [alarm |-> a, nticks |-> n]
  /\ alt_irq_disable_all
  /\ broken' = (broken \/ n = TickLimit - 1)
  /\ UNCHANGED <<line, ienable, alt_irq_active, handler, context, active, serving,
                 alt_nticks, list, fields, tick>>

StartTime ==
  /\ at("time")
  /\ setTime(arg.alarm, arg.nticks)
  /\ pc' = "insert"
  /\ UNCHANGED <<controller, status, arg, alt_nticks, list, tick, broken>>

StartInsert ==
  /\ at("insert")
  /\ alt_llist_insert(arg.alarm)
  /\ pc' = "unlock"
  /\ UNCHANGED <<controller, status, arg, alt_nticks, fields, tick, broken>>

\* alt_alarm_stop of an alarm that was started once.
Stop(a) ==
  /\ at("out") /\ next[a] # NULL
  /\ pc' = "remove" /\ arg' = [alarm |-> a]
  /\ alt_irq_disable_all
  /\ UNCHANGED <<line, ienable, alt_irq_active, handler, context, active, serving,
                 tickVars>>

StopRemove ==
  /\ at("remove")
  /\ alt_llist_remove(arg.alarm)
  /\ pc' = "unlock"
  /\ UNCHANGED <<controller, status, arg, alt_nticks, fields, tick, broken>>
-------------------------------------------------------------------------------
\* alt_tick is called: the counter moves, and the walk through the list begins.
TickBegin ==
  /\ serving = clock /\ alarm = NULL
  /\ alt_nticks' = plus(alt_nticks, 1)
  /\ alarm' = next[Head]
  /\ UNCHANGED <<irqVars, list, fields, following, calling, broken>>

\* What the flag of an alarm is from here on.
rolledOver(a) == rollover[a] /\ alt_nticks # 0

\* An alarm is looked at, and its callback called when its time has come.
Visit ==
  /\ alarm \in Alarm /\ ~calling
  /\ following' = next[alarm]
  /\ rollover' = [rollover EXCEPT ![alarm] = rolledOver(alarm)]
  /\ calling' = (time[alarm] <= alt_nticks /\ ~rollover'[alarm])
  /\ alarm' = IF calling' THEN alarm ELSE following'
  /\ UNCHANGED <<irqVars, alt_nticks, list, time, broken>>

\* The callback starts an alarm; it breaks a rule when that is its own one, to
\* which alt_tick adds what the callback returns.
CallStart(a, n) ==
  /\ calling /\ ~running(a)
  /\ setTime(a, n)
  /\ alt_llist_insert(a)
  /\ broken' = (broken \/ a = alarm \/ n = TickLimit - 1)
  /\ UNCHANGED <<irqVars, alt_nticks, tick>>

\* It stops an alarm; it breaks a rule when that is the one alt_tick has noted
\* as the next to look at: from there the walk no longer finds the list.
CallStop(a) ==
  /\ calling /\ next[a] # NULL
  /\ alt_llist_remove(a)
  /\ broken' = (broken \/ a = following)
  /\ UNCHANGED <<irqVars, alt_nticks, fields, tick>>

\* Fault: the next alarm is looked up after the callback.
goOn_late == alarm' = next'[alarm]

goOn == alarm' = following

\* It returns the ticks until the next time, or zero to be deactivated.
CallReturn(n) ==
  /\ calling
  /\ calling' = FALSE
  /\ IF n = 0
       THEN alt_llist_remove(alarm) /\ UNCHANGED fields
       ELSE /\ time' = [time EXCEPT ![alarm] = plus(time[alarm], n)]
            /\ rollover' = [rollover EXCEPT ![alarm] =
                              time'[alarm] < alt_nticks \/ rollover[alarm]]
            /\ UNCHANGED list
  /\ goOn
  /\ UNCHANGED <<irqVars, alt_nticks, following, broken>>

\* The walk is back at the head, and the clock's interrupt served.
TickEnd ==
  /\ alarm = Head
  /\ Served
  /\ alarm' = NULL /\ following' = NULL
  /\ UNCHANGED <<alt_nticks, list, fields, calling, broken>>

\* Another interrupt is served.
Other == serving \in Irq \ {clock} /\ Served /\ UNCHANGED tickVars
-------------------------------------------------------------------------------
Handling ==
  \/ (Enter \/ Dispatch \/ Leave) /\ UNCHANGED tickVars
  \/ Other
  \/ TickBegin \/ Visit \/ (\E n \in Tick : CallReturn(n)) \/ TickEnd

Locked ==
  \/ Registering /\ UNCHANGED tickVars
  \/ StartTime \/ StartInsert \/ StopRemove

Next ==
  \/ (\E i \in Irq : Raise(i)) /\ UNCHANGED tickVars
  \/ Handling \/ Locked
  \/ (\E i \in Irq \ {clock} : Switch(i) \/ \E isr \in Isr \cup {NULL} : Register(i, isr))
       /\ UNCHANGED tickVars
  \/ \E a \in Alarm :
       Stop(a) \/ CallStop(a) \/ \E n \in Tick : Start(a, n) \/ CallStart(a, n)

\* Handlers and callbacks return, and the program goes on with a call it has
\* made.  A program that disables interrupts again and again cannot keep one
\* out: the processor takes it at the first instruction with status.PIE set.
Spec ==
  /\ Init /\ [][Next]_vars
  /\ WF_vars(Handling) /\ WF_vars(Locked)
  /\ SF_vars(Enter /\ UNCHANGED tickVars)
-------------------------------------------------------------------------------
\* The list is whole whoever inserts and removes: the links are each other's
\* inverses, and from the head each alarm that is running is reached.
onList == {Head} \cup {a \in Alarm : running(a)}

ListWhole ==
  /\ \A x \in onList : /\ next[x] \in onList /\ previous[next[x]] = x
                       /\ previous[x] \in onList /\ next[previous[x]] = x
  /\ \A S \in SUBSET onList : Head \in S /\ (\A x \in S : next[x] \in S) => S = onList

\* alt_tick.c:117-120: alarms come neither too early nor too late, roll-over or
\* not, whatever is started and stopped in between, callbacks included.
left ==
  [a \in Alarm |->
     IF ~running(a) THEN -TickLimit - 1
     ELSE time[a] - alt_nticks
            + (IF rollover[a] /\ alt_nticks # 0 THEN TickLimit ELSE 0)]

Countdown == INSTANCE Timer WITH Ticks <- Tick, Off <- -TickLimit - 1

ImplementsTimer == Countdown!Behaviour

\* The walk through a list that callbacks change comes to its end, and the first
\* interrupt is served as often as it asks.
FirstServed == 0 \in alt_irq_pending ~> 0 \notin alt_irq_pending \/ broken
===============================================================================

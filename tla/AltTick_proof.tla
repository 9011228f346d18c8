---------------------------- MODULE AltTick_proof ----------------------------
(***************************************************************************)
(* For every number of interrupts, set of alarms and limit of the tick     *)
(* counter: no interrupt finds the table of handlers inconsistent, the     *)
(* list of alarms is whole whoever changes it, and as long as callers keep *)
(* the rules the alarms are the abstract timer.                            *)
(*                                                                         *)
(* The timer rests on where an alarm that is due is. Outside alt_tick none *)
(* is (NoneDue), so that the next tick may be counted; in alt_tick each    *)
(* one lies on the path from the place where the walk goes on back to the  *)
(* head (WalkOK). An insertion at the head, the removal of any entry but   *)
(* that one, and the step from an entry to the next keep such a path       *)
(* (PathInsert, PathRemove, PathNext), and the head has none               *)
(* (PathFromHead). A path is a property of the sets that are closed under  *)
(* the links, so nothing is proved by induction on the list.               *)
(***************************************************************************)
EXTENDS AltTick, WellFoundedInduction, TLAPS

USE IrqAssumption, TickAssumption
-------------------------------------------------------------------------------
Node == Alarm \cup {Head}
labels == {"out", "handler", "context", "switch", "unlock", "time", "insert", "remove"}

\* The type invariant; a call has the arguments of its kind.
TypeOK ==
  /\ line \subseteq Irq /\ ienable \subseteq Irq /\ active \subseteq Irq
  /\ alt_irq_active = ienable
  /\ pie \in BOOLEAN /\ status \in BOOLEAN
  /\ handler \in [Irq -> Isr \cup {NULL}] /\ context \in [Irq -> Isr \cup {NULL}]
  /\ serving \in Irq \cup {ALT_NIRQ, NULL}
  /\ pc \in labels
  /\ pc \in {"handler", "context", "switch"} =>
       arg.id \in Irq /\ arg.isr \in Isr \cup {NULL}
  /\ pc \in {"time", "insert", "remove"} => arg.alarm \in Alarm
  /\ pc \in {"time", "insert"} => arg.nticks \in Tick
  /\ alt_nticks \in Tick
  /\ next \in [Node -> Node \cup {NULL}] /\ previous \in [Node -> Node \cup {NULL}]
  /\ time \in [Alarm -> Tick] /\ rollover \in [Alarm -> BOOLEAN]
  /\ alarm \in Node \cup {NULL} /\ following \in Node \cup {NULL}
  /\ calling \in BOOLEAN /\ broken \in BOOLEAN

\* Interrupts are disabled in a call that has begun and in alt_irq_handler, so
\* the one never runs while the other does, and alt_tick is under way only in the
\* clock's interrupt.
LockOK ==
  /\ pc # "out" => ~pie /\ serving = NULL
  /\ serving # NULL => ~pie
  /\ alarm # NULL => serving = clock
  /\ calling => alarm \in Alarm /\ following \in Node

\* What is pending and served is enabled, and what is enabled has its handler and
\* context, but for the interrupt whose registration is half done.
TableOK ==
  /\ serving # NULL => active \subseteq ienable
  /\ serving \in Irq => serving \in ienable
  /\ \A i \in Irq : context[i] = handler[i] \/ (pc = "context" /\ i = arg.id)
  /\ \A i \in ienable :
       handler[i] # NULL \/ (pc \in {"context", "switch"} /\ i = arg.id)
  /\ pc \in {"context", "switch"} => handler[arg.id] = arg.isr

\* An alarm off the list points to itself both ways, or nowhere before its first
\* start; alt_tick holds alarms that were started once, and so does a call of
\* alt_alarm_stop.
ListOK ==
  /\ ListWhole
  /\ \A a \in Alarm \ onList : previous[a] = next[a]
  /\ {alarm, following} \cap Alarm \subseteq {a \in Alarm : next[a] # NULL}
  /\ pc \in {"time", "insert"} => ~running(arg.alarm)
  /\ pc = "remove" => next[arg.alarm] # NULL

\* Where alt_tick goes on.
ahead == IF calling THEN following ELSE alarm

\* From x the links nx lead to b without a detour through the head.
Path(nx, on, x, b) ==
  \A S \in SUBSET on : x \in S /\ (\A y \in S \ {Head} : nx[y] \in S) => b \in S

\* alt_tick has to look at b before the next tick: its time has come, or the
\* counter has rolled over and its flag is still to be cleared.
due(b) == running(b) /\ (left[b] = 0 \/ (alt_nticks = 0 /\ rollover[b]))

\* The call of alt_alarm_start has computed the time it was asked for.
StartOK ==
  /\ pc \in {"time", "insert"} => arg.nticks # TickLimit - 1
  /\ pc = "insert" =>
       /\ time[arg.alarm] = plus(arg.nticks, alt_nticks + 1)
       /\ rollover[arg.alarm] = (time[arg.alarm] < alt_nticks)

\* The callback that runs is due now, and the walk goes on elsewhere.
CallbackOK ==
  calling => time[alarm] = alt_nticks /\ ~rollover[alarm] /\ following # alarm

\* No alarm that is running is late.
LeftOK == \A a \in Alarm : running(a) => left[a] >= 0

\* An alarm that is due is the one whose callback runs, or alt_tick still comes
\* to it; outside alt_tick none is due.
WalkOK ==
  /\ alarm # NULL => ahead \in onList
  /\ \A b \in Alarm : due(b) =>
       alarm # NULL /\ ((calling /\ b = alarm) \/ Path(next, onList, ahead, b))

TimeOK == ~broken => StartOK /\ CallbackOK /\ LeftOK /\ WalkOK

AlarmInv == TypeOK /\ LockOK /\ TableOK /\ ListOK /\ TimeOK

-------------------------------------------------------------------------------
\* The first of the pending interrupts is one of them.
LEMMA FirstPending ==
  ASSUME active \subseteq Irq, active # {}
  PROVE  first \in active
<1> DEFINE R == {ss \in Nat \X Nat : ss[1] < ss[2]}
<1>1. IsWellFoundedOn(R, Nat)
  BY NatLessThanWellFounded DEF OpToRel
<1>2. active \subseteq Nat
  BY DEF Irq
<1> HIDE DEF R
<1>3. PICK i \in active : \A j \in active : ~(<<j, i>> \in R)
  BY <1>1, <1>2, WFMin
<1>4. \A j \in active : ~(j < i)
  BY <1>2, <1>3 DEF R
<1>5. \A j \in active : i <= j
  BY <1>2, <1>4
<1> QED BY <1>5 DEF first

LEMMA TypeStep ==
  ASSUME AlarmInv, [Next]_vars
  PROVE  TypeOK'
<1> USE DEF AlarmInv, TypeOK, list, fields, tick, tickVars, irqVars, controller, labels
<1>1. CASE (\E i \in Irq : Raise(i)) /\ UNCHANGED tickVars
  BY <1>1 DEF Raise
<1>2. CASE (Enter \/ Dispatch \/ Leave) /\ UNCHANGED tickVars
  <2>1. CASE Enter
    BY <1>2, <2>1, ZenonT(60) DEF Enter, alt_irq_pending
  <2>2. CASE Dispatch
    BY <1>2, <2>2, FirstPending, ZenonT(60) DEF Dispatch
  <2>3. CASE Leave
    BY <1>2, <2>3 DEF Leave
  <2> QED BY <1>2, <2>1, <2>2, <2>3
<1>3. CASE Other
  BY <1>3 DEF Other, Served
<1>4. CASE TickEnd
  BY <1>4 DEF TickEnd, Served
<1>5. CASE TickBegin
  <2>1. plus(alt_nticks, 1) \in Tick
    BY DEF plus, Tick
  <2>2. next[Head] \in Node \cup {NULL}
    BY DEF Node
  <2> QED BY <1>5, <2>1, <2>2 DEF TickBegin
<1>6. CASE Visit
  <2>1. next[alarm] \in Node \cup {NULL}
    BY <1>6 DEF Visit, Node
  <2>2. rollover' \in [Alarm -> BOOLEAN] /\ calling' \in BOOLEAN
    BY <1>6 DEF Visit, rolledOver
  <2>3. alarm' \in Node \cup {NULL} /\ following' \in Node \cup {NULL}
    BY <1>6, <2>1 DEF Visit
  <2> QED BY <1>6, <2>2, <2>3 DEF Visit
<1>7. ASSUME NEW n \in Tick, CallReturn(n) PROVE TypeOK'
  <2>1. alarm \in Alarm
    BY <1>7 DEF CallReturn, LockOK
  <2>2. plus(time[alarm], n) \in Tick
    BY <1>7, <2>1 DEF plus, Tick
  <2>3. next' \in [Node -> Node \cup {NULL}] /\ previous' \in [Node -> Node \cup {NULL}]
    BY <1>7, <2>1 DEF CallReturn, alt_llist_remove, Node
  <2>4. time' \in [Alarm -> Tick]
    BY <1>7, <2>1, <2>2 DEF CallReturn
  <2>5. rollover' \in [Alarm -> BOOLEAN]
    <3>1. (time'[alarm] < alt_nticks \/ rollover[alarm]) \in BOOLEAN
      OBVIOUS
    <3> QED BY <1>7, <2>1, <3>1 DEF CallReturn
  <2> QED BY <1>7, <2>3, <2>4, <2>5, ZenonT(60) DEF CallReturn, goOn
<1>8. CASE Registering /\ UNCHANGED tickVars
  <2>1. CASE RegisterHandler
    BY <1>8, <2>1 DEF RegisterHandler, at
  <2>2. CASE RegisterContext
    BY <1>8, <2>2 DEF RegisterContext, at
  <2>3. CASE RegisterSwitch
    BY <1>8, <2>3 DEF RegisterSwitch, at, alt_irq_enable, alt_irq_disable
  <2>4. CASE Unlock
    BY <1>8, <2>4 DEF Unlock, at, alt_irq_enable_all
  <2> QED BY <1>8, <2>1, <2>2, <2>3, <2>4 DEF Registering
<1>9. CASE StartTime
  <2>1. plus(arg.nticks, alt_nticks + 1) \in Tick /\ arg.alarm \in Alarm
    BY <1>9 DEF StartTime, at, plus, Tick
  <2>2. time' \in [Alarm -> Tick] /\ rollover' \in [Alarm -> BOOLEAN]
    BY <1>9, <2>1 DEF StartTime, setTime
  <2> QED BY <1>9, <2>2 DEF StartTime, at
<1>10. CASE StartInsert
  <2>1. next' \in [Node -> Node \cup {NULL}] /\ previous' \in [Node -> Node \cup {NULL}]
    BY <1>10 DEF StartInsert, at, alt_llist_insert, Node
  <2> QED BY <1>10, <2>1 DEF StartInsert, at
<1>11. CASE StopRemove
  <2>1. next' \in [Node -> Node \cup {NULL}] /\ previous' \in [Node -> Node \cup {NULL}]
    BY <1>11 DEF StopRemove, at, alt_llist_remove, Node
  <2> QED BY <1>11, <2>1 DEF StopRemove, at
<1>12. ASSUME NEW i \in Irq \ {clock}, UNCHANGED tickVars,
              Switch(i) \/ \E isr \in Isr \cup {NULL} : Register(i, isr)
       PROVE  TypeOK'
  <2>1. CASE Switch(i)
    BY <1>12, <2>1 DEF Switch, alt_irq_enable, alt_irq_disable, at
  <2>2. ASSUME NEW isr \in Isr \cup {NULL}, Register(i, isr) PROVE TypeOK'
    BY <1>12, <2>2 DEF Register, at, alt_irq_disable_all
  <2> QED BY <1>12, <2>1, <2>2
<1>13. ASSUME NEW a \in Alarm, Stop(a) PROVE TypeOK'
  BY <1>13 DEF Stop, at, alt_irq_disable_all
<1>14. ASSUME NEW a \in Alarm, CallStop(a) PROVE TypeOK'
  <2>1. next' \in [Node -> Node \cup {NULL}] /\ previous' \in [Node -> Node \cup {NULL}]
    BY <1>14 DEF CallStop, alt_llist_remove, Node
  <2> QED BY <1>14, <2>1 DEF CallStop
<1>15. ASSUME NEW a \in Alarm, NEW n \in Tick, Start(a, n) PROVE TypeOK'
  BY <1>15 DEF Start, at, alt_irq_disable_all
<1>16. ASSUME NEW a \in Alarm, NEW n \in Tick, CallStart(a, n) PROVE TypeOK'
  <2>1. next' \in [Node -> Node \cup {NULL}] /\ previous' \in [Node -> Node \cup {NULL}]
    BY <1>16 DEF CallStart, alt_llist_insert, Node
  <2>2. plus(n, alt_nticks + 1) \in Tick
    BY DEF plus, Tick
  <2>3. time' \in [Alarm -> Tick] /\ rollover' \in [Alarm -> BOOLEAN]
    BY <1>16, <2>2 DEF CallStart, setTime
  <2> QED BY <1>16, <2>1, <2>3 DEF CallStart
<1>17. CASE UNCHANGED vars
  BY <1>17 DEF vars
<1> QED BY <1>1, <1>2, <1>3, <1>4, <1>5, <1>6, <1>7, <1>8, <1>9, <1>10, <1>11, <1>12,
           <1>13, <1>14, <1>15, <1>16, <1>17 DEF Next, Handling, Locked
-------------------------------------------------------------------------------
\* A step of the program is taken outside a handler, and a call that has begun
\* keeps interrupts disabled until it ends; a handler is entered with interrupts
\* enabled, and none is entered in it.
LEMMA LockStep ==
  ASSUME AlarmInv, [Next]_vars
  PROVE  LockOK'
<1> USE DEF AlarmInv, TypeOK, LockOK, list, fields, tick, tickVars, irqVars, controller
<1>0. clock # NULL /\ clock # ALT_NIRQ /\ ALT_NIRQ # NULL /\ \A i \in Irq : i # NULL
  BY DEF Irq
<1>1. CASE (\E i \in Irq : Raise(i)) /\ UNCHANGED tickVars
  BY <1>1 DEF Raise
<1>2. CASE (Enter \/ Dispatch \/ Leave) /\ UNCHANGED tickVars
  BY <1>0, <1>2 DEF Enter, Dispatch, Leave
<1>3. CASE Other
  BY <1>0, <1>3 DEF Other, Served
<1>4. CASE TickEnd
  BY <1>0, <1>4 DEF TickEnd, Served
<1>5. CASE TickBegin
  BY <1>5 DEF TickBegin
<1>6. CASE Visit
  <2>1. next[alarm] \in Node
    BY <1>6 DEF Visit, ListOK, Node
  <2> QED BY <1>6, <2>1 DEF Visit
<1>7. ASSUME NEW n \in Tick, CallReturn(n) PROVE LockOK'
  BY <1>7 DEF CallReturn, goOn
<1>8. CASE (Registering \/ StartTime \/ StartInsert \/ StopRemove) /\ UNCHANGED tick
  BY <1>0, <1>8 DEF Registering, RegisterHandler, RegisterContext, RegisterSwitch, Unlock,
    StartTime, StartInsert, StopRemove, at, alt_irq_enable_all
<1>9. CASE (StartTime \/ StartInsert \/ StopRemove)
  BY <1>8, <1>9 DEF StartTime, StartInsert, StopRemove
<1>10. ASSUME NEW i \in Irq \ {clock}, UNCHANGED tickVars,
              Switch(i) \/ \E isr \in Isr \cup {NULL} : Register(i, isr)
       PROVE  LockOK'
  BY <1>10 DEF Switch, Register, at, alt_irq_disable_all
<1>11. ASSUME NEW a \in Alarm, Stop(a) PROVE LockOK'
  BY <1>11 DEF Stop, at, alt_irq_disable_all
<1>12. ASSUME NEW a \in Alarm, CallStop(a) PROVE LockOK'
  BY <1>12 DEF CallStop
<1>13. ASSUME NEW a \in Alarm, NEW n \in Tick, Start(a, n) PROVE LockOK'
  BY <1>13 DEF Start, at, alt_irq_disable_all
<1>14. ASSUME NEW a \in Alarm, NEW n \in Tick, CallStart(a, n) PROVE LockOK'
  BY <1>14 DEF CallStart
<1>15. CASE UNCHANGED vars
  BY <1>15 DEF vars
<1> QED BY <1>1, <1>2, <1>3, <1>4, <1>5, <1>6, <1>7, <1>8, <1>9, <1>10, <1>11, <1>12,
           <1>13, <1>14, <1>15 DEF Next, Handling, Locked
-------------------------------------------------------------------------------
\* Outside a registration every interrupt has its own context, and each one that
\* is enabled has a handler; the registration that is under way is of one only.
LEMMA TableStep ==
  ASSUME AlarmInv, [Next]_vars
  PROVE  TableOK'
<1> USE DEF AlarmInv, TableOK, tick, tickVars, irqVars, controller
<1>0. /\ ALT_NIRQ \notin Irq /\ NULL \notin Irq /\ ALT_NIRQ # NULL
      /\ serving # NULL => pc = "out"
      /\ active \subseteq Irq /\ ienable \subseteq Irq
      /\ handler \in [Irq -> Isr \cup {NULL}] /\ context \in [Irq -> Isr \cup {NULL}]
      /\ pc \in {"handler", "context", "switch"} =>
           arg.id \in Irq /\ arg.isr \in Isr \cup {NULL}
  BY DEF Irq, TypeOK, LockOK
<1>1. CASE /\ UNCHANGED <<ienable, handler, context, active, serving>>
           /\ pc \notin {"context", "switch"} /\ pc' \notin {"context", "switch"}
  BY <1>1
<1>2. CASE UNCHANGED <<ienable, handler, context, active, serving, pc, arg>>
  BY <1>2
<1>3. CASE Enter
  BY <1>0, <1>3 DEF Enter, alt_irq_pending
<1>4. CASE Dispatch
  BY <1>0, <1>4, FirstPending DEF Dispatch
<1>5. CASE Leave
  BY <1>0, <1>5 DEF Leave
<1>6. CASE Served
  BY <1>0, <1>6 DEF Served
<1>7. CASE RegisterHandler
  BY <1>0, <1>7 DEF RegisterHandler, at
<1>8. CASE RegisterContext
  BY <1>0, <1>8 DEF RegisterContext, at
<1>9. CASE RegisterSwitch
  <2>1. /\ ienable' \subseteq ienable \cup {arg.id}
        /\ arg.isr = NULL => arg.id \notin ienable'
    BY <1>9 DEF RegisterSwitch, alt_irq_enable, alt_irq_disable, TypeOK
  <2> QED BY <1>0, <1>9, <2>1 DEF RegisterSwitch, at
<1>10. ASSUME NEW i \in Irq, Switch(i) PROVE TableOK'
  <2>1. ienable' \subseteq ienable \cup {i} /\ handler[i] # NULL
    BY <1>10 DEF Switch, alt_irq_enable, alt_irq_disable, TypeOK
  <2> QED BY <1>0, <1>10, <2>1 DEF Switch, at
<1>11. ASSUME NEW i, NEW isr, Register(i, isr) PROVE TableOK'
  BY <1>1, <1>11 DEF Register, at
<1>12. CASE \/ (\E i \in Irq : Raise(i)) \/ TickBegin \/ Visit
            \/ (\E n \in Tick : CallReturn(n)) \/ UNCHANGED vars
            \/ (\E a \in Alarm : CallStop(a) \/ \E n \in Tick : CallStart(a, n))
  BY <1>2, <1>12 DEF Raise, TickBegin, Visit, CallReturn, CallStop, CallStart, vars
<1>13. CASE \/ Unlock \/ StartTime \/ StartInsert \/ StopRemove
            \/ (\E a \in Alarm : Stop(a) \/ \E n \in Tick : Start(a, n))
  BY <1>1, <1>13 DEF Unlock, StartTime, StartInsert, StopRemove, Stop, Start, at
<1> QED BY <1>3, <1>4, <1>5, <1>6, <1>7, <1>8, <1>9, <1>10, <1>11, <1>12, <1>13
        DEF Next, Handling, Locked, Registering, Other, TickEnd
-------------------------------------------------------------------------------
\* What alt_llist_insert does to a list that is whole.
LEMMA Insert ==
  ASSUME TypeOK, ListOK, NEW e \in Alarm, ~running(e), alt_llist_insert(e)
  PROVE  /\ onList' = onList \cup {e} /\ e \notin onList
         /\ next'[e] = next[Head] /\ next'[Head] = e
         /\ \A x \in Node \ {Head, e} : next'[x] = next[x]
         /\ next' \in [Node -> Node \cup {NULL}]
         /\ ListWhole'
         /\ \A a \in Alarm \ onList' : previous'[a] = next'[a]
         /\ \A x \in Node : next[x] # NULL => next'[x] # NULL
<1> DEFINE h == next[Head]
<1>0. /\ next \in [Node -> Node \cup {NULL}] /\ previous \in [Node -> Node \cup {NULL}]
      /\ onList \subseteq Node /\ Head \in onList /\ e \notin onList /\ e \in Node
      /\ e # NULL /\ e # Head /\ NULL \notin Node
  BY DEF TypeOK, onList, Node
<1>1. h \in onList /\ h # e /\ h # NULL
  BY <1>0 DEF ListOK, ListWhole, Node
<1>2. /\ next' = [next EXCEPT ![Head] = e, ![e] = h]
      /\ previous' = [previous EXCEPT ![h] = e, ![e] = Head]
  BY DEF alt_llist_insert
<1> HIDE DEF h
<1>3. /\ next'[Head] = e /\ next'[e] = h
      /\ \A x \in Node \ {Head, e} : next'[x] = next[x]
      /\ next' \in [Node -> Node \cup {NULL}]
  BY <1>0, <1>1, <1>2
<1>4. /\ previous'[h] = e /\ previous'[e] = Head
      /\ \A x \in Node \ {h, e} : previous'[x] = previous[x]
  BY <1>0, <1>1, <1>2
<1>5. onList' = onList \cup {e}
  BY <1>0, <1>1, <1>3 DEF onList, running, Node
<1>6. ASSUME NEW x \in onList'
      PROVE  /\ next'[x] \in onList' /\ previous'[next'[x]] = x
             /\ previous'[x] \in onList' /\ next'[previous'[x]] = x
  <2>1. CASE x = e
    BY <1>0, <1>1, <1>3, <1>4, <1>5, <2>1
  <2>2. CASE x # e
    <3>1. /\ x \in onList /\ next[x] \in onList /\ previous[next[x]] = x
          /\ previous[x] \in onList /\ next[previous[x]] = x
      BY <1>5, <2>2 DEF ListOK, ListWhole
    <3>2. x = Head => next'[x] = e /\ previous'[e] = x
      BY <1>3, <1>4
    <3>3. x # Head => next'[x] = next[x] /\ next[x] # h
      BY <1>0, <1>3, <2>2, <3>1 DEF h, ListOK, ListWhole
    <3>4. x = h => previous'[x] = e /\ next'[e] = x
      BY <1>3, <1>4
    <3>5. x # h => previous'[x] = previous[x] /\ previous[x] # Head
      BY <1>0, <1>4, <2>2, <3>1 DEF h
    <3>6. next[x] # e /\ previous[x] # e
      BY <1>0, <3>1
    <3> QED BY <1>0, <1>3, <1>4, <1>5, <3>1, <3>2, <3>3, <3>4, <3>5, <3>6
  <2> QED BY <2>1, <2>2
<1>7. ASSUME NEW S \in SUBSET onList', Head \in S, \A x \in S : next'[x] \in S
      PROVE  S = onList'
  <2> DEFINE T == S \ {e}
  <2>1. e \in S /\ h \in S
    BY <1>3, <1>7
  <2>2. ASSUME NEW x \in T PROVE next[x] \in T
    <3>1. x \in onList /\ next[x] \in onList
      BY <1>5, <2>2 DEF ListOK, ListWhole
    <3>2. next[x] \in S
      BY <1>0, <1>3, <1>7, <2>1, <2>2, <3>1 DEF h
    <3> QED BY <1>0, <3>1, <3>2
  <2>3. T \in SUBSET onList /\ Head \in T
    BY <1>0, <1>5, <1>7
  <2>4. T = onList
    BY <2>2, <2>3 DEF ListOK, ListWhole
  <2> QED BY <1>5, <2>1, <2>4
<1>8. ListWhole'
  BY <1>6, <1>7 DEF ListWhole
<1>9. ASSUME NEW a \in Alarm \ onList' PROVE previous'[a] = next'[a]
  BY <1>0, <1>1, <1>3, <1>4, <1>5, <1>9 DEF ListOK, Node
<1>10. \A x \in Node : next[x] # NULL => next'[x] # NULL
  BY <1>0, <1>1, <1>3
<1> QED BY <1>0, <1>3, <1>5, <1>8, <1>9, <1>10 DEF h

\* What alt_llist_remove does: an entry that is off the list already stays so,
\* and another one leaves the list as it was without it.
LEMMA Remove ==
  ASSUME TypeOK, ListOK, NEW e \in Alarm, next[e] # NULL, alt_llist_remove(e)
  PROVE  /\ onList' = onList \ {e}
         /\ next'[e] = e
         /\ e \in onList => next'[previous[e]] = next[e] /\ previous[e] \in onList \ {e}
         /\ \A x \in onList \ {e} : next[x] = e <=> x = previous[e]
         /\ \A x \in onList \ {e} : next[x] # e => next'[x] = next[x]
         /\ \A x \in Node \ onList : next'[x] = next[x]
         /\ next' \in [Node -> Node \cup {NULL}]
         /\ ListWhole'
         /\ \A a \in Alarm \ onList' : previous'[a] = next'[a]
         /\ \A x \in Node : next[x] # NULL => next'[x] # NULL
<1>0. /\ next \in [Node -> Node \cup {NULL}] /\ previous \in [Node -> Node \cup {NULL}]
      /\ onList \subseteq Node /\ Head \in onList /\ e \in Node
      /\ e # NULL /\ e # Head /\ NULL \notin Node
  BY DEF TypeOK, onList, Node
<1>1. CASE e \notin onList
  <2>1. next[e] = e /\ previous[e] = e
    BY <1>0, <1>1 DEF onList, running, ListOK
  <2>2. next' = next /\ previous' = previous
    BY <1>0, <2>1 DEF alt_llist_remove
  <2>3. onList' = onList
    BY <2>2 DEF onList, running
  <2>4. ListWhole'
    BY <2>2, <2>3 DEF ListOK, ListWhole
  <2>5. \A x \in onList : next[x] # e
    BY <1>1 DEF ListOK, ListWhole
  <2> QED BY <1>0, <1>1, <2>1, <2>2, <2>3, <2>4, <2>5 DEF ListOK
<1>2. CASE e \in onList
  <2> DEFINE p == previous[e]
             n == next[e]
  <2>1. /\ p \in onList /\ n \in onList /\ next[p] = e /\ previous[n] = e
        /\ n # e /\ p # e /\ n # NULL /\ p # NULL
    BY <1>0, <1>2 DEF ListOK, ListWhole, onList, running
  <2>2. /\ next' = [next EXCEPT ![p] = n, ![e] = e]
        /\ previous' = [previous EXCEPT ![n] = p, ![e] = e]
    BY DEF alt_llist_remove
  <2>3. \A x \in onList : (next[x] = e <=> x = p) /\ (previous[x] = e <=> x = n)
    BY <1>2 DEF ListOK, ListWhole
  <2> HIDE DEF p, n
  <2>4. /\ next'[e] = e /\ next'[p] = n
        /\ \A x \in Node \ {p, e} : next'[x] = next[x]
        /\ next' \in [Node -> Node \cup {NULL}]
    BY <1>0, <2>1, <2>2
  <2>5. /\ previous'[e] = e /\ previous'[n] = p
        /\ \A x \in Node \ {n, e} : previous'[x] = previous[x]
    BY <1>0, <2>1, <2>2
  \* Were n the same as p, with the head elsewhere, nothing would lead to them.
  <2>6. n = p => p = Head
    <3> SUFFICES ASSUME n = p, p # Head PROVE FALSE
      OBVIOUS
    <3> DEFINE S == onList \ {e, p}
    <3>1. ASSUME NEW x \in S PROVE next[x] \in S
      <4>1. next[x] \in onList /\ previous[next[x]] = x
        BY DEF ListOK, ListWhole
      <4>2. previous[p] = e
        BY <2>1
      <4> QED BY <2>3, <4>1, <4>2
    <3>2. S \in SUBSET onList /\ Head \in S
      BY <1>0
    <3>3. S = onList
      BY <3>1, <3>2 DEF ListOK, ListWhole
    <3> QED BY <1>2, <3>3
  <2>7. onList' = onList \ {e}
    <3>1. ASSUME NEW a \in Alarm, a # e PROVE running(a)' <=> running(a)
      <4>1. CASE a = p
        BY <1>0, <2>1, <2>4, <2>6, <4>1 DEF running, onList
      <4>2. CASE a # p
        BY <2>4, <3>1, <4>2 DEF running, Node
      <4> QED BY <4>1, <4>2
    <3>2. ~running(e)'
      BY <2>4 DEF running
    <3> QED BY <1>0, <3>1, <3>2 DEF onList
  <2>8. ASSUME NEW x \in onList'
        PROVE  /\ next'[x] \in onList' /\ previous'[next'[x]] = x
               /\ previous'[x] \in onList' /\ next'[previous'[x]] = x
    <3>1. /\ x \in onList /\ x # e /\ next[x] \in onList /\ previous[next[x]] = x
          /\ previous[x] \in onList /\ next[previous[x]] = x
      BY <2>7 DEF ListOK, ListWhole
    <3>2. /\ x = p => next'[x] = n /\ previous'[n] = x
          /\ x # p => next'[x] = next[x] /\ next[x] # e /\ next[x] # n
      BY <1>0, <2>1, <2>3, <2>4, <2>5, <3>1
    <3>3. /\ x = n => previous'[x] = p /\ next'[p] = x
          /\ x # n => previous'[x] = previous[x] /\ previous[x] # e /\ previous[x] # p
      BY <1>0, <2>1, <2>3, <2>4, <2>5, <3>1
    <3> QED BY <1>0, <2>1, <2>4, <2>5, <2>7, <3>1, <3>2, <3>3
  <2>9. ASSUME NEW S \in SUBSET onList', Head \in S, \A x \in S : next'[x] \in S
        PROVE  S = onList'
    <3>1. CASE p \in S
      <4> DEFINE T == S \cup {e}
      <4>1. ASSUME NEW x \in T PROVE next[x] \in T
        <5>1. CASE x = e
          BY <2>4, <2>9, <3>1, <5>1 DEF n
        <5>2. CASE x = p
          BY <2>1, <5>2
        <5>3. CASE x # e /\ x # p
          BY <1>0, <2>4, <2>7, <2>9, <4>1, <5>3
        <5> QED BY <5>1, <5>2, <5>3
      <4>2. T \in SUBSET onList /\ Head \in T
        BY <1>2, <2>7, <2>9
      <4>3. T = onList
        BY <4>1, <4>2 DEF ListOK, ListWhole
      <4> QED BY <2>7, <2>9, <4>3
    <3>2. CASE p \notin S
      <4>1. ASSUME NEW x \in S PROVE next[x] \in S
        BY <1>0, <2>4, <2>7, <2>9, <3>2, <4>1
      <4>2. S = onList
        BY <2>7, <2>9, <4>1 DEF ListOK, ListWhole
      <4> QED BY <2>1, <3>2, <4>2
    <3> QED BY <3>1, <3>2
  <2>10. ListWhole'
    BY <2>8, <2>9 DEF ListWhole
  <2>11. ASSUME NEW a \in Alarm \ onList' PROVE previous'[a] = next'[a]
    <3>1. CASE a = e
      BY <2>4, <2>5, <3>1
    <3>2. CASE a # e
      BY <1>0, <2>1, <2>4, <2>5, <2>7, <2>11, <3>2 DEF ListOK, Node
    <3> QED BY <3>1, <3>2
  <2>12. \A x \in Node \ onList : next'[x] = next[x]
    BY <1>2, <2>1, <2>4
  <2>13. \A x \in onList \ {e} : next[x] # e => next'[x] = next[x]
    BY <1>0, <2>3, <2>4
  <2>14. \A x \in Node : next[x] # NULL => next'[x] # NULL
    BY <1>0, <2>1, <2>4
  <2> QED BY <2>1, <2>3, <2>4, <2>7, <2>10, <2>11, <2>12, <2>13, <2>14 DEF p, n
<1> QED BY <1>1, <1>2
-------------------------------------------------------------------------------
\* The list stays whole, in a call with interrupts disabled and in a callback, and
\* alt_tick never holds an entry that was not on the list once.
LEMMA ListStep ==
  ASSUME AlarmInv, [Next]_vars
  PROVE  ListOK'
<1>0. /\ clock # NULL /\ NULL \notin Node /\ Alarm \subseteq Node /\ Head \in Node
      /\ next \in [Node -> Node \cup {NULL}]
      /\ calling => pc = "out" /\ serving = clock
      /\ alarm # NULL => pc = "out"
      /\ pc \in {"time", "insert", "remove"} => arg.alarm \in Alarm
  BY DEF Irq, Node, AlarmInv, TypeOK, LockOK
<1>1. CASE UNCHANGED <<list, alarm, following, pc, arg>>
  BY <1>1 DEF AlarmInv, ListOK, ListWhole, onList, running, list
<1>2. CASE UNCHANGED <<list, alarm, following>> /\ pc' \notin {"time", "insert", "remove"}
  BY <1>2 DEF AlarmInv, ListOK, ListWhole, onList, running, list
<1>3. ASSUME NEW x \in Node, next[x] # NULL
      PROVE  next[x] \in Node /\ next[next[x]] # NULL
  <2>1. CASE x \in onList
    BY <1>0, <1>3, <2>1 DEF AlarmInv, ListOK, ListWhole, onList, running, Node
  <2>2. CASE x \notin onList
    BY <1>3, <2>2 DEF onList, running, Node
  <2> QED BY <2>1, <2>2
<1>4. next[Head] # NULL
  BY <1>0 DEF AlarmInv, ListOK, ListWhole, onList, Node
<1>5. ASSUME NEW e \in Alarm,
             \/ alt_llist_insert(e) /\ ~running(e)
             \/ alt_llist_remove(e) /\ next[e] # NULL,
             alarm' \in {alarm, following}, following' = following,
             pc' \notin {"time", "insert", "remove"}
      PROVE  ListOK'
  <2>1. /\ ListWhole'
        /\ \A a \in Alarm \ onList' : previous'[a] = next'[a]
        /\ \A x \in Node : next[x] # NULL => next'[x] # NULL
    BY <1>5, Insert, Remove DEF AlarmInv
  <2> QED BY <1>0, <1>5, <2>1 DEF AlarmInv, ListOK
<1>6. CASE TickBegin \/ TickEnd
  BY <1>0, <1>3, <1>4, <1>6 DEF TickBegin, TickEnd, Served, irqVars, list,
    AlarmInv, ListOK, ListWhole, onList, running
<1>7. CASE Visit
  <2>1. alarm \in Node /\ next[alarm] # NULL /\ pc = "out"
    BY <1>0, <1>7 DEF Visit, AlarmInv, ListOK
  <2>2. /\ UNCHANGED list /\ pc' = "out"
        /\ following' = next[alarm] /\ alarm' \in {alarm, following'}
    BY <1>7, <2>1 DEF Visit, irqVars
  <2> QED BY <1>0, <1>3, <2>1, <2>2 DEF list, AlarmInv, ListOK, ListWhole, onList, running
<1>8. ASSUME NEW n \in Tick, CallReturn(n) PROVE ListOK'
  <2>1. /\ alarm \in Alarm /\ next[alarm] # NULL /\ pc' = "out" /\ UNCHANGED following
        /\ alarm' = following
    BY <1>0, <1>8 DEF CallReturn, goOn, irqVars, AlarmInv, LockOK, ListOK
  <2>2. CASE alt_llist_remove(alarm)
    BY <1>5, <2>1, <2>2
  <2>3. CASE UNCHANGED list
    BY <1>0, <2>1, <2>3 DEF list, AlarmInv, ListOK, ListWhole, onList, running
  <2> QED BY <1>8, <2>2, <2>3 DEF CallReturn
<1>9. CASE StartTime
  BY <1>0, <1>9 DEF StartTime, at, list, tick, AlarmInv, ListOK, ListWhole, onList, running
<1>10. CASE StartInsert
  <2>1. arg.alarm \in Alarm /\ alt_llist_insert(arg.alarm) /\ ~running(arg.alarm)
    BY <1>0, <1>10 DEF StartInsert, at, AlarmInv, ListOK
  <2>2. pc' = "unlock" /\ alarm' = alarm /\ following' = following
    BY <1>10 DEF StartInsert, tick
  <2> QED BY <1>5, <2>1, <2>2
<1>11. CASE StopRemove
  BY <1>0, <1>5, <1>11 DEF StopRemove, at, tick, AlarmInv, ListOK
<1>12. ASSUME NEW a \in Alarm, Stop(a) PROVE ListOK'
  BY <1>12 DEF Stop, tickVars, tick, list, AlarmInv, ListOK, ListWhole, onList, running
<1>13. ASSUME NEW a \in Alarm, NEW n \in Tick, Start(a, n) PROVE ListOK'
  BY <1>13 DEF Start, tick, list, AlarmInv, ListOK, ListWhole, onList, running
<1>14. ASSUME NEW a \in Alarm, CallStop(a) PROVE ListOK'
  BY <1>0, <1>5, <1>14 DEF CallStop, tick, irqVars
<1>15. ASSUME NEW a \in Alarm, NEW n \in Tick, CallStart(a, n) PROVE ListOK'
  <2>1. alt_llist_insert(a) /\ ~running(a)
    BY <1>15 DEF CallStart
  <2>2. pc' = "out" /\ alarm' = alarm /\ following' = following
    BY <1>0, <1>15 DEF CallStart, tick, irqVars
  <2> QED BY <1>5, <2>1, <2>2
<1>16. CASE (Enter \/ Dispatch \/ Leave \/ Registering \/ \E i \in Irq : Raise(i))
             /\ UNCHANGED tickVars
  BY <1>1, <1>2, <1>16 DEF Enter, Dispatch, Leave, Registering, RegisterHandler,
    RegisterContext, RegisterSwitch, Unlock, Raise, tickVars, tick
<1>17. CASE Other
  BY <1>1, <1>17 DEF Other, Served, tickVars, tick
<1>18. ASSUME NEW i \in Irq \ {clock}, UNCHANGED tickVars,
              Switch(i) \/ \E isr \in Isr \cup {NULL} : Register(i, isr)
       PROVE  ListOK'
  BY <1>1, <1>2, <1>18 DEF Switch, Register, tickVars, tick
<1>19. CASE UNCHANGED vars
  BY <1>1, <1>19 DEF vars, irqVars, tickVars, tick
<1> QED BY <1>6, <1>7, <1>8, <1>9, <1>10, <1>11, <1>12, <1>13, <1>14, <1>15, <1>16,
           <1>17, <1>18, <1>19 DEF Next, Handling, Locked
-------------------------------------------------------------------------------
\* The path to an entry lies in the list whatever is inserted at the head, and
\* whatever else is removed; from the head there is none.
LEMMA PathInsert ==
  ASSUME AlarmInv, NEW e \in Alarm, ~running(e), alt_llist_insert(e),
         NEW x \in onList, NEW b, Path(next, onList, x, b)
  PROVE  Path(next', onList', x, b)
<1> SUFFICES ASSUME NEW S \in SUBSET onList', x \in S, \A y \in S \ {Head} : next'[y] \in S
             PROVE  b \in S
  BY DEF Path
<1>1. /\ onList' = onList \cup {e} /\ e \notin onList /\ onList \subseteq Node
      /\ \A y \in Node \ {Head, e} : next'[y] = next[y]
  BY Insert DEF AlarmInv, onList, Node
<1>2. \A y \in S \ {e} : y # Head => next[y] \in S \ {e}
  BY <1>1 DEF AlarmInv, ListOK, ListWhole
<1>3. S \ {e} \in SUBSET onList /\ x \in S \ {e}
  BY <1>1
<1> QED BY <1>2, <1>3 DEF Path

LEMMA PathRemove ==
  ASSUME AlarmInv, NEW e \in Alarm, next[e] # NULL, alt_llist_remove(e),
         NEW x \in onList, NEW b, Path(next, onList, x, b), b # e, x # e
  PROVE  Path(next', onList', x, b)
<1> SUFFICES ASSUME NEW S \in SUBSET onList', x \in S, \A y \in S \ {Head} : next'[y] \in S
             PROVE  b \in S
  BY DEF Path
<1>1. /\ onList' = onList \ {e}
      /\ e \in onList => next'[previous[e]] = next[e] /\ previous[e] \in onList \ {e}
      /\ \A y \in onList \ {e} : next[y] = e <=> y = previous[e]
      /\ \A y \in onList \ {e} : next[y] # e => next'[y] = next[y]
  BY Remove DEF AlarmInv
<1>2. CASE e \in onList /\ previous[e] \in S \ {Head}
  <2>1. \A y \in (S \cup {e}) \ {Head} : next[y] \in S \cup {e}
    BY <1>1, <1>2
  <2>2. S \cup {e} \in SUBSET onList
    BY <1>1, <1>2
  <2> QED BY <2>1, <2>2 DEF Path
<1>3. CASE ~(e \in onList /\ previous[e] \in S \ {Head})
  <2>1. \A y \in onList : next[y] \in onList
    BY DEF AlarmInv, ListOK, ListWhole
  <2>2. \A y \in S \ {Head} : next[y] \in S
    BY <1>1, <1>3, <2>1
  <2>3. S \in SUBSET onList
    BY <1>1
  <2> QED BY <2>2, <2>3 DEF Path
<1> QED BY <1>2, <1>3

LEMMA PathNext ==
  ASSUME NEW x \in onList \ {Head}, NEW b, b # x, Path(next, onList, x, b)
  PROVE  Path(next, onList, next[x], b)
<1> SUFFICES ASSUME NEW S \in SUBSET onList, next[x] \in S, \A y \in S \ {Head} : next[y] \in S
             PROVE  b \in S
  BY DEF Path
<1>1. S \cup {x} \in SUBSET onList /\ \A y \in (S \cup {x}) \ {Head} : next[y] \in S \cup {x}
  OBVIOUS
<1> QED BY <1>1 DEF Path

LEMMA PathToAll ==
  ASSUME AlarmInv, NEW b \in Alarm, running(b)
  PROVE  Path(next, onList, next[Head], b)
<1> SUFFICES ASSUME NEW S \in SUBSET onList, next[Head] \in S, \A y \in S \ {Head} : next[y] \in S
             PROVE  b \in S
  BY DEF Path
<1>1. S \cup {Head} \in SUBSET onList /\ \A y \in S \cup {Head} : next[y] \in S \cup {Head}
  BY DEF onList
<1>2. S \cup {Head} = onList
  BY <1>1 DEF AlarmInv, ListOK, ListWhole
<1> QED BY <1>2 DEF onList

LEMMA PathFromHead ==
  ASSUME NEW b \in Alarm
  PROVE  ~Path(next, onList, Head, b)
<1>1. {Head} \in SUBSET onList /\ b # Head
  BY DEF onList
<1> QED BY <1>1 DEF Path
-------------------------------------------------------------------------------
\* The arithmetic of the times: modulo the limit, with the flag for the roll-over.
LEMMA StartArithmetic ==
  ASSUME NEW N \in Tick, NEW n \in Tick, n # TickLimit - 1
  PROVE  /\ plus(n, N + 1) \in Tick
         /\ plus(n, N + 1) < N => N # 0 /\ plus(n, N + 1) - N + TickLimit = n + 1
         /\ ~(plus(n, N + 1) < N) => plus(n, N + 1) - N = n + 1
<1>1. CASE n + N + 1 < TickLimit
  BY <1>1 DEF plus, Tick
<1>2. CASE n + N + 1 >= TickLimit
  <2>1. n + (N + 1) \in TickLimit..(2 * TickLimit - 1)
    BY <1>2 DEF Tick
  <2>2. plus(n, N + 1) = n + N + 1 - TickLimit
    BY <2>1 DEF plus, Tick
  <2> QED BY <1>2, <2>2 DEF Tick
<1> QED BY <1>1, <1>2 DEF Tick

LEMMA ReturnArithmetic ==
  ASSUME NEW N \in Tick, NEW n \in Tick, n # 0
  PROVE  /\ plus(N, n) \in Tick
         /\ plus(N, n) < N => N # 0 /\ plus(N, n) - N + TickLimit = n
         /\ ~(plus(N, n) < N) => plus(N, n) - N = n
<1>1. CASE N + n < TickLimit
  BY <1>1 DEF plus, Tick
<1>2. CASE N + n >= TickLimit
  <2>1. plus(N, n) = N + n - TickLimit
    BY <1>2 DEF plus, Tick
  <2> QED BY <1>2, <2>1 DEF Tick
<1> QED BY <1>1, <1>2 DEF Tick

LEMMA TickArithmetic ==
  ASSUME NEW N \in Tick
  PROVE  plus(N, 1) = IF N = TickLimit - 1 THEN 0 ELSE N + 1
BY DEF plus, Tick
-------------------------------------------------------------------------------
\* What the operations do to the ticks that are left.
Off == -TickLimit - 1

LEMMA LeftValue ==
  ASSUME TypeOK, NEW a \in Alarm
  PROVE  /\ left \in [Alarm -> Int]
         /\ ~running(a) => left[a] = Off
         /\ running(a) /\ rollover[a] /\ alt_nticks # 0
              => left[a] = time[a] - alt_nticks + TickLimit
         /\ running(a) /\ ~(rollover[a] /\ alt_nticks # 0)
              => left[a] = time[a] - alt_nticks
         /\ time[a] \in Tick /\ alt_nticks \in Tick
<1>1. \A b \in Alarm : time[b] \in Int /\ alt_nticks \in Int
  BY DEF TypeOK, Tick
<1> QED BY <1>1 DEF left, Off, TypeOK

LEMMA LeftSame ==
  ASSUME TypeOK, TypeOK', UNCHANGED <<next, alt_nticks>>,
         \A a \in Alarm : running(a) =>
           /\ time'[a] = time[a]
           /\ (rollover'[a] /\ alt_nticks # 0) <=> (rollover[a] /\ alt_nticks # 0)
  PROVE  left' = left
<1>1. \A a \in Alarm : running(a)' <=> running(a)
  BY DEF running
<1>2. \A a \in Alarm : left'[a] = left[a]
  BY <1>1 DEF left
<1> QED BY <1>2 DEF left

LEMMA LeftInsert ==
  ASSUME AlarmInv, TypeOK', NEW e \in Alarm, ~running(e), alt_llist_insert(e),
         NEW n \in Tick, n # TickLimit - 1, UNCHANGED alt_nticks,
         \A a \in Alarm \ {e} : time'[a] = time[a] /\ rollover'[a] = rollover[a],
         time'[e] = plus(n, alt_nticks + 1), rollover'[e] = (time'[e] < alt_nticks)
  PROVE  /\ left' = [left EXCEPT ![e] = n + 1]
         /\ running(e)' /\ ~due(e)'
         /\ \A b \in Alarm \ {e} : (running(b)' <=> running(b)) /\ (due(b)' <=> due(b))
<1>0. alt_nticks \in Tick /\ alt_nticks' = alt_nticks
  BY DEF AlarmInv, TypeOK
<1>1. running(e)' /\ \A b \in Alarm \ {e} : running(b)' <=> running(b)
  BY Insert DEF AlarmInv, onList
<1>2. left'[e] = n + 1 /\ (alt_nticks = 0 => ~rollover'[e])
  <2>1. (rollover'[e] /\ alt_nticks # 0) <=> time'[e] < alt_nticks
    BY <1>0, StartArithmetic
  <2>2. left'[e] = time'[e] - alt_nticks + (IF time'[e] < alt_nticks THEN TickLimit ELSE 0)
    BY <1>0, <1>1, <2>1 DEF left
  <2>3. alt_nticks = 0 => ~(time'[e] < alt_nticks)
    BY <1>0, StartArithmetic
  <2>4. left'[e] = n + 1
    BY <1>0, <2>2, StartArithmetic DEF Tick
  <2>5. alt_nticks = 0 => ~rollover'[e]
    BY <2>3
  <2> QED BY <2>4, <2>5
<1>3. \A b \in Alarm \ {e} : left'[b] = left[b]
  BY <1>0, <1>1 DEF left
<1>4. left' = [left EXCEPT ![e] = n + 1]
  BY <1>2, <1>3 DEF left
<1>5. n + 1 # 0
  BY DEF Tick
<1> QED BY <1>0, <1>1, <1>2, <1>3, <1>4, <1>5 DEF due

LEMMA LeftRemove ==
  ASSUME AlarmInv, TypeOK', NEW e \in Alarm, next[e] # NULL, alt_llist_remove(e),
         UNCHANGED <<alt_nticks, time, rollover>>
  PROVE  /\ left' = [left EXCEPT ![e] = Off]
         /\ ~running(e)' /\ ~due(e)'
         /\ \A b \in Alarm \ {e} : (running(b)' <=> running(b)) /\ (due(b)' <=> due(b))
<1>1. ~running(e)' /\ \A b \in Alarm \ {e} : running(b)' <=> running(b)
  BY Remove DEF AlarmInv, onList
<1>2. left'[e] = Off /\ \A b \in Alarm \ {e} : left'[b] = left[b]
  BY <1>1 DEF left, Off
<1>3. left' = [left EXCEPT ![e] = Off]
  BY <1>2 DEF left
<1> QED BY <1>1, <1>2, <1>3 DEF due

\* The tick itself, taken when no alarm is due.
LEMMA LeftTick ==
  ASSUME AlarmInv, TypeOK', UNCHANGED <<next, time, rollover>>,
         alt_nticks' = plus(alt_nticks, 1), LeftOK, \A a \in Alarm : ~due(a),
         NEW a \in Alarm
  PROVE  /\ running(a) => left[a] > 0 /\ left'[a] = left[a] - 1
         /\ ~running(a) => left'[a] = Off
         /\ running(a)' <=> running(a)
<1>1. running(a)' <=> running(a)
  BY DEF running
<1>2. ASSUME running(a) PROVE left[a] > 0 /\ left'[a] = left[a] - 1
  <2>1. left[a] > 0 /\ ~(alt_nticks = 0 /\ rollover[a])
    BY <1>2, LeftValue DEF due, LeftOK, AlarmInv
  <2>2. /\ alt_nticks \in Tick /\ time[a] \in Tick /\ TickLimit \in Nat \ {0, 1}
        /\ alt_nticks' = IF alt_nticks = TickLimit - 1 THEN 0 ELSE alt_nticks + 1
    BY TickArithmetic DEF AlarmInv, TypeOK
  <2>3. CASE rollover[a]
    <3>1. left[a] = time[a] - alt_nticks + TickLimit
      BY <1>2, <2>1, <2>3, LeftValue DEF AlarmInv
    <3>2. left'[a] = time[a] - alt_nticks' + (IF alt_nticks' # 0 THEN TickLimit ELSE 0)
      BY <1>1, <1>2, <2>3 DEF left
    <3> QED BY <2>1, <2>2, <3>1, <3>2 DEF Tick
  <2>4. CASE ~rollover[a]
    <3>1. left[a] = time[a] - alt_nticks
      BY <1>2, <2>1, <2>4, LeftValue DEF AlarmInv
    <3>2. left'[a] = time[a] - alt_nticks' + 0
      BY <1>1, <1>2, <2>4 DEF left
    <3> QED BY <2>1, <2>2, <3>1, <3>2 DEF Tick
  <2> QED BY <2>3, <2>4
<1>3. ~running(a) => left'[a] = Off
  BY <1>1 DEF left, Off
<1> QED BY <1>1, <1>2, <1>3

\* A callback that returns a time for its alarm, which it has not stopped.
LEMMA LeftReturn ==
  ASSUME AlarmInv, TypeOK', ~broken, calling, running(alarm), NEW n \in Tick, n # 0,
         UNCHANGED <<next, alt_nticks>>,
         time' = [time EXCEPT ![alarm] = plus(time[alarm], n)],
         rollover' = [rollover EXCEPT ![alarm] = time'[alarm] < alt_nticks \/ rollover[alarm]]
  PROVE  /\ left[alarm] = 0 /\ left' = [left EXCEPT ![alarm] = n]
         /\ ~(alt_nticks = 0 /\ rollover'[alarm])
         /\ \A b \in Alarm : running(b)' <=> running(b)
<1>0. alarm \in Alarm /\ time[alarm] = alt_nticks /\ ~rollover[alarm] /\ alt_nticks \in Tick
  BY DEF AlarmInv, LockOK, TimeOK, CallbackOK, TypeOK
<1>1. \A b \in Alarm : running(b)' <=> running(b)
  BY DEF running
<1>2. left[alarm] = 0
  BY <1>0, LeftValue DEF AlarmInv, Tick
<1>3. time'[alarm] = plus(alt_nticks, n) /\ (rollover'[alarm] <=> time'[alarm] < alt_nticks)
  BY <1>0 DEF AlarmInv, TypeOK
<1>4. left'[alarm] = n /\ ~(alt_nticks = 0 /\ rollover'[alarm])
  <2>1. (rollover'[alarm] /\ alt_nticks # 0) <=> time'[alarm] < alt_nticks
    BY <1>0, <1>3, ReturnArithmetic
  <2>2. left'[alarm] = time'[alarm] - alt_nticks
                         + (IF time'[alarm] < alt_nticks THEN TickLimit ELSE 0)
    BY <1>0, <1>1, <2>1 DEF left
  <2>3. alt_nticks = 0 => ~(time'[alarm] < alt_nticks)
    BY <1>0, <1>3, ReturnArithmetic
  <2> QED BY <1>0, <1>3, <2>1, <2>2, <2>3, ReturnArithmetic DEF Tick
<1>5. \A b \in Alarm \ {alarm} : left'[b] = left[b]
  <2>1. \A b \in Alarm \ {alarm} : time'[b] = time[b] /\ (rollover'[b] <=> rollover[b])
    BY <1>0 DEF AlarmInv, TypeOK
  <2> QED BY <1>1, <2>1 DEF left
<1>6. left' = [left EXCEPT ![alarm] = n]
  BY <1>0, <1>4, <1>5, ZenonT(60) DEF left
<1> QED BY <1>1, <1>2, <1>4, <1>6
-------------------------------------------------------------------------------
\* Outside alt_tick no alarm is due.
LEMMA NoneDue ==
  ASSUME AlarmInv, ~broken, alarm = NULL
  PROVE  (\A b \in Alarm : ~due(b)) /\ ~calling
BY DEF AlarmInv, TimeOK, WalkOK, LockOK, TypeOK, Node

\* Steps that leave the alarms, the counter and the walk alone.
LEMMA TimeKept ==
  ASSUME AlarmInv, TypeOK',
         UNCHANGED <<alt_nticks, next, time, rollover, alarm, following, calling, broken>>,
         (pc' = pc /\ arg' = arg) \/ pc' \notin {"time", "insert"}
  PROVE  TimeOK'
<1>1. left' = left /\ onList' = onList /\ \A a : running(a)' <=> running(a)
  BY LeftSame DEF AlarmInv, onList, running
<1>2. (\A a : due(a)' <=> due(a)) /\ ahead' = ahead
  BY <1>1 DEF due, ahead
<1>3. StartOK => StartOK'
  BY DEF StartOK, plus
<1> QED BY <1>1, <1>2, <1>3 DEF AlarmInv, TimeOK, CallbackOK, LeftOK, WalkOK

\* Every alarm that becomes due at the tick is ahead of the walk that begins.
LEMMA TimeTickBegin ==
  ASSUME AlarmInv, TypeOK', ~broken, TickBegin
  PROVE  TimeOK'
<1>1. /\ alarm = NULL /\ alarm' = next[Head] /\ alt_nticks' = plus(alt_nticks, 1)
      /\ UNCHANGED <<pc, arg, next, time, rollover, calling, broken>>
      /\ serving # NULL
  BY DEF TickBegin, irqVars, list, fields, AlarmInv, TypeOK, Irq
<1>2. pc = "out" /\ ~calling /\ \A b \in Alarm : ~due(b)
  BY <1>1, NoneDue DEF AlarmInv, LockOK
<1>3. onList' = onList /\ \A b : running(b)' <=> running(b)
  BY <1>1 DEF onList, running
<1>4. next[Head] \in onList
  BY DEF AlarmInv, ListOK, ListWhole, onList
<1>5. LeftOK'
  <2>1. ASSUME NEW b \in Alarm, running(b) PROVE left'[b] >= 0
    BY <1>1, <1>2, <2>1, LeftTick, LeftValue DEF AlarmInv, TimeOK
  <2> QED BY <1>3, <2>1 DEF LeftOK
<1>6. WalkOK'
  <2>1. ahead' = next[Head] /\ alarm' # NULL
    BY <1>1, <1>2, <1>4 DEF ahead, onList
  <2> QED BY <1>1, <1>3, <1>4, <2>1, PathToAll DEF WalkOK, due
<1> QED BY <1>1, <1>2, <1>5, <1>6 DEF TimeOK, StartOK, CallbackOK

\* The walk passes an alarm that is not due, or calls it back.
LEMMA TimeVisit ==
  ASSUME AlarmInv, TypeOK', ~broken, Visit
  PROVE  TimeOK' /\ left' = left
<1>1. /\ alarm \in Alarm /\ ~calling /\ following' = next[alarm]
      /\ rollover' = [rollover EXCEPT ![alarm] = rolledOver(alarm)]
      /\ calling' = (time[alarm] <= alt_nticks /\ ~rollover'[alarm])
      /\ alarm' = IF calling' THEN alarm ELSE following'
      /\ UNCHANGED <<pc, arg, alt_nticks, next, time, broken>>
  BY DEF Visit, irqVars, list
<1>2. /\ alarm \in onList \ {Head} /\ next[alarm] \in onList /\ running(alarm)
      /\ next[alarm] # alarm /\ pc = "out"
  BY <1>1 DEF AlarmInv, TimeOK, WalkOK, ahead, onList, ListOK, ListWhole, LockOK, running,
    Irq
<1>3. onList' = onList /\ \A b : running(b)' <=> running(b)
  BY <1>1 DEF onList, running
<1>4. /\ rollover'[alarm] <=> rollover[alarm] /\ alt_nticks # 0
      /\ \A b \in Alarm \ {alarm} : rollover'[b] <=> rollover[b]
  BY <1>1 DEF rolledOver, AlarmInv, TypeOK
<1>5. left' = left
  BY <1>1, <1>4, LeftSame DEF AlarmInv
<1>6. /\ time[alarm] \in Tick /\ alt_nticks \in Tick /\ left[alarm] >= 0
      /\ ~rollover'[alarm] => left[alarm] = time[alarm] - alt_nticks
      /\ calling' <=> time[alarm] <= alt_nticks /\ ~rollover'[alarm]
  <2>1. left[alarm] >= 0
    BY <1>1, <1>2 DEF AlarmInv, TimeOK, LeftOK
  <2>2. TypeOK
    BY DEF AlarmInv
  <2>3. ~rollover'[alarm] => ~(rollover[alarm] /\ alt_nticks # 0)
    BY <1>4
  <2>4. calling' <=> time[alarm] <= alt_nticks /\ ~rollover'[alarm]
    BY <1>1
  <2> QED BY <1>1, <1>2, <2>1, <2>2, <2>3, <2>4, LeftValue
<1>7. CASE calling'
  <2>1. left[alarm] = 0 /\ time[alarm] = alt_nticks
    BY <1>6, <1>7 DEF Tick
  <2>2. ahead' = next[alarm] /\ alarm' = alarm
    BY <1>1, <1>7 DEF ahead
  <2>3. ASSUME NEW b \in Alarm, due(b)', b # alarm PROVE Path(next, onList, next[alarm], b)
    <3>1. due(b)
      BY <1>1, <1>3, <1>4, <1>5, <2>3 DEF due
    <3>2. Path(next, onList, alarm, b)
      BY <1>1, <3>1 DEF AlarmInv, TimeOK, WalkOK, ahead
    <3> QED BY <1>2, <2>3, <3>2, PathNext
  <2>4. WalkOK'
    BY <1>1, <1>2, <1>3, <1>7, <2>2, <2>3 DEF WalkOK
  <2>5. CallbackOK' /\ StartOK'
    BY <1>1, <1>2, <1>7, <2>1, <2>2 DEF CallbackOK, StartOK
  <2>6. LeftOK'
    BY <1>3, <1>5 DEF AlarmInv, TimeOK, LeftOK
  <2> QED BY <1>1, <1>5, <2>4, <2>5, <2>6 DEF TimeOK
<1>8. CASE ~calling'
  <2>1. ahead' = next[alarm] /\ alarm' = next[alarm]
    BY <1>1, <1>8 DEF ahead
  <2>2. ASSUME NEW b \in Alarm, due(b)' PROVE Path(next, onList, next[alarm], b)
    <3>1. b # alarm
      <4>1. left[alarm] # 0
        <5>1. CASE rollover'[alarm]
          <6>1. left[alarm] = time[alarm] - alt_nticks + TickLimit
            BY <1>1, <1>2, <1>4, <5>1, LeftValue DEF AlarmInv
          <6> QED BY <1>6, <6>1 DEF Tick
        <5>2. CASE ~rollover'[alarm]
          BY <1>6, <1>8, <5>2 DEF Tick
        <5> QED BY <5>1, <5>2
      <4>2. ~(alt_nticks = 0 /\ rollover'[alarm])
        BY <1>4
      <4> QED BY <1>1, <1>5, <2>2, <4>1, <4>2 DEF due
    <3>2. due(b)
      BY <1>1, <1>3, <1>4, <1>5, <2>2, <3>1 DEF due
    <3>3. Path(next, onList, alarm, b)
      BY <1>1, <3>2 DEF AlarmInv, TimeOK, WalkOK, ahead
    <3> QED BY <1>2, <3>1, <3>3, PathNext
  <2>3. next[alarm] # NULL
    BY <1>2 DEF onList
  <2>4. WalkOK'
    BY <1>1, <1>2, <1>3, <2>1, <2>2, <2>3 DEF WalkOK
  <2>5. CallbackOK' /\ StartOK'
    BY <1>1, <1>2, <1>8 DEF CallbackOK, StartOK
  <2>6. LeftOK'
    BY <1>3, <1>5 DEF AlarmInv, TimeOK, LeftOK
  <2> QED BY <1>1, <1>5, <2>4, <2>5, <2>6 DEF TimeOK
<1> QED BY <1>1, <1>7, <1>8

\* An alarm that a callback starts comes after the head, and is not due.
LEMMA TimeCallStart ==
  ASSUME AlarmInv, TypeOK', ~broken', NEW a \in Alarm, NEW n \in Tick, CallStart(a, n)
  PROVE  TimeOK' /\ left[a] = Off /\ left' = [left EXCEPT ![a] = n + 1]
<1>1. /\ calling /\ ~running(a) /\ setTime(a, n) /\ alt_llist_insert(a)
      /\ ~broken /\ a # alarm /\ n # TickLimit - 1
      /\ UNCHANGED <<pc, arg, alt_nticks, alarm, following, calling>>
  BY DEF CallStart, irqVars, tick
<1>2. /\ \A b \in Alarm \ {a} : time'[b] = time[b] /\ rollover'[b] = rollover[b]
      /\ time'[a] = plus(n, alt_nticks + 1) /\ rollover'[a] = (time'[a] < alt_nticks)
  BY <1>1 DEF setTime, AlarmInv, TypeOK
<1>3. /\ left' = [left EXCEPT ![a] = n + 1] /\ running(a)' /\ ~due(a)'
      /\ \A b \in Alarm \ {a} : (running(b)' <=> running(b)) /\ (due(b)' <=> due(b))
  BY <1>1, <1>2, LeftInsert
<1>4. onList' = onList \cup {a}
  BY <1>1, Insert DEF AlarmInv
<1>5. alarm \in Alarm /\ pc = "out" /\ following \in onList /\ ahead = following
  BY <1>1 DEF AlarmInv, LockOK, TimeOK, WalkOK, ahead, TypeOK, Irq
<1>6. WalkOK'
  <2>1. ASSUME NEW b \in Alarm, due(b)', b # alarm
        PROVE  Path(next', onList', following, b)
    <3>1. due(b) /\ Path(next, onList, following, b)
      BY <1>1, <1>3, <1>5, <2>1 DEF AlarmInv, TimeOK, WalkOK
    <3> QED BY <1>1, <1>5, <3>1, PathInsert
  <2>2. ahead' = following /\ following \in onList'
    BY <1>1, <1>4, <1>5 DEF ahead
  <2> QED BY <1>1, <1>5, <2>1, <2>2 DEF WalkOK
<1>7. LeftOK'
  <2>1. left \in [Alarm -> Int] /\ n + 1 >= 0
    BY LeftValue DEF AlarmInv, Tick, left, TypeOK
  <2> QED BY <1>1, <1>3, <2>1 DEF AlarmInv, TimeOK, LeftOK
<1>8. CallbackOK' /\ StartOK'
  BY <1>1, <1>2, <1>5 DEF AlarmInv, TimeOK, CallbackOK, StartOK
<1>9. left[a] = Off
  BY <1>1, LeftValue DEF AlarmInv
<1> QED BY <1>3, <1>6, <1>7, <1>8, <1>9 DEF TimeOK

\* One that it stops is not where alt_tick goes on.
LEMMA TimeCallStop ==
  ASSUME AlarmInv, TypeOK', ~broken', NEW a \in Alarm, CallStop(a)
  PROVE  TimeOK' /\ left' = [left EXCEPT ![a] = Off]
<1>1. /\ calling /\ next[a] # NULL /\ alt_llist_remove(a)
      /\ ~broken /\ a # following
      /\ UNCHANGED <<pc, arg, alt_nticks, time, rollover, alarm, following, calling>>
  BY DEF CallStop, irqVars, tick, fields
<1>2. /\ left' = [left EXCEPT ![a] = Off] /\ ~running(a)' /\ ~due(a)'
      /\ \A b \in Alarm \ {a} : (running(b)' <=> running(b)) /\ (due(b)' <=> due(b))
  BY <1>1, LeftRemove
<1>3. onList' = onList \ {a}
  BY <1>1, Remove DEF AlarmInv
<1>4. alarm \in Alarm /\ pc = "out" /\ following \in onList /\ ahead = following
  BY <1>1 DEF AlarmInv, LockOK, TimeOK, WalkOK, ahead, TypeOK, Irq
<1>5. WalkOK'
  <2>1. ASSUME NEW b \in Alarm, due(b)', b # alarm
        PROVE  Path(next', onList', following, b)
    <3>1. b # a /\ due(b) /\ Path(next, onList, following, b)
      BY <1>1, <1>2, <1>4, <2>1 DEF AlarmInv, TimeOK, WalkOK
    <3> QED BY <1>1, <1>4, <3>1, PathRemove
  <2>2. ahead' = following /\ following \in onList'
    BY <1>1, <1>3, <1>4 DEF ahead
  <2> QED BY <1>1, <1>4, <2>1, <2>2 DEF WalkOK
<1>6. LeftOK'
  <2>1. left \in [Alarm -> Int]
    BY LeftValue DEF AlarmInv, left, TypeOK, Tick
  <2> QED BY <1>1, <1>2, <2>1 DEF AlarmInv, TimeOK, LeftOK
<1>7. CallbackOK' /\ StartOK'
  BY <1>1, <1>4 DEF AlarmInv, TimeOK, CallbackOK, StartOK
<1> QED BY <1>2, <1>5, <1>6, <1>7 DEF TimeOK

\* A callback that returns: its alarm is due no longer.
LEMMA TimeCallReturn ==
  ASSUME AlarmInv, TypeOK', ~broken, NEW n \in Tick, CallReturn(n)
  PROVE  /\ TimeOK'
         /\ running(alarm) => left[alarm] = 0
              /\ left' = [left EXCEPT ![alarm] = IF n = 0 THEN Off ELSE n]
         /\ ~running(alarm) => left' = left
<1>1. /\ calling /\ ~calling' /\ alarm' = following
      /\ UNCHANGED <<pc, arg, alt_nticks, following, broken>>
  BY DEF CallReturn, irqVars, goOn
<1>2. /\ alarm \in Alarm /\ pc = "out" /\ following \in onList /\ ahead = following
      /\ next[alarm] # NULL /\ following # alarm /\ following # NULL
      /\ time[alarm] = alt_nticks /\ ~rollover[alarm]
  BY <1>1 DEF AlarmInv, LockOK, TimeOK, CallbackOK, WalkOK, ahead, TypeOK, Irq, ListOK, Node
<1>3. left \in [Alarm -> Int] /\ left[alarm] \in Int /\ (running(alarm) => left[alarm] = 0)
      /\ (~running(alarm) => left[alarm] = Off)
  BY <1>2, LeftValue DEF AlarmInv, Tick
<1>4. ahead' = following
  BY <1>1 DEF ahead
<1>5. CASE n = 0
  <2>1. alt_llist_remove(alarm) /\ UNCHANGED <<time, rollover>>
    BY <1>5 DEF CallReturn, fields
  <2>0. PICK a \in Alarm : a = alarm
    BY <1>2
  <2>2. /\ left' = [left EXCEPT ![a] = Off] /\ ~running(a)' /\ ~due(a)'
        /\ \A b \in Alarm \ {a} : (running(b)' <=> running(b)) /\ (due(b)' <=> due(b))
    BY <1>1, <1>2, <2>0, <2>1, LeftRemove
  <2>3. onList' = onList \ {alarm}
    BY <1>2, <2>1, Remove DEF AlarmInv
  <2>4. ASSUME NEW b \in Alarm, due(b)'
        PROVE  Path(next', onList', following, b)
    <3>1. b # alarm
      BY <2>0, <2>2, <2>4
    <3>2. due(b) /\ Path(next, onList, following, b)
      BY <1>1, <1>2, <2>0, <2>2, <2>4, <3>1 DEF AlarmInv, TimeOK, WalkOK
    <3> QED BY <1>2, <2>1, <3>1, <3>2, PathRemove
  <2>5. WalkOK'
    BY <1>1, <1>2, <1>4, <2>3, <2>4 DEF WalkOK
  <2>6. LeftOK'
    BY <1>3, <2>0, <2>2 DEF AlarmInv, TimeOK, LeftOK
  <2>7. CallbackOK' /\ StartOK'
    BY <1>1, <1>2 DEF CallbackOK, StartOK
  <2>8. ~running(alarm) => left' = left
    BY <1>2, <1>3, <2>0, <2>2
  <2> QED BY <1>1, <1>3, <1>5, <2>0, <2>2, <2>5, <2>6, <2>7, <2>8 DEF TimeOK
<1>6. CASE n # 0
  <2>1. /\ time' = [time EXCEPT ![alarm] = plus(time[alarm], n)]
        /\ rollover' = [rollover EXCEPT ![alarm] =
                          time'[alarm] < alt_nticks \/ rollover[alarm]]
        /\ UNCHANGED next
    BY <1>6 DEF CallReturn, list
  <2>2. onList' = onList /\ \A b : running(b)' <=> running(b)
    BY <2>1 DEF onList, running
  <2>3. /\ running(alarm) => /\ left' = [left EXCEPT ![alarm] = n]
                             /\ ~(alt_nticks = 0 /\ rollover'[alarm])
        /\ ~running(alarm) => left' = left
    <3>1. CASE running(alarm)
      BY <1>1, <1>6, <2>1, <3>1, LeftReturn
    <3>2. CASE ~running(alarm)
      <4>1. \A b \in Alarm : running(b) => time'[b] = time[b] /\ rollover'[b] = rollover[b]
        BY <2>1, <3>2 DEF AlarmInv, TypeOK
      <4> QED BY <1>1, <2>1, <3>2, <4>1, LeftSame DEF AlarmInv
    <3> QED BY <3>1, <3>2
  <2>4. ASSUME NEW b \in Alarm, due(b)'
        PROVE  b # alarm /\ due(b)
    <3>1. b # alarm
      BY <1>1, <1>3, <1>6, <2>2, <2>3, <2>4 DEF due
    <3>2. left'[b] = left[b] /\ (rollover'[b] <=> rollover[b])
      BY <1>2, <1>3, <2>1, <2>3, <3>1 DEF AlarmInv, TypeOK
    <3> QED BY <1>1, <2>2, <2>4, <3>1, <3>2 DEF due
  <2>5. WalkOK'
    BY <1>1, <1>2, <1>4, <2>1, <2>2, <2>4 DEF AlarmInv, TimeOK, WalkOK
  <2>6. LeftOK'
    BY <1>3, <1>6, <2>2, <2>3 DEF AlarmInv, TimeOK, LeftOK, Tick
  <2>7. CallbackOK' /\ StartOK'
    BY <1>1, <1>2 DEF CallbackOK, StartOK
  <2> QED BY <1>1, <1>3, <1>6, <2>3, <2>5, <2>6, <2>7 DEF TimeOK
<1> QED BY <1>5, <1>6

\* The walk ends at the head with no alarm left that is due.
LEMMA TimeTickEnd ==
  ASSUME AlarmInv, TypeOK', ~broken, TickEnd
  PROVE  TimeOK' /\ left' = left
<1>1. /\ alarm = Head /\ alarm' = NULL
      /\ UNCHANGED <<pc, arg, alt_nticks, next, time, rollover, calling, broken>>
      /\ serving # NULL
  BY DEF TickEnd, Served, list, fields, Irq
<1>2. ~calling /\ pc = "out"
  BY <1>1 DEF AlarmInv, LockOK
<1>3. \A b \in Alarm : ~due(b)
  BY <1>1, <1>2, PathFromHead DEF AlarmInv, TimeOK, WalkOK, ahead
<1>4. left' = left /\ \A a : running(a)' <=> running(a)
  BY <1>1, LeftSame DEF AlarmInv, running
<1>5. WalkOK'
  BY <1>1, <1>3, <1>4 DEF WalkOK, due
<1> QED BY <1>1, <1>2, <1>4, <1>5 DEF AlarmInv, TimeOK, StartOK, CallbackOK, LeftOK

\* A call of alt_alarm_start or alt_alarm_stop, outside alt_tick.
LEMMA TimeStartTime ==
  ASSUME AlarmInv, TypeOK', ~broken, StartTime
  PROVE  TimeOK' /\ left' = left
<1>1. /\ pc = "time" /\ pc' = "insert" /\ setTime(arg.alarm, arg.nticks)
      /\ arg.alarm \in Alarm /\ ~running(arg.alarm) /\ alarm = NULL
      /\ UNCHANGED <<arg, alt_nticks, next, alarm, following, calling, broken>>
  BY DEF StartTime, at, list, tick, AlarmInv, TypeOK, ListOK, LockOK, Irq
<1>2. \A a \in Alarm : running(a) => time'[a] = time[a] /\ rollover'[a] = rollover[a]
  BY <1>1 DEF setTime, AlarmInv, TypeOK
<1>3. left' = left /\ \A a : running(a)' <=> running(a)
  BY <1>1, <1>2, LeftSame DEF AlarmInv, running
<1>4. WalkOK' /\ CallbackOK' /\ LeftOK'
  BY <1>1, <1>2, <1>3, NoneDue
     DEF AlarmInv, TimeOK, WalkOK, CallbackOK, LeftOK, due
<1>5. StartOK'
  BY <1>1 DEF setTime, AlarmInv, TimeOK, StartOK, TypeOK, plus
<1> QED BY <1>3, <1>4, <1>5 DEF TimeOK

LEMMA TimeStartInsert ==
  ASSUME AlarmInv, TypeOK', ~broken, StartInsert
  PROVE  /\ TimeOK'
         /\ \E a \in Alarm, n \in Tick : left[a] = Off /\ left' = [left EXCEPT ![a] = n + 1]
<1>1. PICK a \in Alarm, n \in Tick : a = arg.alarm /\ n = arg.nticks
  BY DEF StartInsert, at, AlarmInv, TypeOK
<1>2. /\ pc = "insert" /\ pc' = "unlock" /\ alt_llist_insert(a) /\ ~running(a) /\ alarm = NULL
      /\ n # TickLimit - 1
      /\ time[a] = plus(n, alt_nticks + 1) /\ rollover[a] = (time[a] < alt_nticks)
      /\ UNCHANGED <<arg, alt_nticks, time, rollover, alarm, following, calling, broken>>
  BY <1>1 DEF StartInsert, at, fields, tick, AlarmInv, ListOK, LockOK, TimeOK, StartOK, Irq
<1>3. /\ left' = [left EXCEPT ![a] = n + 1] /\ ~due(a)'
      /\ \A b \in Alarm \ {a} : (running(b)' <=> running(b)) /\ (due(b)' <=> due(b))
  BY <1>2, LeftInsert
<1>4. left[a] = Off /\ left \in [Alarm -> Int]
  BY <1>2, LeftValue DEF AlarmInv
<1>5. WalkOK' /\ CallbackOK' /\ StartOK'
  BY <1>2, <1>3, NoneDue DEF WalkOK, CallbackOK, StartOK
<1>6. LeftOK'
  BY <1>3, <1>4 DEF AlarmInv, TimeOK, LeftOK, Tick
<1> QED BY <1>3, <1>4, <1>5, <1>6 DEF TimeOK

LEMMA TimeStopRemove ==
  ASSUME AlarmInv, TypeOK', ~broken, StopRemove
  PROVE  TimeOK' /\ \E a \in Alarm : left' = [left EXCEPT ![a] = Off]
<1>1. PICK a \in Alarm : a = arg.alarm
  BY DEF StopRemove, at, AlarmInv, TypeOK
<1>2. /\ pc = "remove" /\ pc' = "unlock" /\ alt_llist_remove(a) /\ next[a] # NULL
      /\ alarm = NULL
      /\ UNCHANGED <<arg, alt_nticks, time, rollover, alarm, following, calling, broken>>
  BY <1>1 DEF StopRemove, at, fields, tick, AlarmInv, ListOK, LockOK, Irq
<1>3. /\ left' = [left EXCEPT ![a] = Off] /\ ~running(a)' /\ ~due(a)'
      /\ \A b \in Alarm \ {a} : (running(b)' <=> running(b)) /\ (due(b)' <=> due(b))
  BY <1>2, LeftRemove
<1>4. left \in [Alarm -> Int]
  BY <1>2, LeftValue DEF AlarmInv
<1>5. WalkOK' /\ CallbackOK' /\ StartOK'
  BY <1>2, <1>3, NoneDue DEF WalkOK, CallbackOK, StartOK
<1>6. LeftOK'
  BY <1>3, <1>4 DEF AlarmInv, TimeOK, LeftOK
<1> QED BY <1>3, <1>5, <1>6 DEF TimeOK

\* The steps that concern no alarm.
LEMMA OtherSteps ==
  ASSUME AlarmInv, TypeOK', ~broken',
         \/ (\E i \in Irq : Raise(i)) /\ UNCHANGED tickVars
         \/ (Enter \/ Dispatch \/ Leave \/ Registering) /\ UNCHANGED tickVars
         \/ Other
         \/ (\E i \in Irq \ {clock} : Switch(i) \/ \E isr \in Isr \cup {NULL} : Register(i, isr))
              /\ UNCHANGED tickVars
         \/ \E a \in Alarm : Stop(a) \/ \E n \in Tick : Start(a, n)
         \/ UNCHANGED vars
  PROVE  TimeOK' /\ left' = left
<1> USE DEF vars, irqVars, tickVars, list, fields, tick
<1>1. UNCHANGED <<alt_nticks, next, time, rollover, alarm, following, calling>>
  BY DEF Other, Stop, Start
<1>2. left' = left
  BY <1>1, LeftSame DEF AlarmInv
<1>3. CASE UNCHANGED broken /\ ((pc' = pc /\ arg' = arg) \/ pc' \notin {"time", "insert"})
  <2>1. UNCHANGED <<alt_nticks, next, time, rollover, alarm, following, calling, broken>>
    BY <1>1, <1>3
  <2>2. (pc' = pc /\ arg' = arg) \/ pc' \notin {"time", "insert"}
    BY <1>3
  <2> QED BY <1>2, <2>1, <2>2, TimeKept
<1>4. ASSUME NEW a \in Alarm, NEW n \in Tick, Start(a, n) PROVE TimeOK'
  <2>1. ~broken /\ n # TickLimit - 1 /\ pc' = "time" /\ arg'.nticks = n
    BY <1>4 DEF Start
  <2>2. StartOK'
    BY <2>1 DEF StartOK
  <2>3. onList' = onList /\ \A b : running(b)' <=> running(b)
    BY <1>1 DEF onList, running
  <2>4. (\A b : due(b)' <=> due(b)) /\ ahead' = ahead
    BY <1>1, <1>2, <2>3 DEF due, ahead
  <2> QED BY <1>1, <1>2, <2>1, <2>2, <2>3, <2>4
          DEF AlarmInv, TimeOK, CallbackOK, LeftOK, WalkOK
<1>5. ASSUME ~(\E a \in Alarm, n \in Tick : Start(a, n))
      PROVE  UNCHANGED broken /\ ((pc' = pc /\ arg' = arg) \/ pc' \notin {"time", "insert"})
  BY <1>5 DEF Raise, Enter, Dispatch, Leave, Registering, RegisterHandler, RegisterContext,
    RegisterSwitch, Unlock, Other, Served, Switch, Register, Stop
<1> QED BY <1>2, <1>3, <1>4, <1>5
-------------------------------------------------------------------------------
LEMMA InvInit == Init => AlarmInv
<1> SUFFICES ASSUME Init PROVE AlarmInv
  OBVIOUS
<1>1. \A i \in Irq : i # NULL
  BY DEF Irq
<1> USE DEF Init, InitIrq
<1>2. handler \in [Irq -> Isr \cup {NULL}] /\ context = handler
      /\ ienable \subseteq Irq /\ \A i \in ienable : handler[i] # NULL
  OBVIOUS
<1>3. TypeOK
  <2>1. next \in [Node -> Node \cup {NULL}] /\ previous = next
    BY DEF Node
  <2>2. 0 \in Tick
    BY DEF Tick
  <2> QED BY <1>2, <2>1, <2>2 DEF TypeOK, labels
<1>4. LockOK /\ TableOK
  BY <1>1, <1>2 DEF LockOK, TableOK
<1>5. onList = {Head} /\ next[Head] = Head /\ \A a \in Alarm : ~running(a)
  BY DEF onList, running
<1>6. ListOK
  BY <1>5 DEF ListOK, ListWhole
<1>7. TimeOK
  BY <1>5 DEF TimeOK, StartOK, CallbackOK, LeftOK, WalkOK, due
<1> QED BY <1>3, <1>4, <1>6, <1>7 DEF AlarmInv

\* Every step keeps the alarms in time, and is a step of the timer or none.
LEMMA TimeStep ==
  ASSUME AlarmInv, [Next]_vars
  PROVE  TimeOK' /\ [Countdown!Next]_<<left, broken>>
<1>1. TypeOK' /\ broken' \in BOOLEAN
  BY TypeStep DEF TypeOK
<1>2. CASE broken'
  BY <1>1, <1>2 DEF TimeOK, Countdown!Next
<1>3. CASE ~broken'
  <2>1. ~broken /\ broken' = broken /\ broken' = FALSE
    BY <1>1, <1>3 DEF Next, Handling, Locked, Other, TickBegin, Visit, CallReturn, TickEnd,
      StartTime, StartInsert, StopRemove, Stop, CallStop, Start, CallStart, tickVars, vars,
      AlarmInv, TypeOK
  <2>2. left \in [Alarm -> Int] /\ \A a \in Alarm : running(a) <=> left[a] # Off
    <3>1. left \in [Alarm -> Int]
      BY LeftValue DEF AlarmInv, left, TypeOK, Tick
    <3>2. ASSUME NEW a \in Alarm PROVE running(a) <=> left[a] # Off
      <4>1. /\ running(a) => left[a] >= time[a] - alt_nticks
            /\ time[a] \in Tick /\ alt_nticks \in Tick
        BY LeftValue DEF AlarmInv, Tick
      <4> QED BY <4>1, LeftValue DEF AlarmInv, Off, Tick
    <3> QED BY <3>1, <3>2
  <2> DEFINE on == {a \in Alarm : running(a)}
  <2>3. Countdown!running = on
    BY <2>2 DEF Countdown!running, Off
  <2>4. CASE TickBegin
    <3>1. TimeOK'
      BY <1>1, <2>1, <2>4, TimeTickBegin
    <3>2. /\ UNCHANGED <<next, time, rollover>> /\ alarm = NULL
          /\ alt_nticks' = plus(alt_nticks, 1)
      BY <2>4 DEF TickBegin, list, fields
    <3>3. LeftOK /\ \A a \in Alarm : ~due(a)
      BY <2>1, <3>2, NoneDue DEF AlarmInv, TimeOK
    <3>4. \A a \in Alarm : /\ a \in on => left[a] > 0 /\ left'[a] = left[a] - 1
                           /\ a \notin on => left'[a] = Off
      BY <1>1, <3>2, <3>3, LeftTick
    <3>5. left' = [a \in Alarm |-> IF a \in on THEN left[a] - 1 ELSE Off]
      BY <3>4 DEF left
    <3>6. Countdown!Tick
      BY <2>3, <3>4, <3>5 DEF Countdown!Tick, Off
    <3> QED BY <2>1, <3>1, <3>6 DEF Countdown!Next
  <2>5. CASE Visit \/ TickEnd \/ StartTime
    BY <1>1, <2>1, <2>5, TimeVisit, TimeTickEnd, TimeStartTime
  <2>6. ASSUME NEW n \in Tick, CallReturn(n)
        PROVE  TimeOK' /\ [Countdown!Next]_<<left, broken>>
    <3>1. /\ TimeOK'
          /\ running(alarm) => left[alarm] = 0
               /\ left' = [left EXCEPT ![alarm] = IF n = 0 THEN Off ELSE n]
          /\ ~running(alarm) => left' = left
      BY <1>1, <2>1, <2>6, TimeCallReturn
    <3>2. alarm \in Alarm
      BY <2>6 DEF CallReturn, AlarmInv, LockOK
    <3>3. running(alarm) => Countdown!Fire(alarm)
      BY <3>1 DEF Countdown!Fire, Off
    <3> QED BY <2>1, <3>1, <3>2, <3>3 DEF Countdown!Next
  <2>7. CASE StartInsert
    BY <1>1, <2>1, <2>7, TimeStartInsert DEF Countdown!Next, Countdown!Start, Off
  <2>8. CASE StopRemove
    BY <1>1, <2>1, <2>8, TimeStopRemove DEF Countdown!Next, Countdown!Stop, Off
  <2>9. ASSUME NEW a \in Alarm, CallStop(a)
        PROVE  TimeOK' /\ [Countdown!Next]_<<left, broken>>
    BY <1>1, <1>3, <2>1, <2>9, TimeCallStop DEF Countdown!Next, Countdown!Stop, Off
  <2>10. ASSUME NEW a \in Alarm, NEW n \in Tick, CallStart(a, n)
        PROVE  TimeOK' /\ [Countdown!Next]_<<left, broken>>
    BY <1>1, <1>3, <2>1, <2>10, TimeCallStart DEF Countdown!Next, Countdown!Start, Off
  <2> QED BY <1>1, <1>3, <2>1, <2>4, <2>5, <2>6, <2>7, <2>8, <2>9, <2>10, OtherSteps
          DEF Next, Handling, Locked
<1> QED BY <1>1, <1>2, <1>3

LEMMA InvStep == AlarmInv /\ [Next]_vars => AlarmInv'
BY TypeStep, LockStep, TableStep, ListStep, TimeStep DEF AlarmInv

LEMMA Invariance == Spec => []AlarmInv
BY InvInit, InvStep, PTL DEF Spec
-------------------------------------------------------------------------------
\* Every register, field and link keeps its type, for every number of interrupts,
\* set of alarms and limit of the counter.
THEOREM TypeCorrect == Spec => []TypeOK
<1>1. AlarmInv => TypeOK
  BY DEF AlarmInv
<1> QED BY <1>1, Invariance, PTL

\* Every handler that is called is registered and gets its own context, whatever
\* is registered, removed, enabled and disabled: the registration keeps interrupts
\* out until the table is consistent.
THEOREM HandlerRegistered == Spec => []TableWhole
<1>1. AlarmInv => TableWhole
  BY DEF AlarmInv, TypeOK, LockOK, TableOK, TableWhole, Irq
<1> QED BY <1>1, Invariance, PTL

\* The list of the alarms is whole between any two steps, with the program and the
\* callbacks starting and stopping alarms as they like, their own and the next
\* one included.
THEOREM ListCorrect == Spec => []ListWhole
<1>1. AlarmInv => ListWhole
  BY DEF AlarmInv, ListOK
<1> QED BY <1>1, Invariance, PTL

\* The alarms are the abstract timer: none is early, none late and none forgotten,
\* at the roll-over of the counter too, as long as the callers keep the rules.
THEOREM TimerImplemented == Spec => ImplementsTimer
<1>1. Init => Countdown!Init
  BY DEF Init, left, running, Countdown!Init
<1>2. AlarmInv /\ [Next]_vars => [Countdown!Next]_<<left, broken>>
  BY TimeStep
<1> QED BY <1>1, <1>2, Invariance, PTL DEF Spec, ImplementsTimer, Countdown!Behaviour
===============================================================================

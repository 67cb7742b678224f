------------------------------- MODULE HwTimer -------------------------------
(***************************************************************************)
(* utils/hwtimer_list/hwtimer_list.c: software timers in a list of         *)
(* differences that share one hardware timer, hal_timer.c.                 *)
(*                                                                         *)
(* Every call holds the interrupt lock; the handler releases it around the *)
(* callbacks.  So a callback, a thread or an interrupt above the timer's   *)
(* own may call in while the handler has just been entered, or is in a     *)
(* callback.  What a callback does beyond such calls is not modelled.      *)
(***************************************************************************)
EXTENDS Integers, FiniteSets, Sequences, SequencesExt, Functions

CONSTANTS Timers,      \* hwtimer_list.timer
          NONE,
          MaxTicks,    \* bound: the longest time a timer is started for
          MaxLate      \* bound: how long the interrupt and its handler take

ASSUME BoundsAssumption == MaxTicks \in Nat \ {0} /\ MaxLate \in Nat /\ NONE \notin Timers

VARIABLES
  st, time,    \* state and time of each timer
  active, fired, \* the two lists
  on, value,   \* hal_timer: enabled, and its down-counter
  elapsed,     \* hal_timer_get_elapsed_time: since hal_timer_start
  irq,         \* the interrupt is pending
  pc, cur,     \* where the handler is, and the timer whose callback it calls
  late,        \* ticks since the interrupt became pending
  left,        \* the least ticks before the timer may fire, but for the last load
  due,         \* the ticks it was started for, less those since and what a stop cost it
  collapsed    \* an assertion failed

lists == <<st, time, active, fired>>
hw == <<on, value, elapsed, irq>>
handler == <<pc, cur>>
ghosts == <<left, due>>
vars == <<lists, hw, handler, late, ghosts, collapsed>>

Delta == 1     \* HAL_TIMER_LOAD_DELTA

TypeOK ==
  /\ st \in [Timers -> {"FREE", "ALLOC", "ACTIVE", "FIRED", "CALLBACK"}]
  /\ time \in [Timers -> Nat]
  /\ active \in Seq(Timers) /\ fired \in Seq(Timers)
  /\ on \in BOOLEAN /\ value \in Nat /\ elapsed \in Nat /\ irq \in BOOLEAN
  /\ pc \in {"idle", "entered", "callback"} /\ cur \in Timers \cup {NONE}
  /\ late \in 0 .. MaxLate /\ left \in [Timers -> Nat]
  /\ due \in [Timers -> Int]
  /\ collapsed \in BOOLEAN

\* hwtimer_init
Init ==
  /\ st = [t \in Timers |-> "FREE"] /\ time = [t \in Timers |-> 0]
  /\ active = <<>> /\ fired = <<>>
  /\ on = FALSE /\ value = 0 /\ elapsed = 0 /\ irq = FALSE
  /\ pc = "idle" /\ cur = NONE
  /\ late = 0 /\ left = [t \in Timers |-> 0] /\ due = [t \in Timers |-> 0]
  /\ collapsed = FALSE

Less(a, b) == IF a > b THEN a - b ELSE 0

\* The sums of the differences f along the list s, but for its head's.
Sums(f, s) ==
  LET sum[k \in Nat] == IF k < 2 THEN 0 ELSE sum[k - 1] + f[s[k]]
  IN  sum

\* How long after the head active[k] is due.
Behind(k) == Sums(time, active)[k]

-----------------------------------------------------------------------------
(* hal_timer.c *)

\* The difference may be zero, and a counter at zero does not interrupt.
BugLoad(ticks) ==
  on' = TRUE /\ value' = Less(ticks, Delta) /\ elapsed' = 0

\* hal_timer_reload and hal_timer_continue
Load(ticks) ==
  /\ on' = TRUE
  /\ value' = IF ticks > Delta THEN ticks - Delta ELSE 1
  /\ elapsed' = 0

HwStart(ticks) == Load(ticks) /\ UNCHANGED irq

\* The counter is not disabled.
BugHwStop == irq' = FALSE /\ UNCHANGED <<on, value, elapsed>>

\* The registers keep their values; nothing reads them until the next load.
HwStop == on' = FALSE /\ irq' = FALSE /\ value' = 0 /\ elapsed' = 0

\* It is stopped only.
BugHwRestart(ticks) == HwStop

\* hal_timer_stop and hal_timer_start
HwRestart(ticks) == Load(ticks) /\ irq' = FALSE

\* A one-shot timer stays at zero.
Tick ==
  /\ (irq \/ pc # "idle") => late < MaxLate
  /\ on
  /\ value' = Less(value, 1)
  /\ irq' = (irq \/ value = 1)
  /\ elapsed' = elapsed + 1
  /\ late' = IF irq \/ pc # "idle" THEN late + 1 ELSE 0
  /\ left' = [t \in Timers |-> Less(left[t], 1)]
  /\ due' = [t \in Timers |-> IF st[t] = "ACTIVE" THEN due[t] - 1 ELSE 0]
  /\ UNCHANGED <<lists, on, handler, collapsed>>

-----------------------------------------------------------------------------
(* The calls *)

\* hwtimer_alloc
Alloc(t) ==
  /\ st[t] = "FREE"
  /\ st' = [st EXCEPT ![t] = "ALLOC"]
  /\ UNCHANGED <<time, active, fired, hw, handler, late, ghosts, collapsed>>

\* hwtimer_free
FreeTimer(t) ==
  /\ st[t] = "ALLOC"
  /\ st' = [st EXCEPT ![t] = "FREE"]
  /\ UNCHANGED <<time, active, fired, hw, handler, late, ghosts, collapsed>>

\* What the interrupt is late is not taken off the next timer.
BugOverdue == 0

\* What is subtracted from the requested time, if the counter has run out by
\* then: the head has been due for that long.
Overdue == IF active = <<>> THEN 0 ELSE Less(elapsed, time[Head(active)])

CounterCollapsed == ~(value <= time[Head(active)] \/ value <= Delta)

\* The list was empty, the timer is due before its head, or behind it.
StartFirst(t, ticks) ==
  /\ active = <<>> /\ active' = <<t>>
  /\ time' = [time EXCEPT ![t] = ticks]
  /\ left' = [left EXCEPT ![t] = ticks]
  /\ HwStart(ticks)
  /\ UNCHANGED collapsed

StartInFront(t, ticks) ==
  /\ active # <<>> /\ value > ticks /\ active' = <<t>> \o active
  /\ time' = [time EXCEPT ![Head(active)] = value - ticks, ![t] = ticks]
  /\ left' = [u \in Timers |-> IF u = t THEN ticks ELSE Less(left[u], 1)]
  /\ HwRestart(ticks)
  /\ collapsed' = (collapsed \/ CounterCollapsed)

Split(f, k, ticks) == IF k > Len(active) THEN f ELSE [f EXCEPT ![active[k]] = @ - ticks]

StartBehind(t, ticks) ==
  LET rest == ticks - value
      pre  == 1 + Cardinality({j \in 2 .. Len(active) : Behind(j) < rest})
      diff == rest - Behind(pre)
  IN  /\ active # <<>> /\ value <= ticks
      /\ active' = InsertAt(active, pre + 1, t)
      /\ time' = [Split(time, pre + 1, diff) EXCEPT ![t] = diff]
      /\ left' = [left EXCEPT ![t] = Less(ticks, Overdue)]
      /\ collapsed' = (collapsed \/ CounterCollapsed)
      /\ UNCHANGED hw

\* __hwtimer_start_int
Start(t, ticks) ==
  /\ st[t] \in {"ALLOC", "CALLBACK"}
  /\ st' = [st EXCEPT ![t] = "ACTIVE"]
  /\ StartFirst(t, ticks) \/ StartInFront(t, ticks) \/ StartBehind(t, ticks)
  /\ due' = [due EXCEPT ![t] = ticks]
  /\ UNCHANGED <<fired, handler, late>>

Stopped(t) == st' = [st EXCEPT ![t] = "ALLOC"] /\ UNCHANGED <<handler, late>>

\* The times of the timers that leave the active list are not read any more.
Without(f, out) == [t \in Timers |-> IF t \in out THEN 0 ELSE f[t]]

\* hwtimer_stop of the head: the hardware is set up for the next timer.
StopOnly(t) ==
  /\ active = <<t>> /\ active' = <<>>
  /\ Stopped(t) /\ HwStop
  /\ time' = Without(time, {t}) /\ left' = Without(left, {t}) /\ due' = Without(due, {t})
  /\ collapsed' = (collapsed \/ CounterCollapsed)
  /\ UNCHANGED fired

\* Those behind the head that are due as well when it is stopped get zero.
BugCaught(over) == [k \in DOMAIN active |-> time[active[k]] - over]

Caught(over) ==
  [k \in DOMAIN active |->
     IF k = 1 THEN time[active[1]]
     ELSE Less(time[active[k]], Less(over, Behind(k - 1)))]

\* What was left of the head is not handed on.
BugHandOn == [time EXCEPT ![active[2]] = @]

HandOn ==
  IF value > 0 THEN [time EXCEPT ![active[2]] = @ + value]
  ELSE [u \in Timers |->
          IF \E k \in DOMAIN active : active[k] = u
          THEN Caught(Overdue)[CHOOSE k \in DOMAIN active : active[k] = u] ELSE time[u]]

\* What a stop of the head may cost those behind it: if it was overdue, another
\* load of those that are due; and a tick that the load of a head which had
\* caught up with nothing left took.
Excused(d) == IF value > 0 THEN d + Less(value, time[Head(active)]) ELSE IF d < 0 THEN 0 ELSE d

StopHead(t) ==
  /\ Len(active) > 1 /\ Head(active) = t /\ active' = Tail(active)
  /\ Stopped(t)
  /\ time' = Without(HandOn, {t})
  /\ HwRestart(HandOn[active[2]])
  /\ left' = [u \in Timers |-> IF u = t THEN 0 ELSE Less(left[u], 1)]
  /\ collapsed' = (collapsed \/ CounterCollapsed \/ (value = 0 /\ elapsed + Delta < time[t]))
  /\ due' = [u \in Timers |-> IF u # t /\ st[u] = "ACTIVE" THEN Excused(due[u]) ELSE 0]
  /\ UNCHANGED fired

Stop(t) ==
  \E k \in 2 .. Len(active) :
    /\ active[k] = t /\ active' = RemoveAt(active, k)
    /\ time' = Without(IF k = Len(active) THEN time
                        ELSE [time EXCEPT ![active[k + 1]] = @ + time[t]], {t})
    /\ left' = Without(left, {t}) /\ due' = Without(due, {t})
    /\ Stopped(t)
    /\ UNCHANGED <<fired, hw, collapsed>>

\* Unlinks the head of the fired list, whichever it is.
BugStopFired(t) ==
  /\ Contains(fired, t) /\ fired' = Tail(fired)
  /\ Stopped(t)
  /\ UNCHANGED <<time, active, hw, ghosts, collapsed>>

StopFired(t) ==
  \E k \in DOMAIN fired :
    /\ fired[k] = t /\ fired' = RemoveAt(fired, k)
    /\ Stopped(t)
    /\ UNCHANGED <<time, active, hw, ghosts, collapsed>>

-----------------------------------------------------------------------------
(* The interrupt *)

\* hal_timer2_irq_handler: anything may still happen before hwtimer_handler
\* takes the lock.
IrqEntry ==
  /\ irq /\ pc = "idle"
  /\ irq' = FALSE /\ pc' = "entered"
  /\ UNCHANGED <<lists, on, value, elapsed, cur, late, ghosts, collapsed>>

\* Takes the next fired timer and calls its callback, or is done.
Call(list, states) ==
  IF list = <<>>
  THEN pc' = "idle" /\ cur' = NONE /\ st' = states /\ fired' = list /\ late' = 0
  ELSE /\ pc' = "callback" /\ cur' = Head(list) /\ fired' = Tail(list)
       /\ st' = [states EXCEPT ![Head(list)] = "CALLBACK"]
       /\ UNCHANGED late

\* It was stopped, and nothing or a later timer started, since the interrupt.
IrqTooLate ==
  /\ pc = "entered" /\ pc' = "idle" /\ late' = 0
  /\ \/ active = <<>> /\ collapsed' = (collapsed \/ on)
     \/ /\ active # <<>> /\ time[Head(active)] > elapsed + Delta
        /\ collapsed' = (collapsed \/ ~on)
  /\ UNCHANGED <<lists, hw, cur, ghosts>>

IrqFires ==
  LET n    == 1 + Cardinality({j \in 2 .. Len(active) : Behind(j) <= Overdue})
      hit  == SubSeq(active, 1, n)
      rest == SubSeq(active, n + 1, Len(active))
      out  == ToSet(hit)
  IN  /\ pc = "entered"
      /\ active # <<>> /\ time[Head(active)] <= elapsed + Delta
      /\ active' = rest
      /\ Call(hit, [t \in Timers |-> IF t \in out THEN "FIRED" ELSE st[t]])
      /\ IF rest = <<>> THEN HwStop /\ time' = Without(time, out)
         ELSE LET first == time[Head(rest)] - (Overdue - Behind(n))
              IN  time' = Without([time EXCEPT ![Head(rest)] = first], out) /\ HwStart(first)
      /\ left' = [t \in Timers |-> IF t \in ToSet(rest) THEN Less(left[t], 1) ELSE 0]
      /\ due' = Without(due, out)
      /\ UNCHANGED collapsed

\* A timer that was not started again in its callback can be.
CallbackReturns ==
  /\ pc = "callback"
  /\ Call(fired, [st EXCEPT ![cur] = IF @ = "CALLBACK" THEN "ALLOC" ELSE @])
  /\ UNCHANGED <<time, active, hw, ghosts, collapsed>>

Next ==
  \/ Tick
  \/ \E t \in Timers :
       \/ Alloc(t) \/ FreeTimer(t)
       \/ \E ticks \in Delta .. MaxTicks : Start(t, ticks)
       \/ StopOnly(t) \/ StopHead(t) \/ Stop(t) \/ StopFired(t)
  \/ IrqEntry \/ IrqTooLate \/ IrqFires \/ CallbackReturns

Spec == Init /\ [][Next]_vars

\* Time goes on, interrupts are taken and callbacks return.
Fairness ==
  WF_vars(Tick) /\ WF_vars(IrqEntry) /\ WF_vars(IrqTooLate \/ IrqFires) /\ WF_vars(CallbackReturns)

FairSpec == Spec /\ Fairness

-----------------------------------------------------------------------------
(* Properties *)

\* The assertions "HWTIMER collapsed": the interrupt never finds an empty list
\* and a running timer, or the reverse, whoever got in between; the counter never
\* shows more than the head has left.
NeverCollapses == ~collapsed

\* The lists hold what the states say, each timer once.  hwtimer_stop asserts
\* that it finds an active and a fired timer there.
ListsMatch ==
  /\ IsInjective(active \o fired)
  /\ {t \in Timers : st[t] = "ACTIVE"} = ToSet(active)
  /\ {t \in Timers : st[t] = "FIRED"} = ToSet(fired)
  /\ \A t \in Timers : st[t] = "CALLBACK" => pc = "callback" /\ cur = t

\* While a timer is active its interrupt is on its way: the counter runs and is
\* not past what the head has left.
HardwareArmed ==
  active # <<>> =>
    /\ on
    /\ irq \/ pc = "entered" \/ (value > 0 /\ (value = 1 \/ value + elapsed <= time[Head(active)]))

\* A timer fires early by no more than one tick each time the hardware was set
\* up while it waited, and the time for which the head of the list was overdue
\* when it was started.
NotEarly ==
  [][\A t \in Timers : st[t] = "ACTIVE" /\ st'[t] \in {"FIRED", "CALLBACK"} => left[t] <= Delta]_vars

\* Nor is it late by more than the interrupt can be, which waits for a handler
\* that runs, and a tick: what it was late is taken off the next timer.  Only heads
\* that are stopped can add to this, each time by what Excused says.
NotLate == \A t \in Timers : st[t] = "ACTIVE" => due[t] + 2 * MaxLate + Delta >= 0

\* A timer that is not stopped fires, unless heads of the list are stopped over
\* and over when their interrupt is pending: each such stop takes the interrupt
\* back, and a timer started for the same time goes in front.
EveryTimerFires ==
  \/ []<><<value = 0 /\ \E t \in Timers : StopHead(t)>>_vars
  \/ \A t \in Timers : st[t] = "ACTIVE" ~> st[t] # "ACTIVE"

-----------------------------------------------------------------------------
(* The inductive invariant                                                   *)

\* What has fired waits for the handler that runs.
HandlerInv == IF pc = "callback" THEN cur \in Timers ELSE cur = NONE /\ fired = <<>>

\* The ticks the hardware takes for the head: one, if it had nothing left.
HeadLoad == IF time[Head(active)] > 1 THEN time[Head(active)] ELSE 1

\* How late an interrupt was before its handler is in a callback, or from the end
\* of the last: late starts again from zero.
Before == IF pc = "callback" THEN 0 ELSE MaxLate

\* The counter says what the head has left, give or take the tick of a load; once
\* it is at zero the interrupt is on its way, and as late as ticks have passed.
CounterInv ==
  IF active = <<>> THEN ~on /\ value = 0 /\ ~irq
  ELSE /\ on
       /\ value + elapsed + Delta >= time[Head(active)]
       /\ value > 0 => value + elapsed <= HeadLoad
       /\ value = 0 => /\ irq \/ pc = "entered"
                       /\ elapsed <= HeadLoad + late + Before

\* How far the list is from each timer, against what was asked for.
WaitInv ==
  \A k \in DOMAIN active :
    /\ left[active[k]] <= Less(HeadLoad + Behind(k), elapsed)
    /\ due[active[k]] + elapsed >= Less(time[Head(active)] + Behind(k), Delta)

TimerInv == TypeOK /\ ListsMatch /\ NeverCollapses /\ HandlerInv /\ CounterInv /\ WaitInv
=============================================================================

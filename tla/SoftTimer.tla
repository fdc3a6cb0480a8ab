----------------------------- MODULE SoftTimer -------------------------------
(* The software timers of vendor/common/blt_soft_timer.c: a table sorted by    *)
(* due time on a clock that wraps, of which blt_soft_timer_process looks at    *)
(* the first entry to decide whether there is anything to do.                  *)
(*                                                                            *)
(* blt_soft_timer_process takes the time once and then calls the callbacks of  *)
(* all expired timers, each a step of its own here, while the clock goes on.   *)
(* A callback answers with a negative number (delete the timer), 0 (again      *)
(* after the same interval) or a new interval; callbacks that add or delete    *)
(* timers themselves are left out.                                             *)
EXTENDS Integers, Sequences, SequencesExt

CONSTANTS
    Func,           \* callback functions
    Interval,       \* intervals in use
    MaxTimerNum,    \* MAX_TIMER_NUM
    M,              \* the clock counts modulo M (2^32)
    Pre,            \* BLT_TIMER_SAFE_MARGIN_PRE
    Post,           \* BLT_TIMER_SAFE_MARGIN_POST
    WakeMax,        \* 3000 ms: later wake-ups are not set
    MaxGap          \* bound: clock ticks without a call of process

LongestInterval == CHOOSE n \in Interval : \A m \in Interval : m <= n

(* A timer is late by no more than the margin allows, and the due times in the *)
(* table lie within the quarter of the clock that TIME_COMPARE_BIG tells apart. *)
ASSUME TimerAssumption ==
    /\ MaxTimerNum \in Nat \ {0} /\ Interval \subseteq Nat \ {0}
    /\ M \in Nat \ {0} /\ M % 4 = 0
    /\ Pre \in Nat /\ Post \in Nat /\ Pre < Post /\ WakeMax \in Nat /\ MaxGap \in Nat
    /\ LongestInterval + Post < M \div 4 + Pre + 1

Off == -1
Time == 0 .. M - 1
Timer == [cb : Func, t : Time, interval : Interval]

VARIABLES
    clock,      \* clock_time()
    timer,      \* blt_timer.timer[0 .. currentNum - 1]
    wake,       \* bls_pm_setAppWakeupLowPower: Off or the time
    i,          \* index in the loop of process, 0: not in it
    now,        \* its time
    change,     \* its change_flg
    gap         \* ticks since process began its last call

table == <<timer, wake>>
vars == <<clock, timer, wake, i, now, change, gap>>

Init ==
    /\ clock = 0 /\ timer = <<>> /\ wake = Off
    /\ i = 0 /\ now = 0 /\ change = FALSE /\ gap = 0

-----------------------------------------------------------------------------
Plus(t, d) == (t + d) % M
Diff(t1, t2) == (t1 - t2) % M       \* (u32)(t1 - t2)

TimeCompareBig(t1, t2) == Diff(t1, t2) < M \div 4
IsTimerExpired(t, n) == Diff(Plus(n, Pre), t) < Post

\* One comparison of the bubble sort
CompareSwap(s, j) ==
    IF TimeCompareBig(s[j].t, s[j + 1].t)
    THEN [s EXCEPT ![j] = s[j + 1], ![j + 1] = s[j]]
    ELSE s

\* The values of j in the two loops of the bubble sort of n entries
Passes(n) == FlattenSeq([p \in 1 .. n - 1 |-> [j \in 1 .. n - p |-> j]])

TimerSort(s) == FoldLeft(CompareSwap, s, Passes(Len(s)))

\* The wake-up for the first timer of s, seen from time n
WakeFor(s, n) == IF s # <<>> /\ Diff(s[1].t, n) < WakeMax THEN s[1].t ELSE Off

-----------------------------------------------------------------------------
\* blt_soft_timer_add; it returns 0 when the table is full
Add(f, d) ==
    /\ i = 0 /\ Len(timer) < MaxTimerNum
    /\ timer' = TimerSort(Append(timer, [cb |-> f, t |-> Plus(clock, d), interval |-> d]))
    /\ UNCHANGED <<clock, wake, i, now, change, gap>>

\* blt_soft_timer_delete.  timer[0] is looked at even if the table is now empty:
\* it then still is the entry that was deleted.
Delete(f) ==
    /\ i = 0
    /\ \E k \in 1 .. Len(timer) :
        /\ timer[k].cb = f /\ \A l \in 1 .. k - 1 : timer[l].cb # f
        /\ timer' = RemoveAt(timer, k)
        /\ wake' = IF k > 1 THEN wake
                   ELSE WakeFor(IF Len(timer) = 1 THEN timer ELSE timer', clock)
    /\ UNCHANGED <<clock, i, now, change, gap>>

-----------------------------------------------------------------------------
(* blt_soft_timer_process                                                     *)
ProcessNone ==
    /\ i = 0 /\ gap' = 0
    /\ IF timer = <<>> THEN wake' = Off
       ELSE ~IsTimerExpired(timer[1].t, clock) /\ UNCHANGED wake
    /\ UNCHANGED <<clock, timer, i, now, change>>

ProcessStart ==
    /\ i = 0 /\ timer # <<>> /\ IsTimerExpired(timer[1].t, clock)
    /\ i' = 1 /\ now' = clock /\ change' = FALSE /\ gap' = 0
    /\ UNCHANGED <<clock, timer, wake>>

Due == i \in 1 .. Len(timer) /\ IsTimerExpired(timer[i].t, now)

\* mutant: the loop ends with the first timer deleted
CallbackDeleteLeave ==
    /\ Due
    /\ timer' = RemoveAt(timer, i)
    /\ i' = MaxTimerNum + 1
    /\ UNCHANGED <<clock, wake, now, change, gap>>

\* the callback of timer[i] returned a negative number; the loop goes on with
\* i + 1, so the entry that moves to i is passed over
CallbackDelete ==
    /\ Due
    /\ timer' = RemoveAt(timer, i)
    /\ i' = i + 1
    /\ UNCHANGED <<clock, wake, now, change, gap>>

\* it returned 0, d is the interval of the timer, or the new interval d
CallbackAgain(d) ==
    /\ Due
    /\ timer' = [timer EXCEPT ![i].t = Plus(now, d), ![i].interval = d]
    /\ change' = TRUE
    /\ i' = i + 1
    /\ UNCHANGED <<clock, wake, now, gap>>

ProcessSkip ==
    /\ i \in 1 .. Len(timer) /\ ~IsTimerExpired(timer[i].t, now)
    /\ i' = i + 1
    /\ UNCHANGED <<clock, timer, wake, now, change, gap>>

\* mutant: the table is left as the callbacks made it
ProcessEndUnsorted ==
    /\ i > Len(timer)
    /\ wake' = WakeFor(timer, now)
    /\ i' = 0 /\ now' = 0 /\ change' = FALSE
    /\ UNCHANGED <<clock, timer, gap>>

ProcessEnd ==
    /\ i > Len(timer)
    /\ timer' = IF change THEN TimerSort(timer) ELSE timer
    /\ wake' = WakeFor(timer', now)
    /\ i' = 0 /\ now' = 0 /\ change' = FALSE
    /\ UNCHANGED <<clock, gap>>

Process ==
    \/ ProcessNone \/ ProcessStart \/ CallbackDelete
    \/ \E d \in Interval : CallbackAgain(d)
    \/ ProcessSkip \/ ProcessEnd

-----------------------------------------------------------------------------
\* The clock; the main loop comes back to process within MaxGap ticks
Tick ==
    /\ gap < MaxGap
    /\ clock' = Plus(clock, 1) /\ gap' = gap + 1
    /\ UNCHANGED <<table, i, now, change>>

Next ==
    \/ \E f \in Func, d \in Interval : Add(f, d)
    \/ \E f \in Func : Delete(f)
    \/ Process
    \/ Tick

Spec == Init /\ [][Next]_vars

-----------------------------------------------------------------------------
\* The table never has more than MAX_TIMER_NUM entries, which sort would take for an
\* error and stop (blt_soft_timer.c:47).
TypeOK ==
    /\ clock \in Time /\ now \in Time /\ gap \in 0 .. MaxGap
    /\ timer \in Seq(Timer) /\ Len(timer) <= MaxTimerNum
    /\ wake \in Time \cup {Off} /\ change \in BOOLEAN
    /\ i \in 0 .. MaxTimerNum + 1

\* How late a timer is; negative before it is due
Late(t) == IF Diff(clock, t) < M \div 2 THEN Diff(clock, t) ELSE -Diff(t, clock)

\* Between two calls of process the table is in the order of the due times, also
\* over the wrap of the clock and after entries were deleted.
Ordered ==
    /\ TypeOK
    /\ i = 0 => \A k \in 1 .. Len(timer) - 1 : Late(timer[k].t) >= Late(timer[k + 1].t)

\* No timer is so late that it no longer counts as expired: it, and all behind it,
\* would wait until the clock comes round.  Up to two calls of process pass over a
\* timer because the entry before it was deleted.
NeverMissed == i = 0 => \A k \in 1 .. Len(timer) : Late(timer[k].t) < Post - Pre
=============================================================================

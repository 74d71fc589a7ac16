-------------------------------- MODULE Timer --------------------------------
(***************************************************************************)
(* util::timer (util/timer.cpp): one-shot timers of the thread pool whose  *)
(* cancellation waits for a callback that is already running.  The owner   *)
(* says which calls a callback makes.                                      *)
(***************************************************************************)
EXTENDS ThreadPool

CONSTANTS Timers,     \* the timers of the owner
          Purpose     \* what the owner sets a timer for

VARIABLE armed      \* what each timer is set for, "off" when it is not set

TimerTypeOK == armed \in [Timers -> Purpose \cup {"off"}]

TimerInit == armed = [x \in Timers |-> "off"]

\* timer::cancel(), the wait of it, and the return of timer_callback().
StopTimer(x)  == Frame("stop_timer", x, "none", "none")
AwaitTimer(x) == Frame("await_timer", x, "none", "none")
TimerEnd(x)   == Frame("timer_end", x, "none", "none")

\* expires_in() replaces the due time of a timer that is already set.
ExpiresIn(x, purpose) == armed' = [armed EXCEPT ![x] = purpose]

\* cancel(), first half: SetThreadpoolTimer(nullptr).
Disarm(t) ==
  /\ Running(t, "stop_timer")
  /\ armed' = [armed EXCEPT ![On(t)] = "off"]
  /\ Replace(t, <<AwaitTimer(On(t))>>)

\* Thread t is executing the callback of timer x.
InCallback(t, x) == OnStack(t, TimerEnd(x))

\* cancel(), second half: WaitForThreadpoolTimerCallbacks() returns when no
\* thread executes the callback, the calling thread included.
CallbacksAwaited(t) ==
  /\ Running(t, "await_timer")
  /\ \A u \in Thread : ~InCallback(u, On(t))
  /\ Return(t)
  /\ UNCHANGED armed

\* timer_callback() of timer x, run by the idle thread t: the calls of the
\* owner.
Expire(t, x, calls) ==
  /\ armed[x] # "off"
  /\ armed' = [armed EXCEPT ![x] = "off"]
  /\ Start(t, calls \o <<TimerEnd(x)>>)

CallbackEnds(t) ==
  /\ Running(t, "timer_end")
  /\ Return(t)
  /\ UNCHANGED armed

=============================================================================

----------------------------- MODULE ProxyCalls -----------------------------
(***************************************************************************)
(* The calls of the proxy connection, by their kinds, and what each action *)
(* does to the number of calls of each kind: which operation, disconnect   *)
(* or close it takes off a stack and which it puts there.                  *)
(***************************************************************************)
EXTENDS Proxy, CallCounts

Bit(b) == IF b THEN 1 ELSE 0

Flag == {"cancel_timer", "keep_timer"}

-----------------------------------------------------------------------------
(* Kinds of calls.                                                         *)

\* The calls that start operation op of side s, or tell what came of it.
Carry(s, op) == {Begin(s, op)} \cup {Complete(s, op, r) : r \in Outcome}

\* The calls of close(), of close() with its lock taken, and the reset of
\* the open flag.
Clearers(s) == {ClearOpen(s, a) : a \in Flag}
Lockers(s) == {TestOpen(s, a) : a \in Flag} \cup Clearers(s)
Closers(s) == {Close(s, a) : a \in Flag} \cup Lockers(s)

Cancels(s) == {CancelIo(s, op) : op \in Tracked}

Begins(s, op) == {Begin(s, op)}
Ends(s, op, r) == {Complete(s, op, r)}

\* The other side.
Other(s) == IF s = "server" THEN "client" ELSE "server"

Finite == IsFiniteSet(Places(stack, Calls))

\* The type invariant, for a counter that may wrap.
Typed ==
  /\ SocketTypeOK
  /\ TimerTypeOK
  /\ stack \in [Thread -> Seq(Calls)]
  /\ open \in [Side -> BOOLEAN]
  /\ mutex \in [Side -> BOOLEAN]
  /\ nconnections \in 0 .. CounterSize - 1

-----------------------------------------------------------------------------
(* Calls and their kinds.                                                  *)

SetPending(s, op) == Frame("io_pending", s, op, "none")

LEMMA FramesAreCalls ==
  /\ \A s \in Side, op \in Operation :
       Begin(s, op) \in Calls /\ \A r \in Outcome : Complete(s, op, r) \in Calls
  /\ \A s \in Side, op \in Tracked :
       CancelIo(s, op) \in Calls /\ SetPending(s, op) \in Calls
  /\ \A s \in Side, a \in Flag :
       Close(s, a) \in Calls /\ TestOpen(s, a) \in Calls /\ ClearOpen(s, a) \in Calls
  /\ StopTimer("timer") \in Calls /\ AwaitTimer("timer") \in Calls /\ TimerEnd("timer") \in Calls
  BY DEF Calls, Begin, CancelIo, Complete, SetPending, Close, TestOpen, ClearOpen, Frame, Flag,
         StopTimer, AwaitTimer, TimerEnd

LEMMA KindsOfCalls ==
  /\ Calls \in SUBSET Calls
  /\ \A s \in Side :
       /\ \A op \in Operation : /\ Carry(s, op) \in SUBSET Calls
                                /\ Begins(s, op) \in SUBSET Calls
                                /\ \A r \in Outcome : Ends(s, op, r) \in SUBSET Calls
       /\ Closers(s) \in SUBSET Calls
       /\ Lockers(s) \in SUBSET Calls
       /\ Clearers(s) \in SUBSET Calls
       /\ Cancels(s) \in SUBSET Calls
  BY FramesAreCalls DEF Carry, Begins, Ends, Closers, Lockers, Clearers, Cancels

\* A call is known by its name and its fields.
LEMMA CallNamed ==
  ASSUME NEW f \in Calls
  PROVE  /\ f.call = "begin" =>
              f.on \in Side /\ f.op \in Operation /\ f = Begin(f.on, f.op)
         /\ f.call = "cancel" =>
              f.on \in Side /\ f.op \in Tracked /\ f = CancelIo(f.on, f.op)
         /\ f.call = "io_pending" =>
              f.on \in Side /\ f.op \in Tracked /\ f = SetPending(f.on, f.op)
         /\ f.call = "complete" =>
              /\ f.on \in Side /\ f.op \in Operation /\ f.arg \in Outcome
              /\ f = Complete(f.on, f.op, f.arg)
         /\ f.call = "close" => f.on \in Side /\ f.arg \in Flag /\ f = Close(f.on, f.arg)
         /\ f.call = "test_open" => f.on \in Side /\ f.arg \in Flag /\ f = TestOpen(f.on, f.arg)
         /\ f.call = "clear_open" => f.on \in Side /\ f.arg \in Flag /\ f = ClearOpen(f.on, f.arg)
         /\ f.call = "stop_timer" => f.on = "timer" /\ f = StopTimer("timer")
         /\ f.call = "await_timer" => f.on = "timer" /\ f = AwaitTimer("timer")
         /\ f.call = "timer_end" => f.on = "timer" /\ f = TimerEnd("timer")
  BY DEF Calls, Flag, Begin, CancelIo, SetPending, Complete, Close, TestOpen, ClearOpen,
         StopTimer, AwaitTimer, TimerEnd, Frame

\* The name and the fields of a call say of which kind it is.
LEMMA KindFields ==
  ASSUME NEW f \in Calls, NEW s \in Side
  PROVE  /\ \A op \in Operation :
              /\ f \in Carry(s, op) <=> f.call \in {"begin", "complete"} /\ f.on = s /\ f.op = op
              /\ f \in Begins(s, op) <=> f.call = "begin" /\ f.on = s /\ f.op = op
              /\ \A r \in Outcome :
                   f \in Ends(s, op, r) <=> /\ f.call = "complete" /\ f.on = s
                                            /\ f.op = op /\ f.arg = r
         /\ f \in Closers(s) <=> f.call \in {"close", "test_open", "clear_open"} /\ f.on = s
         /\ f \in Lockers(s) <=> f.call \in {"test_open", "clear_open"} /\ f.on = s
         /\ f \in Clearers(s) <=> f.call = "clear_open" /\ f.on = s
         /\ f \in Cancels(s) <=> f.call = "cancel" /\ f.on = s
  <1>1. \A op \in Operation :
          f \in Carry(s, op) <=> f.call \in {"begin", "complete"} /\ f.on = s /\ f.op = op
    <2>1. ASSUME NEW op \in Operation, f \in Carry(s, op)
          PROVE  f.call \in {"begin", "complete"} /\ f.on = s /\ f.op = op
      BY <2>1 DEF Carry, Begin, Complete, Frame
    <2> QED
      BY <2>1, CallNamed DEF Carry
  <1>2. f \in Clearers(s) <=> f.call = "clear_open" /\ f.on = s
    <2>1. f \in Clearers(s) => f.call = "clear_open" /\ f.on = s
      BY DEF Clearers, ClearOpen, Frame
    <2> QED
      BY <2>1, CallNamed DEF Clearers
  <1>3. f \in Lockers(s) <=> f.call \in {"test_open", "clear_open"} /\ f.on = s
    <2>1. f \in {TestOpen(s, a) : a \in Flag} => f.call = "test_open" /\ f.on = s
      BY DEF TestOpen, Frame
    <2> QED
      BY <1>2, <2>1, CallNamed DEF Lockers
  <1>4. f \in Closers(s) <=> f.call \in {"close", "test_open", "clear_open"} /\ f.on = s
    <2>1. f \in {Close(s, a) : a \in Flag} => f.call = "close" /\ f.on = s
      BY DEF Close, Frame
    <2> QED
      BY <1>3, <2>1, CallNamed DEF Closers
  <1>5. f \in Cancels(s) <=> f.call = "cancel" /\ f.on = s
    <2>1. f \in Cancels(s) => f.call = "cancel" /\ f.on = s
      BY DEF Cancels, CancelIo, Frame
    <2> QED
      BY <2>1, CallNamed DEF Cancels
  <1>6. \A op \in Operation :
          f \in Begins(s, op) <=> f.call = "begin" /\ f.on = s /\ f.op = op
    <2>1. \A op \in Operation :
            f = Begin(s, op) => f.call = "begin" /\ f.on = s /\ f.op = op
      BY DEF Begin, Frame
    <2> QED
      BY <2>1, CallNamed DEF Begins
  <1>7. \A op \in Operation, r \in Outcome :
          f \in Ends(s, op, r) <=> f.call = "complete" /\ f.on = s /\ f.op = op /\ f.arg = r
    <2>1. \A op \in Operation, r \in Outcome :
            f = Complete(s, op, r) =>
              f.call = "complete" /\ f.on = s /\ f.op = op /\ f.arg = r
      BY DEF Complete, Frame
    <2> QED
      BY <2>1, CallNamed DEF Ends
  <1> QED
    BY <1>1, <1>2, <1>3, <1>4, <1>5, <1>6, <1>7

\* How a call counts, for each kind.
LEMMA Hits ==
  ASSUME NEW f \in Calls, NEW s \in Side
  PROVE  /\ \A op \in Operation :
              /\ Hit(f, Carry(s, op))
                   = Bit(f.call \in {"begin", "complete"} /\ f.on = s /\ f.op = op)
              /\ Hit(f, Begins(s, op)) = Bit(f.call = "begin" /\ f.on = s /\ f.op = op)
              /\ \A r \in Outcome :
                   Hit(f, Ends(s, op, r))
                     = Bit(f.call = "complete" /\ f.on = s /\ f.op = op /\ f.arg = r)
         /\ Hit(f, Closers(s)) = Bit(f.call \in {"close", "test_open", "clear_open"} /\ f.on = s)
         /\ Hit(f, Lockers(s)) = Bit(f.call \in {"test_open", "clear_open"} /\ f.on = s)
         /\ Hit(f, Clearers(s)) = Bit(f.call = "clear_open" /\ f.on = s)
         /\ Hit(f, Cancels(s)) = Bit(f.call = "cancel" /\ f.on = s)
         /\ Hit(f, Calls) = 1
  BY KindFields DEF Hit, Bit

\* The call a thread executes is one of Calls.
LEMMA HeadIsCall ==
  ASSUME Typed, NEW t \in Thread, ~Idle(t)
  PROVE  Head(stack[t]) \in Calls
  BY HeadTailProperties DEF Typed, Idle

LEMMA FrameFields ==
  /\ \A s, op : /\ Begin(s, op).call = "begin" /\ Begin(s, op).on = s /\ Begin(s, op).op = op
                /\ CancelIo(s, op).call = "cancel" /\ CancelIo(s, op).on = s
                /\ SetPending(s, op).call = "io_pending"
  /\ \A s, op, r : /\ Complete(s, op, r).call = "complete" /\ Complete(s, op, r).on = s
                   /\ Complete(s, op, r).op = op /\ Complete(s, op, r).arg = r
  /\ \A s, a : /\ Close(s, a).call = "close" /\ Close(s, a).on = s
               /\ TestOpen(s, a).call = "test_open" /\ TestOpen(s, a).on = s
               /\ ClearOpen(s, a).call = "clear_open" /\ ClearOpen(s, a).on = s
  /\ \A x : /\ StopTimer(x).call = "stop_timer" /\ AwaitTimer(x).call = "await_timer"
            /\ TimerEnd(x).call = "timer_end"
  BY DEF Begin, CancelIo, SetPending, Complete, Close, TestOpen, ClearOpen,
         StopTimer, AwaitTimer, TimerEnd, Frame

-----------------------------------------------------------------------------
(* What a step does to the numbers of calls.                               *)

\* Thread t executes the call at the head of its stack, which makes calls.
Moves(t, calls) ==
  \A F \in SUBSET Calls :
    /\ Count(stack, F) \in Nat /\ Count(stack', F) \in Nat
    /\ Count(stack', F) + Hit(Head(stack[t]), F) = Count(stack, F) + Tally(calls, F)

LEMMA Replaces ==
  ASSUME Typed, Finite, NEW t \in Thread, ~Idle(t),
         NEW calls \in Seq(Calls), Replace(t, calls)
  PROVE  /\ stack' \in [Thread -> Seq(Calls)]
         /\ Finite'
         /\ Moves(t, calls)
  <1>1. stack \in [Thread -> Seq(Calls)] /\ stack' = [stack EXCEPT ![t] = calls \o Tail(@)]
    BY DEF Typed, Replace
  <1>2. stack' \in [Thread -> Seq(Calls)]
    <2>1. calls \o Tail(stack[t]) \in Seq(Calls)
      BY <1>1, HeadTailProperties, ConcatProperties DEF Idle
    <2> QED
      BY <1>1, <2>1
  <1>3. Executes(t, stack, stack', calls)
    BY <1>1 DEF Executes, ChangesAt, Idle
  <1>4. stack \in Stacks(Thread, Calls) /\ stack' \in Stacks(Thread, Calls)
    BY <1>1, <1>2 DEF Stacks
  <1>5. \A F \in SUBSET Calls : IsFiniteSet(Places(stack, F))
    BY CountSubset DEF Finite
  <1>6. \A F \in SUBSET Calls :
          /\ IsFiniteSet(Places(stack', F))
          /\ Count(stack, F) \in Nat /\ Count(stack', F) \in Nat
          /\ Count(stack', F) + Hit(Head(stack[t]), F) = Count(stack, F) + Tally(calls, F)
    BY <1>3, <1>4, <1>5, Replaced
  <1> QED
    BY <1>2, <1>6 DEF Finite, Moves

\* The idle thread t of the pool starts calls.
Adds(calls) ==
  \A F \in SUBSET Calls :
    /\ Count(stack, F) \in Nat /\ Count(stack', F) \in Nat
    /\ Count(stack', F) = Count(stack, F) + Tally(calls, F)

LEMMA StartsCalls ==
  ASSUME Typed, Finite, NEW t, NEW calls \in Seq(Calls), Start(t, calls)
  PROVE  /\ stack' \in [Thread -> Seq(Calls)]
         /\ Finite'
         /\ Adds(calls)
  <1>1. /\ t \in Thread /\ stack \in [Thread -> Seq(Calls)]
        /\ stack[t] = <<>> /\ stack' = [stack EXCEPT ![t] = calls]
    BY DEF Typed, Start, Thread, Idle
  <1>2. stack' \in [Thread -> Seq(Calls)] /\ stack'[t] = calls
    BY <1>1
  <1>3. ChangesAt(t, stack, stack')
    BY <1>1 DEF ChangesAt
  <1>4. stack \in Stacks(Thread, Calls) /\ stack' \in Stacks(Thread, Calls)
    BY <1>1, <1>2 DEF Stacks
  <1>5. \A F \in SUBSET Calls : IsFiniteSet(Places(stack, F))
    BY CountSubset DEF Finite
  <1>6. \A F \in SUBSET Calls :
          /\ IsFiniteSet(Places(stack', F))
          /\ Count(stack, F) \in Nat /\ Count(stack', F) \in Nat
          /\ Count(stack', F) = Count(stack, F) + Tally(stack'[t], F)
    <2>1. t \in Thread
      BY <1>1
    <2>2. stack[t] = <<>>
      BY <1>1
    <2> QED
      BY <1>3, <1>4, <1>5, <2>1, <2>2, Started
  <1> QED
    BY <1>2, <1>6 DEF Finite, Adds

-----------------------------------------------------------------------------
(* What the calls of a sequence are worth.                                 *)

\* The operations the calls c carry, the disconnects among them that are
\* still to be started, and the outcomes they tell.
Carries(c, carried, disconnects, ends) ==
  /\ c \in Seq(Calls)
  /\ \A s \in Side :
       /\ Tally(c, Begins(s, "disconnect")) = Bit(s \in disconnects)
       /\ \A op \in Operation :
            /\ Tally(c, Carry(s, op)) = Bit(<<s, op>> \in carried)
            /\ \A r \in Outcome : Tally(c, Ends(s, op, r)) = Bit(<<s, op, r>> \in ends)

\* The sides the calls c close, close with the lock taken and mark as
\* closed, and the only ones whose operations they may cancel.
Closes(c, closes, locks, clears, cancels) ==
  \A s \in Side :
    /\ Tally(c, Closers(s)) = Bit(s \in closes)
    /\ Tally(c, Lockers(s)) = Bit(s \in locks)
    /\ Tally(c, Clearers(s)) = Bit(s \in clears)
    /\ s \notin cancels => Tally(c, Cancels(s)) = 0

LEMMA NoCall ==
  Carries(<<>>, {}, {}, {}) /\ Closes(<<>>, {}, {}, {}, {})
  BY TallyNone DEF Carries, Closes, Bit

LEMMA OneBegin ==
  ASSUME NEW x \in Side, NEW o \in Operation
  PROVE  /\ o # "disconnect" => Carries(<<Begin(x, o)>>, {<<x, o>>}, {}, {})
         /\ Carries(<<Begin(x, "disconnect")>>, {<<x, "disconnect">>}, {x}, {})
         /\ Closes(<<Begin(x, o)>>, {}, {}, {}, {})
  <1>1. Begin(x, o) \in Calls /\ Begin(x, "disconnect") \in Calls
    BY FramesAreCalls DEF Operation
  <1> QED
    BY <1>1, FrameFields, Hits, TallyOne DEF Carries, Closes, Bit, Operation

LEMMA OneEnd ==
  ASSUME NEW x \in Side, NEW o \in Operation, NEW r \in Outcome
  PROVE  /\ Carries(<<Complete(x, o, r)>>, {<<x, o>>}, {}, {<<x, o, r>>})
         /\ Closes(<<Complete(x, o, r)>>, {}, {}, {}, {})
  <1>1. Complete(x, o, r) \in Calls
    BY FramesAreCalls
  <1> QED
    BY <1>1, FrameFields, Hits, TallyOne DEF Carries, Closes, Bit, Operation

\* Calls that neither carry an operation nor close a side.
LEMMA OneOther ==
  ASSUME NEW f \in Calls, f.call \in {"io_pending", "stop_timer", "await_timer", "timer_end"}
  PROVE  Carries(<<f>>, {}, {}, {}) /\ Closes(<<f>>, {}, {}, {}, {})
  BY Hits, TallyOne DEF Carries, Closes, Bit, Operation

LEMMA OneCancel ==
  ASSUME NEW x \in Side, NEW o \in Tracked
  PROVE  /\ Carries(<<CancelIo(x, o)>>, {}, {}, {})
         /\ Closes(<<CancelIo(x, o)>>, {}, {}, {}, {x})
  <1>1. CancelIo(x, o) \in Calls
    BY FramesAreCalls
  <1> QED
    BY <1>1, FrameFields, Hits, TallyOne DEF Carries, Closes, Bit, Operation

LEMMA OneClose ==
  ASSUME NEW x \in Side, NEW a \in Flag
  PROVE  /\ Carries(<<Close(x, a)>>, {}, {}, {})
         /\ Closes(<<Close(x, a)>>, {x}, {}, {}, {})
         /\ Carries(<<TestOpen(x, a)>>, {}, {}, {})
         /\ Closes(<<TestOpen(x, a)>>, {x}, {x}, {}, {})
         /\ Carries(<<ClearOpen(x, a)>>, {}, {}, {})
         /\ Closes(<<ClearOpen(x, a)>>, {x}, {x}, {x}, {})
  <1>1. Close(x, a) \in Calls /\ TestOpen(x, a) \in Calls /\ ClearOpen(x, a) \in Calls
    BY FramesAreCalls
  <1> QED
    BY <1>1, FrameFields, Hits, TallyOne DEF Carries, Closes, Bit, Operation

\* stop_timer and one begin, or two of them.
LEMMA StopAndBegin ==
  ASSUME NEW x \in Side, NEW o \in Operation \ {"disconnect"}, NEW y \in Side, x # y
  PROVE  /\ Carries(<<StopTimer("timer"), Begin(x, o)>>, {<<x, o>>}, {}, {})
         /\ Closes(<<StopTimer("timer"), Begin(x, o)>>, {}, {}, {}, {})
         /\ Carries(<<StopTimer("timer"), Begin(x, o), Begin(y, o)>>,
                    {<<x, o>>, <<y, o>>}, {}, {})
         /\ Closes(<<StopTimer("timer"), Begin(x, o), Begin(y, o)>>, {}, {}, {}, {})
  <1>1. Begin(x, o) \in Calls /\ Begin(y, o) \in Calls /\ StopTimer("timer") \in Calls
    BY FramesAreCalls
  <1>2. /\ <<StopTimer("timer"), Begin(x, o)>> \in Seq(Calls)
        /\ <<StopTimer("timer"), Begin(x, o), Begin(y, o)>> \in Seq(Calls)
    BY <1>1
  <1>3. Carries(<<StopTimer("timer"), Begin(x, o)>>, {<<x, o>>}, {}, {})
    BY <1>1, <1>2, FrameFields, Hits, TallyTwo DEF Carries, Bit, Operation
  <1>4. Closes(<<StopTimer("timer"), Begin(x, o)>>, {}, {}, {}, {})
    BY <1>1, <1>2, FrameFields, Hits, TallyTwo DEF Closes, Bit
  <1>5. Carries(<<StopTimer("timer"), Begin(x, o), Begin(y, o)>>, {<<x, o>>, <<y, o>>}, {}, {})
    BY <1>1, <1>2, FrameFields, Hits, TallyThree DEF Carries, Bit, Operation
  <1>6. Closes(<<StopTimer("timer"), Begin(x, o), Begin(y, o)>>, {}, {}, {}, {})
    BY <1>1, <1>2, FrameFields, Hits, TallyThree DEF Closes, Bit
  <1> QED
    BY <1>3, <1>4, <1>5, <1>6

\* close_connections(), in a callback of a transfer and in that of the timer.
LEMMA CloseBoth ==
  ASSUME NEW a \in Flag
  PROVE  /\ Carries(CloseConnections(a), {}, {}, {})
         /\ Closes(CloseConnections(a), Side, {}, {}, {})
         /\ Carries(CloseConnections(a) \o <<TimerEnd("timer")>>, {}, {}, {})
         /\ Closes(CloseConnections(a) \o <<TimerEnd("timer")>>, Side, {}, {}, {})
  <1> DEFINE c == CloseConnections(a)
             end == <<TimerEnd("timer")>>
  <1>1. Close("client", "keep_timer") \in Calls /\ Close("server", a) \in Calls
    BY FramesAreCalls DEF Side, Flag
  <1>2. c \in Seq(Calls)
    BY <1>1 DEF CloseConnections
  <1>3. Carries(c, {}, {}, {}) /\ Closes(c, Side, {}, {}, {})
    <2>1. \A F : Tally(c, F) = Hit(Close("client", "keep_timer"), F) + Hit(Close("server", a), F)
      BY TallyTwo DEF CloseConnections
    <2> HIDE DEF c
    <2> QED
      BY <1>1, <1>2, <2>1, FrameFields, Hits DEF Carries, Closes, Bit, Operation, Side
  <1>4. Carries(end, {}, {}, {}) /\ Closes(end, {}, {}, {}, {})
    <2>1. TimerEnd("timer") \in Calls /\ TimerEnd("timer").call = "timer_end"
      BY FramesAreCalls, FrameFields
    <2> QED
      BY <2>1, OneOther
  <1> HIDE DEF c, end
  <1>5. end \in Seq(Calls) /\ c \o end \in Seq(Calls)
    BY <1>2, <1>4, ConcatProperties DEF Carries
  <1>6. \A F : Tally(c \o end, F) = Tally(c, F) + Tally(end, F)
    BY <1>2, <1>5, TallyConcat
  <1>7. Carries(c \o end, {}, {}, {}) /\ Closes(c \o end, Side, {}, {}, {})
    BY <1>3, <1>4, <1>5, <1>6 DEF Carries, Closes, Bit
  <1> QED
    BY <1>3, <1>7 DEF c, end

\* What close() does to a side that is open.
CloseOpenCalls(x, a) ==
  (IF a = "cancel_timer" THEN <<StopTimer("timer")>> ELSE <<>>)
    \o <<CancelIo(x, "receive"), CancelIo(x, "send"), Begin(x, "disconnect")>>

LEMMA ClosesSide ==
  ASSUME NEW x \in Side, NEW a \in Flag
  PROVE  /\ Carries(CloseOpenCalls(x, a), {<<x, "disconnect">>}, {x}, {})
         /\ Closes(CloseOpenCalls(x, a), {}, {}, {}, {x})
  <1> DEFINE timer == IF a = "cancel_timer" THEN <<StopTimer("timer")>> ELSE <<>>
             c == <<CancelIo(x, "receive"), CancelIo(x, "send"), Begin(x, "disconnect")>>
  <1>1. Carries(timer, {}, {}, {}) /\ Closes(timer, {}, {}, {}, {})
    <2>1. StopTimer("timer") \in Calls /\ StopTimer("timer").call = "stop_timer"
      BY FramesAreCalls, FrameFields
    <2> QED
      BY <2>1, OneOther, NoCall
  <1>2. Carries(c, {<<x, "disconnect">>}, {x}, {}) /\ Closes(c, {}, {}, {}, {x})
    <2>1. /\ CancelIo(x, "receive") \in Calls /\ CancelIo(x, "send") \in Calls
          /\ Begin(x, "disconnect") \in Calls
      BY FramesAreCalls, ProxyAssumption DEF Operation
    <2>2. c \in Seq(Calls)
      BY <2>1
    <2>3. \A F : Tally(c, F) = Hit(CancelIo(x, "receive"), F) + Hit(CancelIo(x, "send"), F)
                               + Hit(Begin(x, "disconnect"), F)
      BY TallyThree
    <2> HIDE DEF c
    <2> QED
      BY <2>1, <2>2, <2>3, FrameFields, Hits DEF Carries, Closes, Bit, Operation
  <1> HIDE DEF c, timer
  <1>3. timer \in Seq(Calls) /\ c \in Seq(Calls) /\ timer \o c \in Seq(Calls)
    BY <1>1, <1>2, ConcatProperties DEF Carries
  <1>4. \A F : Tally(timer \o c, F) = Tally(timer, F) + Tally(c, F)
    BY <1>3, TallyConcat
  <1>5. /\ Carries(timer \o c, {<<x, "disconnect">>}, {x}, {})
        /\ Closes(timer \o c, {}, {}, {}, {x})
    BY <1>1, <1>2, <1>3, <1>4 DEF Carries, Closes, Bit
  <1> QED
    BY <1>5 DEF c, timer, CloseOpenCalls

-----------------------------------------------------------------------------
(* What the actions do to the numbers of calls.                            *)

\* A step takes the operations, disconnects and ends of the first three sets
\* off the stacks and puts those of the last three on them.
Transfers(carried, disconnects, ends, carried2, disconnects2, ends2) ==
  \A s \in Side :
    /\ Count(stack', Begins(s, "disconnect")) + Bit(s \in disconnects)
         = Count(stack, Begins(s, "disconnect")) + Bit(s \in disconnects2)
    /\ Count(stack', Begins(s, "disconnect")) \in Nat /\ Count(stack, Begins(s, "disconnect")) \in Nat
    /\ \A op \in Operation :
         /\ Count(stack', Carry(s, op)) + Bit(<<s, op>> \in carried)
              = Count(stack, Carry(s, op)) + Bit(<<s, op>> \in carried2)
         /\ Count(stack', Carry(s, op)) \in Nat /\ Count(stack, Carry(s, op)) \in Nat
         /\ \A r \in Outcome :
              /\ Count(stack', Ends(s, op, r)) + Bit(<<s, op, r>> \in ends)
                   = Count(stack, Ends(s, op, r)) + Bit(<<s, op, r>> \in ends2)
              /\ Count(stack', Ends(s, op, r)) \in Nat /\ Count(stack, Ends(s, op, r)) \in Nat

\* The same for the calls that close a side.
Closings(closes, locks, clears, closes2, locks2, clears2, cancels2) ==
  \A s \in Side :
    /\ Count(stack', Closers(s)) + Bit(s \in closes) = Count(stack, Closers(s)) + Bit(s \in closes2)
    /\ Count(stack', Closers(s)) \in Nat /\ Count(stack, Closers(s)) \in Nat
    /\ Count(stack', Lockers(s)) + Bit(s \in locks) = Count(stack, Lockers(s)) + Bit(s \in locks2)
    /\ Count(stack', Lockers(s)) \in Nat /\ Count(stack, Lockers(s)) \in Nat
    /\ Count(stack', Clearers(s)) + Bit(s \in clears) = Count(stack, Clearers(s)) + Bit(s \in clears2)
    /\ Count(stack', Clearers(s)) \in Nat /\ Count(stack, Clearers(s)) \in Nat
    /\ Count(stack', Cancels(s)) \in Nat /\ Count(stack, Cancels(s)) \in Nat
    /\ s \notin cancels2 => Count(stack', Cancels(s)) <= Count(stack, Cancels(s))

StackTyped == stack \in [Thread -> Seq(Calls)] /\ Finite

LEMMA Transferred ==
  ASSUME NEW b, NEW c,
         \A F \in SUBSET Calls :
           /\ Count(stack', F) + Tally(b, F) = Count(stack, F) + Tally(c, F)
           /\ Count(stack', F) \in Nat /\ Count(stack, F) \in Nat,
         NEW c1, NEW d1, NEW e1, Carries(b, c1, d1, e1),
         NEW c2, NEW d2, NEW e2, Carries(c, c2, d2, e2)
  PROVE  Transfers(c1, d1, e1, c2, d2, e2)
  <1>1. ASSUME NEW s \in Side
        PROVE  /\ Count(stack', Begins(s, "disconnect")) + Bit(s \in d1)
                    = Count(stack, Begins(s, "disconnect")) + Bit(s \in d2)
               /\ Count(stack', Begins(s, "disconnect")) \in Nat
               /\ Count(stack, Begins(s, "disconnect")) \in Nat
    <2>1. Begins(s, "disconnect") \in SUBSET Calls
      BY KindsOfCalls DEF Operation
    <2> QED
      BY <2>1 DEF Carries
  <1>2. ASSUME NEW s \in Side, NEW op \in Operation
        PROVE  /\ Count(stack', Carry(s, op)) + Bit(<<s, op>> \in c1)
                    = Count(stack, Carry(s, op)) + Bit(<<s, op>> \in c2)
               /\ Count(stack', Carry(s, op)) \in Nat /\ Count(stack, Carry(s, op)) \in Nat
    <2>1. Carry(s, op) \in SUBSET Calls
      BY KindsOfCalls
    <2> QED
      BY <2>1 DEF Carries
  <1>3. ASSUME NEW s \in Side, NEW op \in Operation, NEW r \in Outcome
        PROVE  /\ Count(stack', Ends(s, op, r)) + Bit(<<s, op, r>> \in e1)
                    = Count(stack, Ends(s, op, r)) + Bit(<<s, op, r>> \in e2)
               /\ Count(stack', Ends(s, op, r)) \in Nat /\ Count(stack, Ends(s, op, r)) \in Nat
    <2>1. Ends(s, op, r) \in SUBSET Calls
      BY KindsOfCalls
    <2> QED
      BY <2>1 DEF Carries
  <1> QED
    BY <1>1, <1>2, <1>3 DEF Transfers

LEMMA Effect ==
  ASSUME Typed, Finite, NEW t \in Thread, ~Idle(t), NEW c, Replace(t, c),
         NEW c1, NEW d1, NEW e1, Carries(<<Head(stack[t])>>, c1, d1, e1),
         NEW o1, NEW l1, NEW k1, NEW n1, Closes(<<Head(stack[t])>>, o1, l1, k1, n1),
         NEW c2, NEW d2, NEW e2, Carries(c, c2, d2, e2),
         NEW o2, NEW l2, NEW k2, NEW n2, Closes(c, o2, l2, k2, n2)
  PROVE  /\ StackTyped'
         /\ Transfers(c1, d1, e1, c2, d2, e2)
         /\ Closings(o1, l1, k1, o2, l2, k2, n2)
         /\ Moves(t, c)
  <1>1. c \in Seq(Calls)
    BY DEF Carries
  <1>2. StackTyped' /\ Moves(t, c)
    BY <1>1, Replaces DEF StackTyped
  <1>3. \A F : Tally(<<Head(stack[t])>>, F) = Hit(Head(stack[t]), F)
    BY TallyOne
  <1>4. \A F \in SUBSET Calls :
          /\ Count(stack', F) + Tally(<<Head(stack[t])>>, F) = Count(stack, F) + Tally(c, F)
          /\ Count(stack', F) \in Nat /\ Count(stack, F) \in Nat
    BY <1>2, <1>3 DEF Moves
  <1>5. Transfers(c1, d1, e1, c2, d2, e2)
    BY <1>4, Transferred
  <1>6. Closings(o1, l1, k1, o2, l2, k2, n2)
    BY <1>2, <1>3, KindsOfCalls DEF Moves, Closes, Closings, Bit, Hit
  <1> QED
    BY <1>2, <1>5, <1>6

LEMMA StartEffect ==
  ASSUME Typed, Finite, NEW t, NEW c, Start(t, c),
         NEW c2, NEW d2, NEW e2, Carries(c, c2, d2, e2),
         NEW o2, NEW l2, NEW k2, NEW n2, Closes(c, o2, l2, k2, n2)
  PROVE  /\ StackTyped'
         /\ Transfers({}, {}, {}, c2, d2, e2)
         /\ Closings({}, {}, {}, o2, l2, k2, n2)
         /\ Adds(c)
  <1>1. c \in Seq(Calls)
    BY DEF Carries
  <1>2. StackTyped' /\ Adds(c)
    BY <1>1, StartsCalls DEF StackTyped
  <1>3. Transfers({}, {}, {}, c2, d2, e2)
    <2>1. \A F \in SUBSET Calls :
            /\ Count(stack', F) + Tally(<<>>, F) = Count(stack, F) + Tally(c, F)
            /\ Count(stack', F) \in Nat /\ Count(stack, F) \in Nat
      BY <1>2, TallyNone DEF Adds
    <2> QED
      BY <2>1, NoCall, Transferred
  <1>4. Closings({}, {}, {}, o2, l2, k2, n2)
    BY <1>2, KindsOfCalls DEF Adds, Closes, Closings, Bit
  <1> QED
    BY <1>2, <1>3, <1>4

\* A step that concerns no side.
Aside == Closings({}, {}, {}, {}, {}, {}, {})

\* Thread t tells the owner how an operation ended, who makes the calls c.
LEMMA TellEffect ==
  ASSUME Typed, Finite, NEW t \in Thread, NEW s, NEW op, NEW r, Told(t, s, op, r),
         NEW c, Replace(t, c),
         NEW c2, NEW d2, NEW e2, Carries(c, c2, d2, e2),
         NEW o2, NEW l2, NEW k2, NEW n2, Closes(c, o2, l2, k2, n2)
  PROVE  /\ s \in Side /\ op \in Operation /\ r \in Outcome
         /\ ~Idle(t) /\ Head(stack[t]) = Complete(s, op, r)
         /\ StackTyped'
         /\ Transfers({<<s, op>>}, {}, {<<s, op, r>>}, c2, d2, e2)
         /\ Closings({}, {}, {}, o2, l2, k2, n2)
         /\ Moves(t, c)
  <1>1. /\ ~Idle(t) /\ Head(stack[t]) \in Calls /\ Head(stack[t]).call = "complete"
        /\ Head(stack[t]).on = s /\ Head(stack[t]).op = op /\ Head(stack[t]).arg = r
    BY HeadIsCall DEF Told, Running, On, Op, Arg
  <1>2. /\ s \in Side /\ op \in Operation /\ r \in Outcome
        /\ Head(stack[t]) = Complete(s, op, r)
    BY <1>1, CallNamed
  <1>3. /\ Carries(<<Head(stack[t])>>, {<<s, op>>}, {}, {<<s, op, r>>})
        /\ Closes(<<Head(stack[t])>>, {}, {}, {}, {})
    BY <1>2, OneEnd
  <1>4. /\ StackTyped'
        /\ Transfers({<<s, op>>}, {}, {<<s, op, r>>}, c2, d2, e2)
        /\ Closings({}, {}, {}, o2, l2, k2, n2)
        /\ Moves(t, c)
    BY <1>1, <1>3, Effect
  <1> QED
    BY <1>1, <1>2, <1>4

LEMMA AcceptedEffect ==
  ASSUME Typed, Finite, NEW t \in Thread, Accepted(t)
  PROVE  /\ StackTyped' /\ Aside
         /\ Transfers({<<"server", "accept">>}, {}, {<<"server", "accept", "done">>},
                      {<<"client", "connect">>}, {}, {})
         /\ Count(stack, Calls) \in Nat /\ Count(stack', Calls) = Count(stack, Calls)
  <1> DEFINE c == <<Begin("client", "connect")>>
  <1>1. "client" \in Side /\ "connect" \in Operation /\ "connect" # "disconnect"
    BY DEF Side, Operation
  <1>2. Carries(c, {<<"client", "connect">>}, {}, {}) /\ Closes(c, {}, {}, {}, {})
    BY <1>1, OneBegin
  <1>3. Told(t, "server", "accept", "done") /\ Replace(t, c)
    BY DEF Accepted
  <1>4. Tally(c, Calls) = 1
    BY <1>1, TallyOne, FramesAreCalls DEF Hit
  <1> HIDE DEF c
  <1>5. /\ StackTyped' /\ Aside /\ Moves(t, c)
        /\ Head(stack[t]) = Complete("server", "accept", "done") /\ ~Idle(t)
        /\ Transfers({<<"server", "accept">>}, {}, {<<"server", "accept", "done">>},
                     {<<"client", "connect">>}, {}, {})
    BY <1>2, <1>3, TellEffect DEF Aside
  <1>6. Hit(Head(stack[t]), Calls) = 1
    BY <1>5, HeadIsCall DEF Hit
  <1>7. Count(stack, Calls) \in Nat /\ Count(stack', Calls) = Count(stack, Calls)
    BY <1>4, <1>5, <1>6, KindsOfCalls DEF Moves
  <1> QED
    BY <1>5, <1>7

LEMMA AcceptFailedEffect ==
  ASSUME Typed, Finite, NEW t \in Thread, AcceptFailed(t)
  PROVE  /\ StackTyped' /\ Aside
         /\ Transfers({<<"server", "accept">>}, {}, {<<"server", "accept", "error">>},
                      {<<"server", "accept">>}, {}, {})
  <1> DEFINE c == <<Begin("server", "accept")>>
  <1>1. Carries(c, {<<"server", "accept">>}, {}, {}) /\ Closes(c, {}, {}, {}, {})
    BY OneBegin DEF Side, Operation
  <1>2. Told(t, "server", "accept", "error") /\ Replace(t, c)
    BY DEF AcceptFailed
  <1> QED
    BY <1>1, <1>2, TellEffect DEF Aside

LEMMA ConnectedEffect ==
  ASSUME Typed, Finite, NEW t \in Thread, Connected(t)
  PROVE  /\ StackTyped' /\ Aside
         /\ ~Idle(t) /\ Head(stack[t]) = Complete("client", "connect", "done")
         /\ Transfers({<<"client", "connect">>}, {}, {<<"client", "connect", "done">>},
                      {<<"server", "receive">>, <<"client", "receive">>}, {}, {})
  <1> DEFINE c == <<StopTimer("timer"), Begin("server", "receive"), Begin("client", "receive")>>
  <1>1. /\ Carries(c, {<<"server", "receive">>, <<"client", "receive">>}, {}, {})
        /\ Closes(c, {}, {}, {}, {})
    BY StopAndBegin DEF Side, Operation
  <1>2. Told(t, "client", "connect", "done") /\ Replace(t, c)
    BY DEF Connected
  <1> QED
    BY <1>1, <1>2, TellEffect DEF Aside

LEMMA ConnectFailedEffect ==
  ASSUME Typed, Finite, NEW t \in Thread, ConnectFailed(t)
  PROVE  /\ StackTyped' /\ Closings({}, {}, {}, {"server"}, {}, {}, {})
         /\ ~Idle(t) /\ Head(stack[t]) = Complete("client", "connect", "error")
         /\ Transfers({<<"client", "connect">>}, {}, {<<"client", "connect", "error">>}, {}, {}, {})
  <1> DEFINE c == <<Close("server", "cancel_timer")>>
  <1>1. Carries(c, {}, {}, {}) /\ Closes(c, {"server"}, {}, {}, {})
    BY OneClose DEF Side, Flag
  <1>2. Told(t, "client", "connect", "error") /\ Replace(t, c)
    BY DEF ConnectFailed
  <1> QED
    BY <1>1, <1>2, TellEffect

\* received() of some data: the other side sends it.
LEMMA ReceivedEffect ==
  ASSUME Typed, Finite, NEW t \in Thread, ServerReceived(t) \/ ClientReceived(t)
  PROVE  /\ StackTyped' /\ Aside
         /\ \E s \in Side :
              Transfers({<<s, "receive">>}, {}, {<<s, "receive", "done">>},
                        {<<Other(s), "send">>}, {}, {})
  <1>1. \A s \in Side : /\ Carries(<<Begin(s, "send")>>, {<<s, "send">>}, {}, {})
                        /\ Closes(<<Begin(s, "send")>>, {}, {}, {}, {})
    BY OneBegin DEF Operation
  <1>2. CASE ServerReceived(t)
    <2>1. Told(t, "server", "receive", "done") /\ Replace(t, <<Begin("client", "send")>>)
      BY <1>2 DEF ServerReceived
    <2>2. /\ StackTyped' /\ Aside
          /\ Transfers({<<"server", "receive">>}, {}, {<<"server", "receive", "done">>},
                       {<<"client", "send">>}, {}, {})
      BY <1>1, <2>1, TellEffect DEF Side, Aside
    <2> QED
      BY <2>2 DEF Side, Other
  <1>3. CASE ClientReceived(t)
    <2>1. Told(t, "client", "receive", "done") /\ Replace(t, <<Begin("server", "send")>>)
      BY <1>3 DEF ClientReceived
    <2>2. /\ StackTyped' /\ Aside
          /\ Transfers({<<"client", "receive">>}, {}, {<<"client", "receive", "done">>},
                       {<<"server", "send">>}, {}, {})
      BY <1>1, <2>1, TellEffect DEF Side, Aside
    <2> QED
      BY <2>2 DEF Side, Other
  <1> QED
    BY <1>2, <1>3

\* sent() of everything: the other side receives again.
LEMMA SentEffect ==
  ASSUME Typed, Finite, NEW t \in Thread, ServerSent(t) \/ ClientSent(t)
  PROVE  /\ StackTyped' /\ Aside
         /\ \E s \in Side :
              Transfers({<<Other(s), "send">>}, {}, {<<Other(s), "send", "done">>},
                        {<<s, "receive">>}, {}, {})
  <1>1. \A s \in Side : /\ Carries(<<StopTimer("timer"), Begin(s, "receive")>>,
                                   {<<s, "receive">>}, {}, {})
                        /\ Closes(<<StopTimer("timer"), Begin(s, "receive")>>, {}, {}, {}, {})
    BY StopAndBegin DEF Operation, Side
  <1>2. CASE ServerSent(t)
    <2>1. /\ Told(t, "server", "send", "done")
          /\ Replace(t, <<StopTimer("timer"), Begin("client", "receive")>>)
      BY <1>2 DEF ServerSent
    <2>2. /\ StackTyped' /\ Aside
          /\ Transfers({<<"server", "send">>}, {}, {<<"server", "send", "done">>},
                       {<<"client", "receive">>}, {}, {})
      BY <1>1, <2>1, TellEffect DEF Side, Aside
    <2> QED
      BY <2>2 DEF Side, Other
  <1>3. CASE ClientSent(t)
    <2>1. /\ Told(t, "client", "send", "done")
          /\ Replace(t, <<StopTimer("timer"), Begin("server", "receive")>>)
      BY <1>3 DEF ClientSent
    <2>2. /\ StackTyped' /\ Aside
          /\ Transfers({<<"client", "send">>}, {}, {<<"client", "send", "done">>},
                       {<<"server", "receive">>}, {}, {})
      BY <1>1, <2>1, TellEffect DEF Side, Aside
    <2> QED
      BY <2>2 DEF Side, Other
  <1> QED
    BY <1>2, <1>3

\* sent() of a part: the rest is sent.
LEMMA SentPartEffect ==
  ASSUME Typed, Finite, NEW t \in Thread, ServerSentPart(t) \/ ClientSentPart(t)
  PROVE  /\ StackTyped' /\ Aside
         /\ \E s \in Side :
              Transfers({<<s, "send">>}, {}, {<<s, "send", "done">>}, {<<s, "send">>}, {}, {})
  <1>1. \A s \in Side : /\ Carries(<<Begin(s, "send")>>, {<<s, "send">>}, {}, {})
                        /\ Closes(<<Begin(s, "send")>>, {}, {}, {}, {})
    BY OneBegin DEF Operation
  <1>2. PICK s \in Side : Told(t, s, "send", "done") /\ Replace(t, <<Begin(s, "send")>>)
    BY DEF ServerSentPart, ClientSentPart, Side
  <1> QED
    BY <1>1, <1>2, TellEffect DEF Aside

\* The end of a transfer for which both sides are closed.
LEMMA GivesUpEffect ==
  ASSUME Typed, Finite, NEW t \in Thread, PeerClosed(t) \/ TransferFailed(t)
  PROVE  /\ StackTyped' /\ Closings({}, {}, {}, Side, {}, {}, {})
         /\ \E s \in Side, op \in {"receive", "send"}, r \in {"done", "error"} :
              Transfers({<<s, op>>}, {}, {<<s, op, r>>}, {}, {}, {})
  <1>1. /\ Carries(CloseConnections("cancel_timer"), {}, {}, {})
        /\ Closes(CloseConnections("cancel_timer"), Side, {}, {}, {})
    BY CloseBoth DEF Flag
  <1>2. PICK s \in Side, op \in {"receive", "send"}, r \in {"done", "error"} :
          Told(t, s, op, r) /\ Replace(t, CloseConnections("cancel_timer"))
    BY DEF PeerClosed, TransferFailed
  <1>3. /\ StackTyped' /\ Closings({}, {}, {}, Side, {}, {}, {})
        /\ Transfers({<<s, op>>}, {}, {<<s, op, r>>}, {}, {}, {})
    BY <1>1, <1>2, TellEffect
  <1> QED
    BY <1>3

LEMMA AbortedEffect ==
  ASSUME Typed, Finite, NEW t \in Thread, TransferAborted(t)
  PROVE  /\ StackTyped' /\ Aside
         /\ \E s \in Side, op \in {"receive", "send"} :
              /\ Head(stack[t]) = Complete(s, op, "aborted")
              /\ Transfers({<<s, op>>}, {}, {<<s, op, "aborted">>}, {}, {}, {})
  <1>1. PICK s \in Side, op \in {"receive", "send"} :
          Told(t, s, op, "aborted") /\ Replace(t, <<>>)
    BY DEF TransferAborted, Return
  <1>2. /\ StackTyped' /\ Aside /\ Head(stack[t]) = Complete(s, op, "aborted")
        /\ Transfers({<<s, op>>}, {}, {<<s, op, "aborted">>}, {}, {}, {})
    BY <1>1, NoCall, TellEffect DEF Aside
  <1> QED
    BY <1>2

LEMMA DisconnectedEffect ==
  ASSUME Typed, Finite, NEW t \in Thread, Disconnected(t)
  PROVE  /\ StackTyped' /\ Aside
         /\ \E s \in Side, r \in Outcome :
              Transfers({<<s, "disconnect">>}, {}, {<<s, "disconnect", r>>},
                        IF nconnections' = 0 THEN {<<"server", "accept">>} ELSE {}, {}, {})
  <1> DEFINE c == IF nconnections' = 0 THEN <<Begin("server", "accept")>> ELSE <<>>
             a == IF nconnections' = 0 THEN {<<"server", "accept">>} ELSE {}
  <1>1. PICK s \in Side, r \in Outcome : Told(t, s, "disconnect", r)
    BY DEF Disconnected
  <1>2. Replace(t, c)
    BY DEF Disconnected
  <1>3. Carries(c, a, {}, {}) /\ Closes(c, {}, {}, {}, {})
    BY NoCall, OneBegin DEF Side, Operation
  <1> HIDE DEF c, a
  <1>4. /\ StackTyped' /\ Aside
        /\ Transfers({<<s, "disconnect">>}, {}, {<<s, "disconnect", r>>}, a, {}, {})
    BY <1>1, <1>2, <1>3, TellEffect DEF Aside
  <1> QED
    BY <1>4 DEF a

\* A step that carries nothing on.
Still == Transfers({}, {}, {}, {}, {}, {})

LEMMA LockEffect ==
  ASSUME Typed, Finite, NEW t \in Thread, Lock(t)
  PROVE  /\ StackTyped' /\ Still /\ On(t) \in Side
         /\ Closings({On(t)}, {}, {}, {On(t)}, {On(t)}, {}, {})
  <1>1. /\ ~Idle(t) /\ Head(stack[t]) \in Calls /\ Head(stack[t]).call = "close"
    BY HeadIsCall DEF Lock, Running
  <1>2. On(t) \in Side /\ Arg(t) \in Flag /\ Head(stack[t]) = Close(On(t), Arg(t))
    BY <1>1, CallNamed DEF On, Arg
  <1>3. Carries(<<Head(stack[t])>>, {}, {}, {}) /\ Closes(<<Head(stack[t])>>, {On(t)}, {}, {}, {})
    BY <1>2, OneClose
  <1> DEFINE c == <<TestOpen(On(t), Arg(t))>>
  <1>4. Carries(c, {}, {}, {}) /\ Closes(c, {On(t)}, {On(t)}, {}, {})
    BY <1>2, OneClose
  <1>5. Replace(t, c)
    BY DEF Lock
  <1> HIDE DEF c
  <1> QED
    BY <1>1, <1>2, <1>3, <1>4, <1>5, Effect DEF Still

LEMMA TestOpenHead ==
  ASSUME Typed, NEW t \in Thread, Running(t, "test_open")
  PROVE  /\ ~Idle(t) /\ On(t) \in Side /\ Arg(t) \in Flag
         /\ Carries(<<Head(stack[t])>>, {}, {}, {})
         /\ Closes(<<Head(stack[t])>>, {On(t)}, {On(t)}, {}, {})
  <1>1. /\ ~Idle(t) /\ Head(stack[t]) \in Calls /\ Head(stack[t]).call = "test_open"
    BY HeadIsCall DEF Running
  <1>2. On(t) \in Side /\ Arg(t) \in Flag /\ Head(stack[t]) = TestOpen(On(t), Arg(t))
    BY <1>1, CallNamed DEF On, Arg
  <1> QED
    BY <1>1, <1>2, OneClose

LEMMA AlreadyClosedEffect ==
  ASSUME Typed, Finite, NEW t \in Thread, AlreadyClosed(t)
  PROVE  /\ StackTyped' /\ Still /\ On(t) \in Side
         /\ Closings({On(t)}, {On(t)}, {}, {}, {}, {}, {})
  <1>1. Running(t, "test_open") /\ Replace(t, <<>>)
    BY DEF AlreadyClosed, Return
  <1> QED
    BY <1>1, TestOpenHead, NoCall, Effect DEF Still

LEMMA FoundOpenEffect ==
  ASSUME Typed, Finite, NEW t \in Thread, FoundOpen(t)
  PROVE  /\ StackTyped' /\ Still /\ On(t) \in Side
         /\ Closings({On(t)}, {On(t)}, {}, {On(t)}, {On(t)}, {On(t)}, {})
  <1> DEFINE c == <<ClearOpen(On(t), Arg(t))>>
  <1>1. Running(t, "test_open") /\ Replace(t, c)
    BY DEF FoundOpen
  <1>2. Carries(c, {}, {}, {}) /\ Closes(c, {On(t)}, {On(t)}, {On(t)}, {})
    BY <1>1, TestOpenHead, OneClose
  <1> HIDE DEF c
  <1> QED
    BY <1>1, <1>2, TestOpenHead, Effect DEF Still

LEMMA CloseOpenEffect ==
  ASSUME Typed, Finite, NEW t \in Thread, CloseOpen(t)
  PROVE  /\ StackTyped' /\ On(t) \in Side
         /\ Transfers({}, {}, {}, {<<On(t), "disconnect">>}, {On(t)}, {})
         /\ Closings({On(t)}, {On(t)}, {On(t)}, {}, {}, {}, {On(t)})
         /\ Count(stack, Clearers(On(t))) > 0 /\ Count(stack, Closers(On(t))) > 0
  <1>1. /\ ~Idle(t) /\ Head(stack[t]) \in Calls /\ Head(stack[t]).call = "clear_open"
    BY HeadIsCall DEF CloseOpen, Running
  <1>2. On(t) \in Side /\ Arg(t) \in Flag /\ Head(stack[t]) = ClearOpen(On(t), Arg(t))
    BY <1>1, CallNamed DEF On, Arg
  <1>3. /\ Carries(<<Head(stack[t])>>, {}, {}, {})
        /\ Closes(<<Head(stack[t])>>, {On(t)}, {On(t)}, {On(t)}, {})
    BY <1>2, OneClose
  <1>4. /\ Carries(CloseOpenCalls(On(t), Arg(t)), {<<On(t), "disconnect">>}, {On(t)}, {})
        /\ Closes(CloseOpenCalls(On(t), Arg(t)), {}, {}, {}, {On(t)})
    BY <1>2, ClosesSide
  <1>5. Replace(t, CloseOpenCalls(On(t), Arg(t)))
    BY DEF CloseOpen, CloseOpenCalls
  <1>6. /\ StackTyped'
        /\ Transfers({}, {}, {}, {<<On(t), "disconnect">>}, {On(t)}, {})
        /\ Closings({On(t)}, {On(t)}, {On(t)}, {}, {}, {}, {On(t)})
    BY <1>1, <1>3, <1>4, <1>5, Effect
  <1>7. Count(stack, Clearers(On(t))) > 0 /\ Count(stack, Closers(On(t))) > 0
    BY <1>2, <1>6 DEF Closings, Bit
  <1> QED
    BY <1>2, <1>6, <1>7

-----------------------------------------------------------------------------
(* What the operations of the sockets and the timer do to them.            *)

\* The call that starts an operation.
LEMMA BeginHead ==
  ASSUME Typed, NEW t \in Thread, Running(t, "begin")
  PROVE  /\ ~Idle(t) /\ On(t) \in Side /\ Op(t) \in Operation
         /\ Head(stack[t]) = Begin(On(t), Op(t))
         /\ Carries(<<Head(stack[t])>>, {<<On(t), Op(t)>>},
                    IF Op(t) = "disconnect" THEN {On(t)} ELSE {}, {})
         /\ Closes(<<Head(stack[t])>>, {}, {}, {}, {})
  <1>1. /\ ~Idle(t) /\ Head(stack[t]) \in Calls /\ Head(stack[t]).call = "begin"
    BY HeadIsCall DEF Running
  <1>2. On(t) \in Side /\ Op(t) \in Operation /\ Head(stack[t]) = Begin(On(t), Op(t))
    BY <1>1, CallNamed DEF On, Op
  <1> QED
    BY <1>1, <1>2, OneBegin

Starting(t) == IF Op(t) = "disconnect" THEN {On(t)} ELSE {}

LEMMA AtOnceEffect ==
  ASSUME Typed, Finite, NEW t \in Thread, Running(t, "begin"), NEW r \in Outcome, AtOnce(t, r)
  PROVE  /\ StackTyped' /\ Aside
         /\ Transfers({<<On(t), Op(t)>>}, Starting(t), {},
                      {<<On(t), Op(t)>>}, {}, {<<On(t), Op(t), r>>})
         /\ Count(stack, Calls) \in Nat /\ Count(stack', Calls) = Count(stack, Calls)
  <1> DEFINE c == <<Complete(On(t), Op(t), r)>>
  <1>1. /\ Carries(c, {<<On(t), Op(t)>>}, {}, {<<On(t), Op(t), r>>})
        /\ Closes(c, {}, {}, {}, {})
    BY BeginHead, OneEnd
  <1>2. Replace(t, c)
    BY DEF AtOnce
  <1>3. Tally(c, Calls) = 1
    <2>1. Complete(On(t), Op(t), r) \in Calls
      BY BeginHead, FramesAreCalls
    <2> QED
      BY <2>1, TallyOne DEF Hit
  <1> HIDE DEF c
  <1>4. Carries(<<Head(stack[t])>>, {<<On(t), Op(t)>>}, Starting(t), {})
    BY BeginHead DEF Starting
  <1>5. /\ StackTyped' /\ Aside /\ Moves(t, c)
        /\ Transfers({<<On(t), Op(t)>>}, Starting(t), {},
                     {<<On(t), Op(t)>>}, {}, {<<On(t), Op(t), r>>})
    <2>1. ~Idle(t) /\ Closes(<<Head(stack[t])>>, {}, {}, {}, {})
      BY BeginHead
    <2> QED
      BY <1>1, <1>2, <1>4, <2>1, Effect DEF Aside
  <1>6. Hit(Head(stack[t]), Calls) = 1
    BY BeginHead, HeadIsCall DEF Hit
  <1>7. Count(stack, Calls) \in Nat /\ Count(stack', Calls) = Count(stack, Calls)
    BY <1>3, <1>5, <1>6, KindsOfCalls DEF Moves
  <1> QED
    BY <1>5, <1>7

LEMMA PendingEffect ==
  ASSUME Typed, Finite, NEW t \in Thread, Running(t, "begin"), Pending(t)
  PROVE  /\ StackTyped' /\ Aside
         /\ Transfers({<<On(t), Op(t)>>}, Starting(t), {}, {}, {}, {})
         /\ Count(stack, Calls) \in Nat
         /\ Op(t) \notin Tracked => Count(stack', Calls) + 1 = Count(stack, Calls)
  <1> DEFINE c == Mark(On(t), Op(t))
  <1>1. Carries(c, {}, {}, {}) /\ Closes(c, {}, {}, {}, {})
    <2>1. Op(t) \in Tracked =>
            /\ SetPending(On(t), Op(t)) \in Calls
            /\ SetPending(On(t), Op(t)).call = "io_pending"
      <3>1. On(t) \in Side
        BY BeginHead
      <3> QED
        BY <3>1, FramesAreCalls, FrameFields
    <2>2. c = IF Op(t) \in Tracked THEN <<SetPending(On(t), Op(t))>> ELSE <<>>
      BY DEF Mark, SetPending
    <2> HIDE DEF c
    <2> QED
      BY <2>1, <2>2, NoCall, OneOther
  <1>2. Replace(t, c)
    BY DEF Pending
  <1>3. Op(t) \notin Tracked => Tally(c, Calls) = 0
    BY TallyNone DEF Mark
  <1> HIDE DEF c
  <1>4. Carries(<<Head(stack[t])>>, {<<On(t), Op(t)>>}, Starting(t), {})
    BY BeginHead DEF Starting
  <1>5. /\ StackTyped' /\ Aside /\ Moves(t, c)
        /\ Transfers({<<On(t), Op(t)>>}, Starting(t), {}, {}, {}, {})
    BY <1>1, <1>2, <1>4, BeginHead, Effect DEF Aside
  <1>6. Hit(Head(stack[t]), Calls) = 1
    BY BeginHead, HeadIsCall DEF Hit
  <1>7. /\ Count(stack, Calls) \in Nat
        /\ Op(t) \notin Tracked => Count(stack', Calls) + 1 = Count(stack, Calls)
    BY <1>3, <1>5, <1>6, KindsOfCalls DEF Moves
  <1> QED
    BY <1>5, <1>7

LEMMA CancelEffect ==
  ASSUME Typed, Finite, NEW t \in Thread, Cancel(t)
  PROVE  /\ StackTyped' /\ Still /\ Aside
         /\ On(t) \in Side /\ Op(t) \in Tracked
         /\ Count(stack, Cancels(On(t))) > 0
  <1>1. /\ ~Idle(t) /\ Head(stack[t]) \in Calls /\ Head(stack[t]).call = "cancel"
    BY HeadIsCall DEF Cancel, Running
  <1>2. On(t) \in Side /\ Op(t) \in Tracked /\ Head(stack[t]) = CancelIo(On(t), Op(t))
    BY <1>1, CallNamed DEF On, Op
  <1>3. /\ Carries(<<Head(stack[t])>>, {}, {}, {})
        /\ Closes(<<Head(stack[t])>>, {}, {}, {}, {On(t)})
    BY <1>2, OneCancel
  <1>4. Replace(t, <<>>)
    BY DEF Cancel, Return
  <1>5. StackTyped' /\ Still /\ Aside /\ Moves(t, <<>>)
    BY <1>1, <1>3, <1>4, NoCall, Effect DEF Still, Aside
  <1>6. Hit(Head(stack[t]), Cancels(On(t))) = 1
    BY <1>1, <1>2, KindFields DEF Hit, On
  <1>7. Count(stack, Cancels(On(t))) > 0
    BY <1>2, <1>5, <1>6, KindsOfCalls, TallyNone DEF Moves
  <1> QED
    BY <1>2, <1>5, <1>7

LEMMA SetIoPendingEffect ==
  ASSUME Typed, Finite, NEW t \in Thread, SetIoPending(t)
  PROVE  StackTyped' /\ Still /\ Aside /\ On(t) \in Side /\ Op(t) \in Tracked
  <1>1. /\ ~Idle(t) /\ Head(stack[t]) \in Calls /\ Head(stack[t]).call = "io_pending"
    BY HeadIsCall DEF SetIoPending, Running
  <1>2. /\ On(t) \in Side /\ Op(t) \in Tracked
        /\ Carries(<<Head(stack[t])>>, {}, {}, {}) /\ Closes(<<Head(stack[t])>>, {}, {}, {}, {})
    BY <1>1, CallNamed, OneOther DEF On, Op
  <1>3. Replace(t, <<>>)
    BY DEF SetIoPending, Return
  <1> QED
    BY <1>1, <1>2, <1>3, NoCall, Effect DEF Still, Aside

LEMMA TimeEffect ==
  ASSUME Typed, Finite, NEW t \in Thread, Time(t)
  PROVE  /\ StackTyped' /\ Still /\ Aside
         /\ Head(stack[t]).call \in {"stop_timer", "await_timer", "timer_end"}
         /\ ~Idle(t) /\ Head(stack[t]) \in Calls
  <1>1. /\ ~Idle(t) /\ Head(stack[t]) \in Calls
        /\ Head(stack[t]).call \in {"stop_timer", "await_timer", "timer_end"}
    BY HeadIsCall DEF Time, Disarm, CallbacksAwaited, CallbackEnds, Running
  <1>2. Carries(<<Head(stack[t])>>, {}, {}, {}) /\ Closes(<<Head(stack[t])>>, {}, {}, {}, {})
    BY <1>1, OneOther
  <1>3. CASE Disarm(t)
    <2>1. Replace(t, <<AwaitTimer("timer")>>)
      BY <1>1, <1>3, CallNamed DEF Disarm, Running, On
    <2>2. AwaitTimer("timer") \in Calls /\ AwaitTimer("timer").call = "await_timer"
      BY FramesAreCalls, FrameFields
    <2>3. /\ Carries(<<AwaitTimer("timer")>>, {}, {}, {})
          /\ Closes(<<AwaitTimer("timer")>>, {}, {}, {}, {})
      BY <2>2, OneOther
    <2> QED
      BY <1>1, <1>2, <2>1, <2>3, Effect DEF Still, Aside
  <1>4. CASE CallbacksAwaited(t) \/ CallbackEnds(t)
    <2>1. Replace(t, <<>>)
      BY <1>4 DEF CallbacksAwaited, CallbackEnds, Return
    <2> QED
      BY <1>1, <1>2, <2>1, NoCall, Effect DEF Still, Aside
  <1> QED
    BY <1>3, <1>4 DEF Time

LEMMA CompletionEffect ==
  ASSUME Typed, Finite, NEW t \in Pool, NEW s \in Side, NEW op \in Operation, NEW r \in Outcome,
         Completion(t, s, op, r)
  PROVE  /\ StackTyped' /\ Aside
         /\ Transfers({}, {}, {}, {<<s, op>>}, {}, {<<s, op, r>>})
         /\ Count(stack, Calls) \in Nat /\ Count(stack', Calls) = Count(stack, Calls) + 1
  <1> DEFINE c == <<Complete(s, op, r)>>
  <1>1. Carries(c, {<<s, op>>}, {}, {<<s, op, r>>}) /\ Closes(c, {}, {}, {}, {})
    BY OneEnd
  <1>2. Start(t, c)
    BY DEF Completion, Deliver
  <1>3. Tally(c, Calls) = 1
    BY TallyOne, FramesAreCalls DEF Hit
  <1> HIDE DEF c
  <1>4. /\ StackTyped' /\ Aside /\ Adds(c)
        /\ Transfers({}, {}, {}, {<<s, op>>}, {}, {<<s, op, r>>})
    BY <1>1, <1>2, StartEffect DEF Aside
  <1>5. Count(stack, Calls) \in Nat /\ Count(stack', Calls) = Count(stack, Calls) + 1
    BY <1>3, <1>4, KindsOfCalls DEF Adds
  <1> QED
    BY <1>4, <1>5

LEMMA TimerExpiresEffect ==
  ASSUME Typed, Finite, NEW t \in Pool, TimerExpires(t)
  PROVE  StackTyped' /\ Still /\ Closings({}, {}, {}, Side, {}, {}, {})
  <1> DEFINE c == TimerCalls \o <<TimerEnd("timer")>>
  <1>1. Carries(c, {}, {}, {}) /\ Closes(c, Side, {}, {}, {})
    BY CloseBoth DEF TimerCalls, Flag
  <1>2. Start(t, c)
    BY DEF TimerExpires, Expire
  <1> HIDE DEF c
  <1> QED
    BY <1>1, <1>2, StartEffect DEF Still

=============================================================================

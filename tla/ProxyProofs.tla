----------------------------- MODULE ProxyProofs -----------------------------
(***************************************************************************)
(* Proofs about the proxy connection, for any set of pool threads, any     *)
(* peers and any width of the counter: what a session is made of is        *)
(* counted, calls on the stacks and operations in Windows together.        *)
(***************************************************************************)
EXTENDS ProxyCalls

\* The case the theorems are about: the timer does not expire while the
\* client is connected, and a connection is accepted when the calls of the
\* last one have returned.
Punctual == ~SlowConnect /\ ~LateCallbacks

\* What operation op of side s is: a call, or an operation of Windows.
Load(st, fl, s, op) == Count(st, Carry(s, op)) + Bit(fl[s][op] # "none")

\* The users of the buffer of side s.
Chain(st, fl, s) == Load(st, fl, s, "receive") + Load(st, fl, Other(s), "send")

\* What side s counts for: one as long as it has to be disconnected.
Share(st, fl, o, s) == Bit(o[s]) + Load(st, fl, s, "disconnect")

-----------------------------------------------------------------------------
(* The inductive invariant.                                                *)

LocksCounted == \A s \in Side : Count(stack, Lockers(s)) = Bit(mutex[s])

ClearsOpen == \A s \in Side : Count(stack, Clearers(s)) > 0 => open[s]

SharesCounted ==
  /\ \A s \in Side : Share(stack, inflight, open, s) <= 1
  /\ nconnections = Share(stack, inflight, open, "server") + Share(stack, inflight, open, "client")

\* There is an accept if and only if nothing is left to be disconnected.
AcceptCounted ==
  /\ Load(stack, inflight, "server", "accept") = Bit(nconnections = 0)
  /\ Load(stack, inflight, "client", "accept") = 0
  /\ Load(stack, inflight, "server", "connect") = 0

\* The accepted connection meets nothing of the last one.
AcceptedAlone ==
  Count(stack, Ends("server", "accept", "done")) > 0 =>
    /\ Count(stack, Calls) <= 1
    /\ \A s \in Side, op \in Operation : inflight[s][op] = "none"

\* While the remote host is being connected nothing else happens.
ConnectsAlone ==
  Load(stack, inflight, "client", "connect") > 0 =>
    /\ open["server"]
    /\ nconnections = 1
    /\ armed["timer"] = "connect"
    /\ Count(stack, Calls) + Bit(inflight["client"]["connect"] # "none") <= 1
    /\ \A s \in Side, op \in Operation :
         inflight[s][op] # "none" => s = "client" /\ op = "connect"

Session == SharesCounted /\ AcceptCounted /\ AcceptedAlone /\ ConnectsAlone

BuffersUsed == \A s \in Side : Chain(stack, inflight, s) <= 1

\* A handle is open only as long as somebody will close it.
Held(s) ==
  \/ open[s]
  \/ Count(stack, Begins(s, "disconnect")) > 0
  \/ inflight[s]["disconnect"] # "none"
  \/ \E op \in Establishing : \/ inflight[s][op] # "none"
                              \/ Count(stack, Ends(s, op, "done")) > 0

HandlesHeld == \A s \in Side : sock[s] # "closed" => Held(s)

\* Only what has been closed is cancelled.
CancelsClosed ==
  \A s \in Side :
    open[s] =>
      /\ Count(stack, Cancels(s)) = 0
      /\ \A op \in {"receive", "send"} :
           inflight[s][op] # "doomed" /\ Count(stack, Ends(s, op, "aborted")) = 0

\* Who closes one side closes the other.
CloseSpreads ==
  \A s, o \in Side : open[s] /\ Count(stack, Closers(o)) > 0 => Count(stack, Closers(s)) > 0

\* An open side is being connected, or closed, or data is being transferred.
GoesOn ==
  \A s \in Side :
    open[s] /\ Load(stack, inflight, "client", "connect") = 0 =>
      \/ Count(stack, Closers(s)) > 0
      \/ (\A o \in Side : open[o]) /\ Chain(stack, inflight, "server") = 1

\* What the callback of the timer may be in the middle of.
TimerCloses ==
  [call : {"close", "test_open", "clear_open"}, on : Side, op : {"none"}, arg : {"keep_timer"}]

TimerDisconnects == UNION {Cancels(s) \cup Carry(s, "disconnect") : s \in Side}

TimerAccepts ==
  {Begin("server", "accept"), Complete("server", "accept", "error"), TimerEnd("timer")}

TimerCallFrames == TimerCloses \cup TimerDisconnects \cup TimerAccepts

TimerStays ==
  \A t \in Thread : InCallback(t, "timer") => stack[t] \in Seq(TimerCallFrames)

-----------------------------------------------------------------------------
(* Type correctness.                                                       *)

TypedAndFinite == Typed /\ Finite

\* In the beginning there is one call: the first accept.
First == Begin("server", "accept")

LEMMA InitCounts ==
  ASSUME Init, NEW F
  PROVE  IsFiniteSet(Places(stack, F)) /\ Count(stack, F) = Hit(First, F)
  <1>1. /\ Main \in DOMAIN stack
        /\ stack[Main] = <<First>>
        /\ \A u \in DOMAIN stack \ {Main} : stack[u] = <<>>
    BY DEF Init, Thread, First
  <1> QED
    BY <1>1, CountSingle

LEMMA InitHits ==
  ASSUME Init, NEW s \in Side
  PROVE  /\ \A op \in Operation :
              /\ Count(stack, Carry(s, op)) = Bit(s = "server" /\ op = "accept")
              /\ \A r \in Outcome : Count(stack, Ends(s, op, r)) = 0
         /\ Count(stack, Closers(s)) = 0
         /\ Count(stack, Lockers(s)) = 0
         /\ Count(stack, Clearers(s)) = 0
         /\ Count(stack, Cancels(s)) = 0
  <1>1. First \in Calls /\ First.call = "begin" /\ First.on = "server" /\ First.op = "accept"
    BY FramesAreCalls, FrameFields DEF First, Side, Operation
  <1>2. /\ \A op \in Operation :
             /\ Hit(First, Carry(s, op)) = Bit(s = "server" /\ op = "accept")
             /\ \A r \in Outcome : Hit(First, Ends(s, op, r)) = 0
        /\ Hit(First, Closers(s)) = 0
        /\ Hit(First, Lockers(s)) = 0
        /\ Hit(First, Clearers(s)) = 0
        /\ Hit(First, Cancels(s)) = 0
    BY <1>1, Hits DEF Bit
  <1> QED
    BY <1>2, InitCounts

LEMMA InitTyped == Init => TypedAndFinite
  <1> SUFFICES ASSUME Init PROVE TypedAndFinite
    OBVIOUS
  <1>1. stack \in [Thread -> Seq(Calls)]
    <2>1. First \in Calls
      BY FramesAreCalls DEF First, Side, Operation
    <2>2. <<First>> \in Seq(Calls) /\ <<>> \in Seq(Calls)
      BY <2>1, EmptySeq
    <2> QED
      BY <2>2 DEF Init, First
  <1>2. Finite
    BY InitCounts DEF Finite
  <1>3. SocketTypeOK
    BY ProxyAssumption DEF Init, SocketInit, SocketTypeOK, Handle, Flight, Fault, Side, Operation
  <1>4. TimerTypeOK
    BY DEF Init, TimerInit, TimerTypeOK
  <1>5. /\ open \in [Side -> BOOLEAN] /\ mutex \in [Side -> BOOLEAN]
        /\ nconnections \in 0 .. CounterSize - 1
    BY ProxyAssumption DEF Init
  <1> QED
    BY <1>1, <1>2, <1>3, <1>4, <1>5 DEF TypedAndFinite, Typed

LEMMA TypedCallback ==
  ASSUME TypedAndFinite, NEW t \in Thread, Callback(t)
  PROVE  TypedAndFinite'
  <1> USE DEF TypedAndFinite
  <1>1. StackTyped'
    BY AcceptedEffect, AcceptFailedEffect, ConnectedEffect, ConnectFailedEffect, ReceivedEffect,
       SentEffect, SentPartEffect, GivesUpEffect, AbortedEffect, DisconnectedEffect DEF Callback
  <1>2. SocketTypeOK' /\ mutex' = mutex
    BY DEF Callback, Accepted, AcceptFailed, Connected, ConnectFailed, ServerReceived,
           ClientReceived, PeerClosed, ServerSent, ClientSent, ServerSentPart, ClientSentPart,
           TransferFailed, TransferAborted, Disconnected, socketVars, ownVars, Typed, SocketTypeOK
  <1>3. TimerTypeOK'
    BY ProxyAssumption
       DEF Callback, Accepted, AcceptFailed, Connected, ConnectFailed, ServerReceived,
           ClientReceived, PeerClosed, ServerSent, ClientSent, ServerSentPart, ClientSentPart,
           TransferFailed, TransferAborted, Disconnected, ownVars, Typed, TimerTypeOK, ExpiresIn
  <1>4. open' \in [Side -> BOOLEAN]
    BY DEF Callback, Accepted, AcceptFailed, Connected, ConnectFailed, ServerReceived,
           ClientReceived, PeerClosed, ServerSent, ClientSent, ServerSentPart, ClientSentPart,
           TransferFailed, TransferAborted, Disconnected, ownVars, Typed
  <1>5. nconnections' \in 0 .. CounterSize - 1
    <2>1. CASE Disconnected(t)
      BY <2>1, ProxyAssumption DEF Disconnected, Typed
    <2>2. CASE Accepted(t)
      BY <2>2, ProxyAssumption DEF Accepted
    <2>3. CASE Connected(t)
      BY <2>3, ProxyAssumption DEF Connected
    <2>4. CASE nconnections' = nconnections
      BY <2>4 DEF Typed
    <2> QED
      BY <2>1, <2>2, <2>3, <2>4
         DEF Callback, AcceptFailed, ConnectFailed, ServerReceived,
             ClientReceived, PeerClosed, ServerSent, ClientSent, ServerSentPart, ClientSentPart,
             TransferFailed, TransferAborted, ownVars
  <1> QED
    BY <1>1, <1>2, <1>3, <1>4, <1>5 DEF Typed, StackTyped

LEMMA TypedClosing ==
  ASSUME TypedAndFinite, NEW t \in Thread, Closing(t)
  PROVE  TypedAndFinite'
  <1> USE DEF TypedAndFinite
  <1>1. StackTyped'
    BY LockEffect, AlreadyClosedEffect, FoundOpenEffect, CloseOpenEffect DEF Closing
  <1>2. SocketTypeOK' /\ TimerTypeOK' /\ nconnections' = nconnections
    BY DEF Closing, Lock, AlreadyClosed, FoundOpen, CloseOpen, socketVars, ownVars,
           Typed, SocketTypeOK, TimerTypeOK
  <1>3. open' \in [Side -> BOOLEAN] /\ mutex' \in [Side -> BOOLEAN]
    BY DEF Closing, Lock, AlreadyClosed, FoundOpen, CloseOpen, ownVars, Typed
  <1> QED
    BY <1>1, <1>2, <1>3 DEF Typed, StackTyped

LEMMA DoomTyped ==
  ASSUME NEW f \in [Operation -> Flight]
  PROVE  /\ Doom(f) \in [Operation -> Flight]
         /\ \A op \in Operation : Doom(f)[op] # "none" <=> f[op] # "none"
         /\ \A op \in Operation : Doom(f)[op] = "doomed" => f[op] # "none"
  BY DEF Doom, Flight

\* An operation that is started correctly.
StartsOperation(t) ==
  Establish(t, AtOnceOutcomes(t)) \/ Transfer(t) \/ Disconnect(t)

LEMMA OperationTyped ==
  ASSUME TypedAndFinite, NEW t \in Thread, StartsOperation(t)
  PROVE  /\ Running(t, "begin")
         /\ Pending(t) \/ \E r \in {"done", "error"} : AtOnce(t, r)
         /\ sock' \in [Side -> Handle] /\ inflight' \in [Side -> [Operation -> Flight]]
         /\ io_pending' = io_pending /\ fault' = fault
  <1> USE DEF TypedAndFinite
  <1>1. Running(t, "begin") /\ io_pending' = io_pending /\ fault' = fault
    BY DEF StartsOperation, Establish, Transfer, Disconnect, Starts
  <1>2. Pending(t) \/ \E r \in {"done", "error"} : AtOnce(t, r)
    BY DEF StartsOperation, Establish, Transfer, Disconnect
  <1>3. On(t) \in Side /\ Op(t) \in Operation
    BY <1>1, BeginHead
  <1>4. /\ sock \in [Side -> Handle] /\ inflight \in [Side -> [Operation -> Flight]]
        /\ inflight[On(t)] \in [Operation -> Flight]
    BY <1>3, ProxyAssumption DEF Typed, SocketTypeOK
  <1>5. sock' \in [Side -> Handle]
    BY <1>4 DEF StartsOperation, Establish, Transfer, Disconnect, Handle, Shut
  <1>6. inflight' = inflight \/ Pending(t) \/ Shut(On(t))
    BY DEF StartsOperation, Establish, Transfer, Disconnect
  <1>7. inflight' \in [Side -> [Operation -> Flight]]
    <2>1. CASE Pending(t)
      BY <1>3, <1>4, <2>1 DEF Pending, Flight
    <2>2. CASE Shut(On(t))
      <3>1. Doom(inflight[On(t)]) \in [Operation -> Flight]
        BY <1>4, DoomTyped
      <3> QED
        BY <1>3, <1>4, <2>2, <3>1 DEF Shut
    <2> QED
      BY <1>4, <1>6, <2>1, <2>2
  <1> QED
    BY <1>1, <1>2, <1>5, <1>7

LEMMA TypedOperate ==
  ASSUME TypedAndFinite, NEW t \in Thread, Operate(t)
  PROVE  TypedAndFinite'
  <1> USE DEF TypedAndFinite
  <1>1. /\ armed' = armed /\ open' = open /\ mutex' = mutex /\ nconnections' = nconnections
    BY DEF Operate, ownVars
  <1>2. StackTyped' /\ SocketTypeOK'
    <2>1. CASE MisusedStart(t)
      <3>1. /\ stack' = stack /\ sock' = sock /\ io_pending' = io_pending /\ inflight' = inflight
            /\ fault' = Misuse(On(t), Op(t))
        BY <2>1 DEF MisusedStart, Breach
      <3>2. Misuse(On(t), Op(t)) \in Fault
        BY DEF Misuse, Fault
      <3> QED
        BY <3>1, <3>2 DEF Typed, SocketTypeOK, StackTyped, Finite
    <2>2. CASE StartsOperation(t)
      <3>1. StackTyped'
        BY <2>2, OperationTyped, PendingEffect, AtOnceEffect DEF Outcome
      <3> QED
        BY <2>2, <3>1, OperationTyped, ProxyAssumption DEF Typed, SocketTypeOK
    <2>3. CASE Cancel(t)
      <3>1. StackTyped' /\ On(t) \in Side /\ Op(t) \in Operation
        BY <2>3, CancelEffect, ProxyAssumption DEF Operation
      <3>2. sock' = sock /\ io_pending' = io_pending /\ fault' = fault
        BY <2>3 DEF Cancel
      <3>3. inflight' \in [Sock -> [Operation -> Flight]]
        BY <2>3, <3>1, ProxyAssumption DEF Cancel, Typed, SocketTypeOK, Flight
      <3> QED
        BY <3>1, <3>2, <3>3 DEF Typed, SocketTypeOK
    <2>4. CASE SetIoPending(t)
      <3>1. StackTyped' /\ On(t) \in Side /\ Op(t) \in Tracked
        BY <2>4, SetIoPendingEffect
      <3>2. sock' = sock /\ inflight' = inflight /\ fault' = fault
        BY <2>4 DEF SetIoPending
      <3>3. io_pending' \in [Sock -> [Tracked -> BOOLEAN]]
        BY <2>4, <3>1, ProxyAssumption DEF SetIoPending, Typed, SocketTypeOK
      <3> QED
        BY <3>1, <3>2, <3>3 DEF Typed, SocketTypeOK
    <2> QED
      BY <2>1, <2>2, <2>3, <2>4 DEF Operate, StartsOperation
  <1> QED
    BY <1>1, <1>2 DEF Typed, TimerTypeOK, StackTyped

LEMMA TypedTime ==
  ASSUME TypedAndFinite, NEW t \in Thread, Time(t)
  PROVE  TypedAndFinite'
  <1> USE DEF TypedAndFinite
  <1>1. StackTyped'
    BY TimeEffect
  <1>2. armed' \in [Timers -> Purpose \cup {"off"}]
    BY DEF Time, Disarm, CallbacksAwaited, CallbackEnds, Typed, TimerTypeOK
  <1> QED
    BY <1>1, <1>2 DEF Time, Typed, SocketTypeOK, TimerTypeOK, socketVars, StackTyped

LEMMA CompletionFlights ==
  ASSUME TypedAndFinite, NEW t \in Pool, NEW s \in Side, NEW op \in Operation, NEW r \in Outcome,
         Completion(t, s, op, r)
  PROVE  /\ SocketTypeOK'
         /\ inflight[s][op] # "none" /\ inflight'[s][op] = "none"
         /\ \A x \in Side, o \in Operation :
              <<x, o>> # <<s, op>> => /\ inflight'[x][o] # "none" <=> inflight[x][o] # "none"
                                      /\ x # s => inflight'[x][o] = inflight[x][o]
         /\ \A x \in Side \ {s} : sock'[x] = sock[x]
  <1> USE DEF TypedAndFinite
  <1> DEFINE landed == [inflight[s] EXCEPT ![op] = "none"]
             closes == op = "disconnect" \/ (op \in Establishing /\ r = "error")
  <1>1. /\ sock \in [Side -> Handle] /\ inflight \in [Side -> [Operation -> Flight]]
        /\ io_pending \in [Side -> [Tracked -> BOOLEAN]]
    BY ProxyAssumption DEF Typed, SocketTypeOK
  <1>2. landed \in [Operation -> Flight] /\ landed[op] = "none"
        /\ \A o \in Operation \ {op} : landed[o] = inflight[s][o]
    BY <1>1 DEF Flight
  <1>3. /\ Doom(landed) \in [Operation -> Flight] /\ Doom(landed)[op] = "none"
        /\ \A o \in Operation \ {op} : Doom(landed)[o] # "none" <=> inflight[s][o] # "none"
    <2> HIDE DEF landed
    <2> QED
      BY <1>2, DoomTyped
  <1>4. inflight' = [inflight EXCEPT ![s] = IF closes THEN Doom(landed) ELSE landed]
    BY DEF Completion, Deliver
  <1>5. inflight[s][op] # "none"
    BY DEF Completion, Deliver, InUse
  <1>6. sock' \in [Side -> Handle] /\ \A x \in Side \ {s} : sock'[x] = sock[x]
    BY <1>1 DEF Completion, Deliver, Handle
  <1>7. io_pending' \in [Side -> [Tracked -> BOOLEAN]]
    BY <1>1 DEF Completion, Deliver
  <1>8. fault' \in Fault
    BY DEF Completion, Deliver, Fault, Typed, SocketTypeOK
  <1> HIDE DEF landed, closes
  <1>9. /\ inflight' \in [Side -> [Operation -> Flight]]
        /\ inflight'[s][op] = "none"
        /\ \A x \in Side, o \in Operation :
              <<x, o>> # <<s, op>> => /\ inflight'[x][o] # "none" <=> inflight[x][o] # "none"
                                      /\ x # s => inflight'[x][o] = inflight[x][o]
    BY <1>1, <1>2, <1>3, <1>4
  <1> QED
    BY <1>5, <1>6, <1>7, <1>8, <1>9, ProxyAssumption DEF SocketTypeOK

LEMMA TypedCompletion ==
  ASSUME TypedAndFinite, NEW t \in Pool, NEW s \in Side, NEW op \in Operation, NEW r \in Outcome,
         Completion(t, s, op, r)
  PROVE  TypedAndFinite'
  BY CompletionEffect, CompletionFlights
     DEF TypedAndFinite, Typed, TimerTypeOK, StackTyped, Completion, ownVars

LEMMA TypedTimer ==
  ASSUME TypedAndFinite, NEW t \in Pool, TimerExpires(t)
  PROVE  TypedAndFinite'
  <1> USE DEF TypedAndFinite
  <1>1. armed' \in [Timers -> Purpose \cup {"off"}]
    BY DEF TimerExpires, Expire, Typed, TimerTypeOK
  <1> QED
    BY <1>1, TimerExpiresEffect
       DEF Typed, SocketTypeOK, TimerTypeOK, StackTyped, TimerExpires, socketVars

LEMMA TypedStep == TypedAndFinite /\ [Next]_vars => TypedAndFinite'
  <1> SUFFICES ASSUME TypedAndFinite, [Next]_vars PROVE TypedAndFinite'
    OBVIOUS
  <1>1. CASE UNCHANGED vars
    BY <1>1 DEF vars, socketVars, ownVars, TypedAndFinite, Typed, Finite, SocketTypeOK, TimerTypeOK
  <1>2. CASE \E t \in Thread : Execute(t)
    BY <1>2, TypedCallback, TypedClosing, TypedOperate, TypedTime DEF Execute
  <1>3. CASE \E t \in Pool, s \in Side, op \in Operation, r \in Outcome : Completion(t, s, op, r)
    BY <1>3, TypedCompletion
  <1>4. CASE \E t \in Pool : TimerExpires(t)
    BY <1>4, TypedTimer
  <1> QED
    BY <1>1, <1>2, <1>3, <1>4 DEF Next, Undefined

\* The variables keep their types, and there are finitely many calls: the
\* connection of proxy.cpp, whatever the timer and the callbacks do.
LEMMA TypedHolds == Spec => []TypedAndFinite
  BY InitTyped, TypedStep, PTL DEF Spec

-----------------------------------------------------------------------------
(* The locks.                                                              *)

\* A step of thread t leaves the stacks of the others alone.
Local(t) == \A u \in Thread \ {t} : stack'[u] = stack[u]

LEMMA StepIsLocal ==
  ASSUME Typed, NEW t \in Thread
  PROVE  /\ \A c : Replace(t, c) \/ Start(t, c) => Local(t)
         /\ Execute(t) => Local(t)
         /\ \A s \in Side, op \in Operation, r \in Outcome : Completion(t, s, op, r) => Local(t)
         /\ TimerExpires(t) => Local(t)
  <1>1. \A c : Replace(t, c) \/ Start(t, c) => Local(t)
    BY DEF Typed, Replace, Start, Local
  <1>2. UNCHANGED stack => Local(t)
    BY DEF Local
  <1>3. Execute(t) => Local(t)
    <2>1. Callback(t) => \E c : Replace(t, c)
      BY DEF Callback, Accepted, AcceptFailed, Connected, ConnectFailed, ServerReceived,
             ClientReceived, PeerClosed, ServerSent, ClientSent, ServerSentPart, ClientSentPart,
             TransferFailed, TransferAborted, Disconnected, Return
    <2>2. Closing(t) => \E c : Replace(t, c)
      BY DEF Closing, Lock, AlreadyClosed, FoundOpen, CloseOpen, Return
    <2>3. Operate(t) => UNCHANGED stack \/ \E c : Replace(t, c)
      BY DEF Operate, MisusedStart, Breach, Establish, Transfer, Disconnect, AtOnce, Pending,
             Cancel, SetIoPending, Return
    <2>4. Time(t) => \E c : Replace(t, c)
      BY DEF Time, Disarm, CallbacksAwaited, CallbackEnds, Return
    <2> QED
      BY <1>1, <1>2, <2>1, <2>2, <2>3, <2>4 DEF Execute
  <1>4. \A s \in Side, op \in Operation, r \in Outcome : Completion(t, s, op, r) => Local(t)
    BY <1>1 DEF Completion, Deliver
  <1>5. TimerExpires(t) => Local(t)
    BY <1>1 DEF TimerExpires, Expire
  <1> QED
    BY <1>1, <1>3, <1>4, <1>5

\* The call that is executed next.
LEMMA NewHead ==
  ASSUME Typed, NEW t \in Thread, ~Idle(t), NEW f \in Calls, Replace(t, <<f>>)
  PROVE  stack'[t] # <<>> /\ Head(stack'[t]) = f
  <1>1. stack[t] \in Seq(Calls) /\ stack'[t] = <<f>> \o Tail(stack[t])
    BY DEF Typed, Replace
  <1>2. Tail(stack[t]) \in Seq(Calls)
    BY <1>1, HeadTailProperties DEF Idle
  <1>3. <<f>> \in Seq(Calls) /\ Len(<<f>>) = 1 /\ <<f>>[1] = f
    OBVIOUS
  <1>4. /\ <<f>> \o Tail(stack[t]) \in Seq(Calls)
        /\ Len(<<f>> \o Tail(stack[t])) = 1 + Len(Tail(stack[t]))
        /\ (<<f>> \o Tail(stack[t]))[1] = f
    BY <1>2, <1>3, ConcatProperties, LenProperties
  <1>5. Len(Tail(stack[t])) \in Nat
    BY <1>2, LenProperties
  <1> QED
    BY <1>1, <1>4, <1>5, EmptySeq

\* Thread t is in close() of side s, with its lock taken.
Holds(t, s) == (Running(t, "test_open") \/ Running(t, "clear_open")) /\ On(t) = s

LEMMA HolderStays ==
  ASSUME NEW t \in Thread, Local(t), NEW u \in Thread \ {t}, NEW s, Holds(u, s)
  PROVE  Holds(u, s)'
  BY DEF Local, Holds, Running, Idle, On

LEMMA HoldersInit == Init => LockHolderRuns
  BY DEF Init, LockHolderRuns

LEMMA HoldersStep == Typed /\ LockHolderRuns /\ [Next]_vars => LockHolderRuns'
  <1> SUFFICES ASSUME Typed, LockHolderRuns, [Next]_vars,
                      NEW s \in Side, mutex'[s]
               PROVE  \E u \in Thread : Holds(u, s)'
    BY DEF LockHolderRuns, Holds
  <1>1. mutex[s] => \E u \in Thread : Holds(u, s)
    BY DEF LockHolderRuns, Holds
  <1>2. CASE UNCHANGED vars
    BY <1>1, <1>2 DEF vars, ownVars, Holds, Running, Idle, On
  <1>3. ASSUME NEW t \in Thread, Local(t), mutex' = mutex, \A x \in Side : ~Holds(t, x)
        PROVE  \E u \in Thread : Holds(u, s)'
    BY <1>1, <1>3, HolderStays
  <1>4. ASSUME NEW t \in Thread, Closing(t)
        PROVE  \E u \in Thread : Holds(u, s)'
    <2>1. Local(t)
      BY <1>4, StepIsLocal DEF Closing, Lock, AlreadyClosed, FoundOpen, CloseOpen, Return
    <2>2. CASE Lock(t)
      <3>1. ~Idle(t) /\ On(t) \in Side /\ Arg(t) \in Flag /\ Replace(t, <<TestOpen(On(t), Arg(t))>>)
        BY <2>2, HeadIsCall, CallNamed DEF Lock, Running, On, Arg
      <3>2. TestOpen(On(t), Arg(t)) \in Calls
        BY <3>1, FramesAreCalls
      <3>3. ASSUME NEW x \in Side, x = On(t)
            PROVE  Holds(t, x)'
        <4> DEFINE f == TestOpen(On(t), Arg(t))
        <4>1. stack'[t] # <<>> /\ Head(stack'[t]) = f
          BY <3>1, <3>2, NewHead
        <4>2. f.call = "test_open" /\ f.on = x
          BY <3>3, FrameFields
        <4> QED
          BY <4>1, <4>2 DEF Holds, Running, Idle, On
      <3>4. CASE s = On(t)
        BY <3>1, <3>3, <3>4
      <3>5. CASE s # On(t)
        <4>1. mutex[s] /\ \A x \in Side : ~Holds(t, x)
          BY <2>2, <3>5 DEF Lock, Typed, Holds, Running
        <4> QED
          BY <1>1, <2>1, <4>1, HolderStays
      <3> QED
        BY <3>4, <3>5
    <2>3. CASE AlreadyClosed(t) \/ CloseOpen(t)
      <3>1. On(t) # s /\ mutex[s]
        BY <2>3 DEF AlreadyClosed, CloseOpen, Typed
      <3> QED
        BY <1>1, <2>1, <3>1, HolderStays DEF Holds
    <2>4. CASE FoundOpen(t)
      <3>1. mutex' = mutex
        BY <2>4 DEF FoundOpen, ownVars
      <3>2. ~Idle(t) /\ On(t) \in Side /\ Arg(t) \in Flag /\ Replace(t, <<ClearOpen(On(t), Arg(t))>>)
        BY <2>4, HeadIsCall, CallNamed DEF FoundOpen, Running, On, Arg
      <3>3. ClearOpen(On(t), Arg(t)) \in Calls
        BY <3>2, FramesAreCalls
      <3>4. ASSUME NEW x \in Side, x = On(t)
            PROVE  Holds(t, x)'
        <4> DEFINE f == ClearOpen(On(t), Arg(t))
        <4>1. stack'[t] # <<>> /\ Head(stack'[t]) = f
          BY <3>2, <3>3, NewHead
        <4>2. f.call = "clear_open" /\ f.on = x
          BY <3>4, FrameFields
        <4> QED
          BY <4>1, <4>2 DEF Holds, Running, Idle, On
      <3>5. PICK u \in Thread : Holds(u, s)
        BY <1>1, <3>1
      <3>6. CASE u = t
        <4>1. s = On(t)
          BY <3>5, <3>6 DEF Holds
        <4> QED
          BY <3>2, <3>4, <4>1
      <3>7. CASE u # t
        BY <2>1, <3>5, <3>7, HolderStays
      <3> QED
        BY <3>6, <3>7
    <2> QED
      BY <1>4, <2>2, <2>3, <2>4 DEF Closing
  <1>5. ASSUME NEW t \in Thread, Execute(t), ~Closing(t)
        PROVE  \E u \in Thread : Holds(u, s)'
    <2>1. Local(t)
      BY <1>5, StepIsLocal
    <2>2. mutex' = mutex
      BY <1>5 DEF Execute, Callback, Accepted, AcceptFailed, Connected, ConnectFailed,
           ServerReceived, ClientReceived, PeerClosed, ServerSent, ClientSent, ServerSentPart,
           ClientSentPart, TransferFailed, TransferAborted, Disconnected, Operate, Time, ownVars
    <2>3. \A x \in Side : ~Holds(t, x)
      BY <1>5 DEF Holds, Running, Execute, Callback, Accepted, AcceptFailed, Connected,
           ConnectFailed, ServerReceived, ClientReceived, PeerClosed, ServerSent, ClientSent,
           ServerSentPart, ClientSentPart, TransferFailed, TransferAborted, Disconnected, Told,
           Operate, MisusedStart, Establish, Transfer, Disconnect, Starts, Cancel, SetIoPending,
           Time, Disarm, CallbacksAwaited, CallbackEnds
    <2> QED
      BY <1>3, <2>1, <2>2, <2>3
  <1>6. ASSUME NEW t \in Pool, NEW x \in Side, NEW op \in Operation, NEW r \in Outcome,
               Completion(t, x, op, r)
        PROVE  \E u \in Thread : Holds(u, s)'
    <2>1. t \in Thread /\ Local(t) /\ mutex' = mutex
      BY <1>6, StepIsLocal DEF Thread, Completion, ownVars
    <2>2. \A y \in Side : ~Holds(t, y)
      BY <1>6 DEF Completion, Deliver, Start, Holds, Running
    <2> QED
      BY <1>3, <2>1, <2>2
  <1>7. ASSUME NEW t \in Pool, TimerExpires(t)
        PROVE  \E u \in Thread : Holds(u, s)'
    <2>1. t \in Thread /\ Local(t) /\ mutex' = mutex
      BY <1>7, StepIsLocal DEF Thread, TimerExpires
    <2>2. \A y \in Side : ~Holds(t, y)
      BY <1>7 DEF TimerExpires, Expire, Start, Holds, Running
    <2> QED
      BY <1>3, <2>1, <2>2
  <1> QED
    BY <1>2, <1>4, <1>5, <1>6, <1>7 DEF Next, Undefined

\* close() of proxy.cpp, 452-539 and 701-740: who holds a lock is running,
\* whatever the timer and the callbacks do.
THEOREM LockHoldersRun == Spec => []LockHolderRuns
  <1>1. TypedAndFinite => Typed
    BY DEF TypedAndFinite
  <1> QED
    BY <1>1, TypedHolds, HoldersInit, HoldersStep, PTL DEF Spec

\* The calls of close() with the lock taken are as many as before.
LocksKept ==
  \A s \in Side : /\ Count(stack', Lockers(s)) = Count(stack, Lockers(s))
                  /\ Count(stack', Clearers(s)) = Count(stack, Clearers(s))

LEMMA LocksKeptBy ==
  ASSUME NEW o1, NEW o2, NEW n2, Closings(o1, {}, {}, o2, {}, {}, n2)
  PROVE  LocksKept
  BY DEF Closings, LocksKept, Bit

LEMMA OtherStepsKeepLocks ==
  ASSUME TypedAndFinite, [Next]_vars, ~\E t \in Thread : Closing(t)
  PROVE  /\ LocksKept
         /\ mutex' = mutex
         /\ \A s \in Side : open[s] => open'[s]
  <1> USE DEF TypedAndFinite
  <1>1. CASE UNCHANGED <<stack, open, mutex>>
    BY <1>1 DEF LocksKept
  <1>2. ASSUME NEW t \in Thread, Callback(t)
        PROVE  LocksKept /\ mutex' = mutex /\ \A s \in Side : open[s] => open'[s]
    <2>1. LocksKept
      BY <1>2, AcceptedEffect, AcceptFailedEffect, ConnectedEffect, ConnectFailedEffect,
         ReceivedEffect, SentEffect, SentPartEffect, GivesUpEffect, AbortedEffect,
         DisconnectedEffect, LocksKeptBy DEF Callback, Aside
    <2> QED
      BY <1>2, <2>1 DEF Callback, Accepted, AcceptFailed, Connected, ConnectFailed,
           ServerReceived, ClientReceived, PeerClosed, ServerSent, ClientSent, ServerSentPart,
           ClientSentPart, TransferFailed, TransferAborted, Disconnected, ownVars, Typed
  <1>3. ASSUME NEW t \in Thread, Operate(t)
        PROVE  LocksKept /\ mutex' = mutex /\ \A s \in Side : open[s] => open'[s]
    <2>1. CASE MisusedStart(t)
      BY <1>3, <2>1 DEF MisusedStart, Breach, LocksKept, Operate, ownVars
    <2>2. CASE ~MisusedStart(t)
      <3>1. Aside
        BY <1>3, <2>2, OperationTyped, PendingEffect, AtOnceEffect, CancelEffect,
           SetIoPendingEffect DEF Operate, StartsOperation, Outcome
      <3> QED
        BY <1>3, <3>1, LocksKeptBy DEF Aside, Operate, ownVars
    <2> QED
      BY <2>1, <2>2
  <1>4. ASSUME NEW t \in Thread, Time(t)
        PROVE  LocksKept /\ mutex' = mutex /\ \A s \in Side : open[s] => open'[s]
    BY <1>4, TimeEffect, LocksKeptBy DEF Time, Aside
  <1>5. ASSUME NEW t \in Pool, NEW s \in Side, NEW op \in Operation, NEW r \in Outcome,
               Completion(t, s, op, r)
        PROVE  LocksKept /\ mutex' = mutex /\ \A x \in Side : open[x] => open'[x]
    BY <1>5, CompletionEffect, LocksKeptBy DEF Completion, Aside, ownVars
  <1>6. ASSUME NEW t \in Pool, TimerExpires(t)
        PROVE  LocksKept /\ mutex' = mutex /\ \A s \in Side : open[s] => open'[s]
    BY <1>6, TimerExpiresEffect, LocksKeptBy DEF TimerExpires
  <1> QED
    BY <1>1, <1>2, <1>3, <1>4, <1>5, <1>6 DEF Next, Execute, Undefined, vars, ownVars

\* A lock is taken if and only if one call holds it, and whoever is about to
\* mark a side as closed has found it open.
Locked == LocksCounted /\ ClearsOpen

LEMMA LockedInit == Init => Locked
  <1> SUFFICES ASSUME Init PROVE Locked
    OBVIOUS
  <1>1. \A s \in Side : Count(stack, Lockers(s)) = 0 /\ Count(stack, Clearers(s)) = 0
    BY InitHits
  <1>2. \A s \in Side : ~mutex[s]
    BY DEF Init
  <1> QED
    BY <1>1, <1>2 DEF Locked, LocksCounted, ClearsOpen, Bit

\* One call of close() at most has the lock of a side.
LEMMA OneClearer ==
  ASSUME TypedAndFinite, LocksCounted, NEW s \in Side
  PROVE  /\ Count(stack, Clearers(s)) \in Nat /\ Count(stack, Lockers(s)) \in Nat
         /\ Count(stack, Clearers(s)) <= Count(stack, Lockers(s))
         /\ Count(stack, Lockers(s)) <= 1
  <1>1. IsFiniteSet(Places(stack, Lockers(s)))
    BY KindsOfCalls, CountSubset DEF TypedAndFinite, Finite
  <1>2. Clearers(s) \subseteq Lockers(s)
    BY DEF Lockers
  <1>3. /\ IsFiniteSet(Places(stack, Clearers(s)))
        /\ Count(stack, Clearers(s)) <= Count(stack, Lockers(s))
    BY <1>1, <1>2, CountSubset
  <1> QED
    BY <1>1, <1>3, CountType DEF LocksCounted, Bit

LEMMA LockedStep == TypedAndFinite /\ Locked /\ [Next]_vars => Locked'
  <1> SUFFICES ASSUME TypedAndFinite, Locked, [Next]_vars PROVE Locked'
    OBVIOUS
  <1>1. open \in [Side -> BOOLEAN] /\ mutex \in [Side -> BOOLEAN]
    BY DEF TypedAndFinite, Typed
  <1>2. ASSUME NEW t \in Thread, Lock(t) PROVE Locked'
    <2>1. On(t) \in Side /\ Closings({On(t)}, {}, {}, {On(t)}, {On(t)}, {}, {})
      BY <1>2, LockEffect DEF TypedAndFinite
    <2> QED
      BY <1>1, <1>2, <2>1 DEF Lock, Locked, LocksCounted, ClearsOpen, Closings, Bit
  <1>3. ASSUME NEW t \in Thread, AlreadyClosed(t) PROVE Locked'
    <2>1. On(t) \in Side /\ Closings({On(t)}, {On(t)}, {}, {}, {}, {}, {})
      BY <1>3, AlreadyClosedEffect DEF TypedAndFinite
    <2> QED
      BY <1>1, <1>3, <2>1 DEF AlreadyClosed, Locked, LocksCounted, ClearsOpen, Closings, Bit
  <1>4. ASSUME NEW t \in Thread, FoundOpen(t) PROVE Locked'
    <2>1. On(t) \in Side /\ Closings({On(t)}, {On(t)}, {}, {On(t)}, {On(t)}, {On(t)}, {})
      BY <1>4, FoundOpenEffect DEF TypedAndFinite
    <2> QED
      BY <1>1, <1>4, <2>1
         DEF FoundOpen, ownVars, Locked, LocksCounted, ClearsOpen, Closings, Bit
  <1>5. ASSUME NEW t \in Thread, CloseOpen(t) PROVE Locked'
    <2>1. On(t) \in Side /\ Closings({On(t)}, {On(t)}, {On(t)}, {}, {}, {}, {On(t)})
      BY <1>5, CloseOpenEffect DEF TypedAndFinite
    <2>2. \A s \in Side : Count(stack, Clearers(s)) <= 1
      BY OneClearer DEF Locked
    <2>3. LocksCounted'
      <3>1. mutex' = [mutex EXCEPT ![On(t)] = FALSE]
        BY <1>5 DEF CloseOpen
      <3> QED
        BY <1>1, <2>1, <3>1 DEF Locked, LocksCounted, Closings, Bit
    <2>4. ASSUME NEW s \in Side, Count(stack', Clearers(s)) > 0 PROVE open'[s]
      <3>1. s # On(t)
        BY <2>1, <2>2, <2>4 DEF Closings, Bit
      <3>2. Count(stack, Clearers(s)) > 0
        BY <2>1, <2>4, <3>1 DEF Closings, Bit
      <3> QED
        BY <1>1, <1>5, <3>1, <3>2 DEF CloseOpen, Locked, ClearsOpen
    <2> QED
      BY <2>3, <2>4 DEF Locked, ClearsOpen
  <1>6. CASE ~\E t \in Thread : Closing(t)
    BY <1>6, OtherStepsKeepLocks DEF Locked, LocksCounted, ClearsOpen, LocksKept
  <1> QED
    BY <1>2, <1>3, <1>4, <1>5, <1>6 DEF Closing

-----------------------------------------------------------------------------
(* Operations, on the stacks and in Windows together.                      *)

\* A step takes the operations of x away and adds those of y.
LoadMoves(x, y) ==
  \A s \in Side, op \in Operation :
    /\ Load(stack', inflight', s, op) + Bit(<<s, op>> \in x)
         = Load(stack, inflight, s, op) + Bit(<<s, op>> \in y)
    /\ Load(stack', inflight', s, op) \in Nat /\ Load(stack, inflight, s, op) \in Nat

FlightsKept ==
  \A s \in Side, op \in Operation : inflight'[s][op] # "none" <=> inflight[s][op] # "none"

LEMMA LoadType ==
  ASSUME TypedAndFinite, NEW s \in Side, NEW op \in Operation
  PROVE  /\ Count(stack, Carry(s, op)) \in Nat
         /\ Load(stack, inflight, s, op) \in Nat
         /\ Load(stack, inflight, s, op) = Count(stack, Carry(s, op)) + Bit(inflight[s][op] # "none")
  <1>1. IsFiniteSet(Places(stack, Carry(s, op)))
    BY KindsOfCalls, CountSubset DEF TypedAndFinite, Finite
  <1> QED
    BY <1>1, CountType DEF Load, Bit

LEMMA CarriedLoads ==
  ASSUME NEW c1, NEW d1, NEW e1, NEW c2, NEW d2, NEW e2, Transfers(c1, d1, e1, c2, d2, e2),
         FlightsKept
  PROVE  LoadMoves(c1, c2)
  <1> SUFFICES ASSUME NEW s \in Side, NEW op \in Operation
               PROVE  /\ Load(stack', inflight', s, op) + Bit(<<s, op>> \in c1)
                           = Load(stack, inflight, s, op) + Bit(<<s, op>> \in c2)
                      /\ Load(stack', inflight', s, op) \in Nat
                      /\ Load(stack, inflight, s, op) \in Nat
    BY DEF LoadMoves
  <1>1. /\ Count(stack', Carry(s, op)) + Bit(<<s, op>> \in c1)
             = Count(stack, Carry(s, op)) + Bit(<<s, op>> \in c2)
        /\ Count(stack', Carry(s, op)) \in Nat /\ Count(stack, Carry(s, op)) \in Nat
    BY DEF Transfers
  <1>2. Bit(inflight'[s][op] # "none") = Bit(inflight[s][op] # "none")
    BY DEF FlightsKept
  <1>3. \A b : Bit(b) \in Nat
    BY DEF Bit
  <1> QED
    BY <1>1, <1>2, <1>3 DEF Load

\* Only Windows and the sockets change what is in flight.
LEMMA OnlyIoFlies ==
  ASSUME NEW t, Callback(t) \/ Closing(t) \/ Time(t) \/ TimerExpires(t)
  PROVE  inflight' = inflight /\ sock' = sock /\ fault' = fault /\ FlightsKept
  BY DEF Callback, Accepted, AcceptFailed, Connected, ConnectFailed, ServerReceived,
         ClientReceived, PeerClosed, ServerSent, ClientSent, ServerSentPart, ClientSentPart,
         TransferFailed, TransferAborted, Disconnected, Closing, Lock, AlreadyClosed, FoundOpen,
         CloseOpen, Time, TimerExpires, socketVars, FlightsKept

\* An operation that is started correctly is not in flight yet.
LEMMA StartsUnused ==
  ASSUME TypedAndFinite, NEW t \in Thread, StartsOperation(t)
  PROVE  /\ inflight[On(t)][Op(t)] = "none"
         /\ Op(t) \in Establishing => sock[On(t)] = "closed"
  BY DEF StartsOperation, Establish, Transfer, Disconnect, Starts, Misuse, InUse

\* What is in flight after an operation has been started: pending, or as before.
LEMMA StartFlights ==
  ASSUME TypedAndFinite, NEW t \in Thread, StartsOperation(t)
  PROVE  \/ /\ Pending(t)
            /\ inflight' = [inflight EXCEPT ![On(t)][Op(t)] = "active"]
         \/ /\ \E r \in {"done", "error"} : AtOnce(t, r)
            /\ FlightsKept
            /\ inflight' # inflight => Op(t) = "disconnect" /\ Shut(On(t))
  <1>1. /\ On(t) \in Side /\ inflight \in [Side -> [Operation -> Flight]]
        /\ inflight[On(t)] \in [Operation -> Flight]
    BY OperationTyped, BeginHead, ProxyAssumption DEF TypedAndFinite, Typed, SocketTypeOK
  <1>2. CASE Pending(t)
    BY <1>2 DEF Pending
  <1>3. CASE \E r \in {"done", "error"} : AtOnce(t, r) /\ inflight' = inflight
    BY <1>3 DEF FlightsKept
  <1>4. CASE Op(t) = "disconnect" /\ Shut(On(t)) /\ \E r \in {"done", "error"} : AtOnce(t, r)
    <2>1. FlightsKept
      <3>1. \A op \in Operation : Doom(inflight[On(t)])[op] # "none" <=> inflight[On(t)][op] # "none"
        BY <1>1, DoomTyped
      <3>2. inflight' = [inflight EXCEPT ![On(t)] = Doom(inflight[On(t)])]
        BY <1>4 DEF Shut
      <3> QED
        BY <1>1, <3>1, <3>2 DEF FlightsKept
    <2> QED
      BY <1>4, <2>1
  <1> QED
    BY <1>2, <1>3, <1>4 DEF StartsOperation, Establish, Transfer, Disconnect, Starts

LEMMA CancelFlights ==
  ASSUME TypedAndFinite, NEW t \in Thread, Cancel(t) \/ SetIoPending(t)
  PROVE  FlightsKept
  <1>1. CASE Cancel(t)
    <2>1. On(t) \in Side /\ Op(t) \in Operation
      BY <1>1, CancelEffect, ProxyAssumption DEF TypedAndFinite, Operation
    <2> QED
      BY <1>1, <2>1, ProxyAssumption DEF Cancel, FlightsKept, TypedAndFinite, Typed, SocketTypeOK
  <1>2. CASE SetIoPending(t)
    <2>1. inflight' = inflight
      BY <1>2 DEF SetIoPending
    <2> QED
      BY <2>1 DEF FlightsKept
  <1> QED
    BY <1>1, <1>2

LEMMA OperateLoads ==
  ASSUME TypedAndFinite, NEW t \in Thread, Operate(t)
  PROVE  LoadMoves({}, {})
  <1>1. CASE MisusedStart(t)
    BY <1>1, LoadType DEF MisusedStart, Breach, LoadMoves
  <1>2. CASE StartsOperation(t)
    <2>1. /\ Running(t, "begin") /\ On(t) \in Side /\ Op(t) \in Operation
          /\ inflight \in [Side -> [Operation -> Flight]]
      BY <1>2, OperationTyped, BeginHead, ProxyAssumption DEF TypedAndFinite, Typed, SocketTypeOK
    <2>2. CASE Pending(t) /\ inflight' = [inflight EXCEPT ![On(t)][Op(t)] = "active"]
      <3>1. Transfers({<<On(t), Op(t)>>}, Starting(t), {}, {}, {}, {})
        BY <2>1, <2>2, PendingEffect DEF TypedAndFinite
      <3>2. inflight[On(t)][Op(t)] = "none"
        BY <1>2, StartsUnused
      <3>3. \A s \in Side, op \in Operation :
              Bit(inflight'[s][op] # "none") = Bit(inflight[s][op] # "none") + Bit(<<s, op>> = <<On(t), Op(t)>>)
        BY <2>1, <2>2, <3>2 DEF Bit
      <3>4. \A s \in Side, op \in Operation :
              /\ Count(stack', Carry(s, op)) + Bit(<<s, op>> = <<On(t), Op(t)>>) = Count(stack, Carry(s, op))
              /\ Count(stack', Carry(s, op)) \in Nat /\ Count(stack, Carry(s, op)) \in Nat
        BY <3>1 DEF Transfers, Bit
      <3> QED
        BY <3>3, <3>4 DEF LoadMoves, Load, Bit
    <2>3. CASE FlightsKept /\ \E r \in {"done", "error"} : AtOnce(t, r)
      <3>1. PICK r \in Outcome : AtOnce(t, r)
        BY <2>3 DEF Outcome
      <3>2. Transfers({<<On(t), Op(t)>>}, Starting(t), {},
                      {<<On(t), Op(t)>>}, {}, {<<On(t), Op(t), r>>})
        BY <2>1, <3>1, AtOnceEffect DEF TypedAndFinite
      <3>3. LoadMoves({<<On(t), Op(t)>>}, {<<On(t), Op(t)>>})
        BY <2>3, <3>2, CarriedLoads
      <3> QED
        BY <3>3 DEF LoadMoves, Bit
    <2> QED
      BY <1>2, <2>2, <2>3, StartFlights
  <1>3. CASE Cancel(t) \/ SetIoPending(t)
    <2>1. Still
      BY <1>3, CancelEffect, SetIoPendingEffect DEF TypedAndFinite
    <2> QED
      BY <1>3, <2>1, CancelFlights, CarriedLoads DEF Still
  <1> QED
    BY <1>1, <1>2, <1>3 DEF Operate, StartsOperation

LEMMA CompletionLoads ==
  ASSUME TypedAndFinite, NEW t \in Pool, NEW s \in Side, NEW op \in Operation, NEW r \in Outcome,
         Completion(t, s, op, r)
  PROVE  LoadMoves({}, {})
  <1>1. Transfers({}, {}, {}, {<<s, op>>}, {}, {<<s, op, r>>})
    BY CompletionEffect DEF TypedAndFinite
  <1>2. \A x \in Side, o \in Operation :
          Bit(inflight'[x][o] # "none") + Bit(<<x, o>> = <<s, op>>) = Bit(inflight[x][o] # "none")
    BY CompletionFlights DEF Bit
  <1>3. \A x \in Side, o \in Operation :
          /\ Count(stack', Carry(x, o)) = Count(stack, Carry(x, o)) + Bit(<<x, o>> = <<s, op>>)
          /\ Count(stack', Carry(x, o)) \in Nat /\ Count(stack, Carry(x, o)) \in Nat
    BY <1>1 DEF Transfers, Bit
  <1> QED
    BY <1>2, <1>3 DEF LoadMoves, Load, Bit

-----------------------------------------------------------------------------
(* The sessions.                                                           *)

\* The steps that begin, extend and end a session.
SessionStep(t) == Accepted(t) \/ Connected(t) \/ Disconnected(t) \/ CloseOpen(t)

\* A step that neither begins, extends nor ends a session.
SessionKept ==
  /\ \A s \in Side, op \in {"accept", "disconnect"} :
       Load(stack', inflight', s, op) = Load(stack, inflight, s, op)
  /\ Load(stack', inflight', "server", "connect") = Load(stack, inflight, "server", "connect")
  /\ Load(stack', inflight', "client", "connect") \in Nat
  /\ Load(stack', inflight', "client", "connect") <= Load(stack, inflight, "client", "connect")
  /\ open' = open
  /\ nconnections' = nconnections

LEMMA NothingMoves ==
  ASSUME LoadMoves({}, {}), open' = open, nconnections' = nconnections
  PROVE  SessionKept
  BY DEF LoadMoves, SessionKept, Bit, Side, Operation

LEMMA CallbackKeepsSession ==
  ASSUME TypedAndFinite, NEW t \in Thread, Callback(t), ~SessionStep(t)
  PROVE  SessionKept
  <1> USE DEF TypedAndFinite
  <1>1. FlightsKept
    BY OnlyIoFlies
  <1>2. open' = open /\ nconnections' = nconnections
    BY DEF SessionStep, Callback, AcceptFailed, ConnectFailed, ServerReceived, ClientReceived,
           PeerClosed, ServerSent, ClientSent, ServerSentPart, ClientSentPart,
           TransferFailed, TransferAborted, ownVars
  <1>3. CASE AcceptFailed(t)
    <2>1. LoadMoves({<<"server", "accept">>}, {<<"server", "accept">>})
      BY <1>1, <1>3, AcceptFailedEffect, CarriedLoads
    <2> QED
      BY <1>2, <2>1 DEF LoadMoves, SessionKept, Bit, Side, Operation
  <1>4. CASE ConnectFailed(t)
    <2>1. LoadMoves({<<"client", "connect">>}, {})
      BY <1>1, <1>4, ConnectFailedEffect, CarriedLoads
    <2> QED
      BY <1>2, <2>1 DEF LoadMoves, SessionKept, Bit, Side, Operation
  <1>5. CASE ServerReceived(t) \/ ClientReceived(t)
    <2>1. \E s \in Side : LoadMoves({<<s, "receive">>}, {<<Other(s), "send">>})
      BY <1>1, <1>5, ReceivedEffect, CarriedLoads
    <2> QED
      BY <1>2, <2>1 DEF LoadMoves, SessionKept, Bit, Side, Operation
  <1>6. CASE ServerSent(t) \/ ClientSent(t)
    <2>1. \E s \in Side : LoadMoves({<<Other(s), "send">>}, {<<s, "receive">>})
      BY <1>1, <1>6, SentEffect, CarriedLoads
    <2> QED
      BY <1>2, <2>1 DEF LoadMoves, SessionKept, Bit, Side, Operation
  <1>7. CASE ServerSentPart(t) \/ ClientSentPart(t)
    <2>1. \E s \in Side : LoadMoves({<<s, "send">>}, {<<s, "send">>})
      BY <1>1, <1>7, SentPartEffect, CarriedLoads
    <2> QED
      BY <1>2, <2>1 DEF LoadMoves, SessionKept, Bit, Side, Operation
  <1>8. CASE PeerClosed(t) \/ TransferFailed(t)
    <2>1. \E s \in Side, op \in {"receive", "send"} : LoadMoves({<<s, op>>}, {})
      BY <1>1, <1>8, GivesUpEffect, CarriedLoads
    <2> QED
      BY <1>2, <2>1 DEF LoadMoves, SessionKept, Bit, Side, Operation
  <1>9. CASE TransferAborted(t)
    <2>1. \E s \in Side, op \in {"receive", "send"} : LoadMoves({<<s, op>>}, {})
      BY <1>1, <1>9, AbortedEffect, CarriedLoads
    <2> QED
      BY <1>2, <2>1 DEF LoadMoves, SessionKept, Bit, Side, Operation
  <1> QED
    BY <1>3, <1>4, <1>5, <1>6, <1>7, <1>8, <1>9 DEF Callback, SessionStep

LEMMA OtherStepsKeepSession ==
  ASSUME TypedAndFinite, [Next]_vars, ~\E t \in Thread : SessionStep(t)
  PROVE  SessionKept
  <1> USE DEF TypedAndFinite
  <1>1. CASE UNCHANGED vars
    <2>1. LoadMoves({}, {})
      BY <1>1, LoadType DEF LoadMoves, vars, socketVars
    <2> QED
      BY <1>1, <2>1, NothingMoves DEF vars, ownVars
  <1>2. ASSUME NEW t \in Thread, Callback(t) PROVE SessionKept
    BY <1>2, CallbackKeepsSession
  <1>3. ASSUME NEW t \in Thread, Closing(t) PROVE SessionKept
    <2>1. Lock(t) \/ AlreadyClosed(t) \/ FoundOpen(t)
      BY <1>3 DEF Closing, SessionStep
    <2>2. Still /\ FlightsKept
      BY <1>3, <2>1, LockEffect, AlreadyClosedEffect, FoundOpenEffect, OnlyIoFlies
    <2>3. open' = open /\ nconnections' = nconnections
      BY <2>1 DEF Lock, AlreadyClosed, FoundOpen, ownVars
    <2> QED
      BY <2>2, <2>3, CarriedLoads, NothingMoves DEF Still
  <1>4. ASSUME NEW t \in Thread, Operate(t) PROVE SessionKept
    BY <1>4, OperateLoads, NothingMoves DEF Operate, ownVars
  <1>5. ASSUME NEW t \in Thread, Time(t) PROVE SessionKept
    BY <1>5, TimeEffect, OnlyIoFlies, CarriedLoads, NothingMoves DEF Time, Still
  <1>6. ASSUME NEW t \in Pool, NEW s \in Side, NEW op \in Operation, NEW r \in Outcome,
               Completion(t, s, op, r)
        PROVE  SessionKept
    BY <1>6, CompletionLoads, NothingMoves DEF Completion, ownVars
  <1>7. ASSUME NEW t \in Pool, TimerExpires(t) PROVE SessionKept
    BY <1>7, TimerExpiresEffect, OnlyIoFlies, CarriedLoads, NothingMoves DEF TimerExpires, Still
  <1> QED
    BY <1>1, <1>2, <1>3, <1>4, <1>5, <1>6, <1>7 DEF Next, Execute, Undefined

\* The one call there is, is the one that is executed.
LEMMA AloneHead ==
  ASSUME TypedAndFinite, Count(stack, Calls) <= 1, NEW t \in Thread, ~Idle(t),
         NEW F \in SUBSET Calls, Head(stack[t]) \notin F
  PROVE  Count(stack, F) = 0
  <1>1. stack \in Stacks(Thread, Calls) /\ IsFiniteSet(Places(stack, Calls))
    BY DEF TypedAndFinite, Typed, Finite, Stacks
  <1>2. Count(stack, F) \in Nat
    BY <1>1, CountSubset, CountType
  <1>3. stack[t] # <<>>
    BY DEF Idle
  <1>4. ~(Count(stack, F) >= 1)
    BY <1>1, <1>3, OnlyCall
  <1> QED
    BY <1>2, <1>4

LEMMA SomeCall ==
  ASSUME TypedAndFinite, NEW t \in Thread, ~Idle(t)
  PROVE  Count(stack, Calls) \in Nat /\ Count(stack, Calls) >= 1
  <1>1. stack \in Stacks(Thread, Calls) /\ IsFiniteSet(Places(stack, Calls))
    BY DEF TypedAndFinite, Typed, Finite, Stacks
  <1>2. stack[t] # <<>> /\ Head(stack[t]) \in Calls
    BY HeadIsCall DEF Idle, TypedAndFinite
  <1> QED
    BY <1>1, <1>2, HeadCounted

\* The thread that is not idle while the client is connected connects it.
LEMMA ConnectHead ==
  ASSUME TypedAndFinite, ConnectsAlone, Load(stack, inflight, "client", "connect") > 0,
         NEW t \in Thread, ~Idle(t)
  PROVE  /\ Head(stack[t]) \in Carry("client", "connect")
         /\ Count(stack, Calls) = 1
         /\ \A s \in Side, op \in Operation : inflight[s][op] = "none"
         /\ Load(stack, inflight, "client", "connect") = 1
  <1>1. "client" \in Side /\ "connect" \in Operation
    BY DEF Side, Operation
  <1>2. /\ Count(stack, Calls) + Bit(inflight["client"]["connect"] # "none") <= 1
        /\ \A s \in Side, op \in Operation :
             inflight[s][op] # "none" => s = "client" /\ op = "connect"
    BY DEF ConnectsAlone
  <1>3. Count(stack, Calls) = 1 /\ inflight["client"]["connect"] = "none"
    BY <1>2, SomeCall DEF Bit
  <1>4. /\ Count(stack, Carry("client", "connect")) = Load(stack, inflight, "client", "connect")
        /\ Count(stack, Carry("client", "connect")) \in Nat
    BY <1>1, <1>3, LoadType DEF Bit
  <1>5. Count(stack, Carry("client", "connect")) # 0
    BY <1>4
  <1>6. Carry("client", "connect") \in SUBSET Calls
    BY <1>1, KindsOfCalls
  <1>7. Head(stack[t]) \in Carry("client", "connect")
    BY <1>3, <1>5, <1>6, AloneHead
  <1>8. Count(stack, Carry("client", "connect")) <= Count(stack, Calls)
    BY <1>6, CountSubset DEF TypedAndFinite, Finite
  <1> QED
    BY <1>2, <1>3, <1>4, <1>5, <1>7, <1>8

\* The counter, decremented.
LEMMA OneLess ==
  ASSUME NEW c \in Nat, c > 2, NEW n \in Nat, n = 1 \/ n = 2
  PROVE  (n + c - 1) % c = n - 1
  OBVIOUS

LEMMA AcceptedCounts ==
  ASSUME TypedAndFinite, SharesCounted, AcceptCounted, NEW t \in Thread, Accepted(t)
  PROVE  /\ SharesCounted' /\ AcceptCounted'
         /\ \A s \in Side : ~open[s]
         /\ \A s \in Side : Load(stack, inflight, s, "disconnect") = 0
         /\ Load(stack', inflight', "client", "connect")
              = Load(stack, inflight, "client", "connect") + 1
  <1> USE DEF TypedAndFinite
  <1>1. LoadMoves({<<"server", "accept">>}, {<<"client", "connect">>})
    BY AcceptedEffect, OnlyIoFlies, CarriedLoads DEF Callback
  <1>2. open \in [Side -> BOOLEAN] /\ open' = [open EXCEPT !["server"] = TRUE] /\ nconnections' = 1
    BY DEF Accepted, Typed
  <1>3. /\ Load(stack, inflight, "server", "accept") = Load(stack', inflight', "server", "accept") + 1
        /\ Load(stack', inflight', "server", "accept") \in Nat
        /\ Load(stack', inflight', "client", "accept") = Load(stack, inflight, "client", "accept")
        /\ Load(stack', inflight', "server", "connect") = Load(stack, inflight, "server", "connect")
        /\ Load(stack', inflight', "client", "connect")
             = Load(stack, inflight, "client", "connect") + 1
        /\ \A s \in Side :
             /\ Load(stack', inflight', s, "disconnect") = Load(stack, inflight, s, "disconnect")
             /\ Load(stack, inflight, s, "disconnect") \in Nat
    BY <1>1 DEF LoadMoves, Bit, Side, Operation
  <1>4. nconnections = 0 /\ Load(stack', inflight', "server", "accept") = 0
    BY <1>3 DEF AcceptCounted, Bit
  <1>5. \A s \in Side : ~open[s] /\ Load(stack, inflight, s, "disconnect") = 0
    <2>1. Share(stack, inflight, open, "server") + Share(stack, inflight, open, "client") = 0
      BY <1>4 DEF SharesCounted
    <2>2. \A s \in Side :
            /\ Share(stack, inflight, open, s) \in Nat
            /\ Share(stack, inflight, open, s) = 0 =>
                 ~open[s] /\ Load(stack, inflight, s, "disconnect") = 0
      BY <1>3 DEF Share, Bit
    <2>3. \A s \in Side : Share(stack, inflight, open, s) = 0
      BY <2>1, <2>2 DEF Side
    <2> QED
      BY <2>2, <2>3
  <1>6. SharesCounted'
    BY <1>2, <1>3, <1>5 DEF SharesCounted, Share, Bit, Side
  <1>7. AcceptCounted'
    BY <1>2, <1>3, <1>4 DEF AcceptCounted, Bit
  <1> QED
    BY <1>3, <1>5, <1>6, <1>7

LEMMA ConnectedCounts ==
  ASSUME TypedAndFinite, SharesCounted, AcceptCounted, ConnectsAlone, NEW t \in Thread, Connected(t)
  PROVE  /\ SharesCounted' /\ AcceptCounted'
         /\ Load(stack, inflight, "client", "connect") > 0
         /\ Load(stack', inflight', "client", "connect") + 1
              = Load(stack, inflight, "client", "connect")
         /\ Load(stack', inflight', "client", "connect") \in Nat
         /\ open["server"] /\ ~open["client"]
  <1> USE DEF TypedAndFinite
  <1>1. LoadMoves({<<"client", "connect">>}, {<<"server", "receive">>, <<"client", "receive">>})
    BY ConnectedEffect, OnlyIoFlies, CarriedLoads DEF Callback
  <1>2. open \in [Side -> BOOLEAN] /\ open' = [open EXCEPT !["client"] = TRUE] /\ nconnections' = 2
    BY DEF Connected, Typed
  <1>3. /\ Load(stack', inflight', "server", "accept") = Load(stack, inflight, "server", "accept")
        /\ Load(stack', inflight', "client", "accept") = Load(stack, inflight, "client", "accept")
        /\ Load(stack', inflight', "server", "connect") = Load(stack, inflight, "server", "connect")
        /\ Load(stack', inflight', "client", "connect") + 1
             = Load(stack, inflight, "client", "connect")
        /\ Load(stack', inflight', "client", "connect") \in Nat
        /\ \A s \in Side :
             /\ Load(stack', inflight', s, "disconnect") = Load(stack, inflight, s, "disconnect")
             /\ Load(stack, inflight, s, "disconnect") \in Nat
    BY <1>1 DEF LoadMoves, Bit, Side, Operation
  <1>4. Load(stack, inflight, "client", "connect") > 0
    BY <1>3
  <1>5. open["server"] /\ nconnections = 1
    BY <1>4 DEF ConnectsAlone
  <1>6. /\ Load(stack, inflight, "server", "disconnect") = 0
        /\ Load(stack, inflight, "client", "disconnect") = 0
        /\ ~open["client"]
    BY <1>2, <1>3, <1>5 DEF SharesCounted, Share, Bit, Side
  <1>7. SharesCounted'
    BY <1>2, <1>3, <1>5, <1>6 DEF SharesCounted, Share, Bit, Side
  <1>8. AcceptCounted'
    BY <1>2, <1>3, <1>5 DEF AcceptCounted, Bit
  <1> QED
    BY <1>3, <1>4, <1>5, <1>6, <1>7, <1>8

LEMMA DisconnectedCounts ==
  ASSUME TypedAndFinite, SharesCounted, AcceptCounted, NEW t \in Thread, Disconnected(t)
  PROVE  /\ SharesCounted' /\ AcceptCounted'
         /\ nconnections > 0 /\ nconnections' = nconnections - 1
         /\ open' = open
         /\ Load(stack', inflight', "client", "connect") = Load(stack, inflight, "client", "connect")
         /\ \E s \in Side :
              /\ ~open[s]
              /\ Load(stack, inflight, s, "disconnect") = 1
              /\ \A x \in Side : Load(stack', inflight', x, "disconnect")
                                   = IF x = s THEN 0 ELSE Load(stack, inflight, x, "disconnect")
  <1> USE DEF TypedAndFinite
  <1> DEFINE next == IF nconnections' = 0 THEN {<<"server", "accept">>} ELSE {}
  <1>1. PICK s \in Side : LoadMoves({<<s, "disconnect">>}, next)
    BY DisconnectedEffect, OnlyIoFlies, CarriedLoads DEF Callback
  <1>2. /\ open' = open /\ open \in [Side -> BOOLEAN] /\ nconnections \in Nat
        /\ nconnections' = (nconnections + CounterSize - 1) % CounterSize
    BY ProxyAssumption DEF Disconnected, Typed
  <1>3. \A x \in Side :
          /\ Load(stack, inflight, x, "disconnect")
               = Load(stack', inflight', x, "disconnect") + Bit(x = s)
          /\ Load(stack', inflight', x, "disconnect") \in Nat
    <2> SUFFICES ASSUME NEW x \in Side
                 PROVE  /\ Load(stack, inflight, x, "disconnect")
                             = Load(stack', inflight', x, "disconnect") + Bit(x = s)
                        /\ Load(stack', inflight', x, "disconnect") \in Nat
      OBVIOUS
    <2>1. Bit(<<x, "disconnect">> \in next) = 0
      BY DEF Bit
    <2>2. Bit(<<x, "disconnect">> \in {<<s, "disconnect">>}) = Bit(x = s)
      BY DEF Bit
    <2>3. Bit(x = s) \in Nat
      BY DEF Bit
    <2>4. "disconnect" \in Operation
      BY DEF Operation
    <2> HIDE DEF next
    <2>5. /\ Load(stack', inflight', x, "disconnect") + Bit(<<x, "disconnect">> \in {<<s, "disconnect">>})
               = Load(stack, inflight, x, "disconnect") + Bit(<<x, "disconnect">> \in next)
          /\ Load(stack', inflight', x, "disconnect") \in Nat
          /\ Load(stack, inflight, x, "disconnect") \in Nat
      BY <1>1, <2>4 DEF LoadMoves
    <2> QED
      BY <2>1, <2>2, <2>3, <2>5
  <1>4. /\ Load(stack', inflight', "server", "accept")
             = Load(stack, inflight, "server", "accept") + Bit(nconnections' = 0)
        /\ Load(stack', inflight', "client", "accept") = Load(stack, inflight, "client", "accept")
        /\ Load(stack', inflight', "server", "connect") = Load(stack, inflight, "server", "connect")
        /\ Load(stack', inflight', "client", "connect") = Load(stack, inflight, "client", "connect")
    BY <1>1 DEF LoadMoves, Bit, Side, Operation
  <1>5. /\ ~open[s] /\ Load(stack, inflight, s, "disconnect") = 1
        /\ Load(stack', inflight', s, "disconnect") = 0
        /\ \A x \in Side \ {s} :
             Load(stack', inflight', x, "disconnect") = Load(stack, inflight, x, "disconnect")
    BY <1>2, <1>3 DEF SharesCounted, Share, Bit
  <1>6. nconnections = 1 \/ nconnections = 2
    BY <1>2, <1>3, <1>5 DEF SharesCounted, Share, Bit, Side
  <1>7. nconnections' = nconnections - 1
    BY <1>2, <1>6, OneLess, ProxyAssumption
  <1>8. SharesCounted'
    BY <1>2, <1>3, <1>5, <1>7 DEF SharesCounted, Share, Bit, Side
  <1>9. AcceptCounted'
    BY <1>4, <1>6, <1>7 DEF AcceptCounted, Bit
  <1> QED
    BY <1>2, <1>4, <1>5, <1>6, <1>7, <1>8, <1>9

LEMMA CloseOpenCounts ==
  ASSUME TypedAndFinite, Locked, SharesCounted, AcceptCounted, NEW t \in Thread, CloseOpen(t)
  PROVE  /\ SharesCounted' /\ AcceptCounted'
         /\ On(t) \in Side /\ open[On(t)] /\ open' = [open EXCEPT ![On(t)] = FALSE]
         /\ nconnections' = nconnections
         /\ Load(stack', inflight', "client", "connect") = Load(stack, inflight, "client", "connect")
         /\ \A x \in Side : Load(stack', inflight', x, "disconnect")
                              = Load(stack, inflight, x, "disconnect") + Bit(x = On(t))
  <1> USE DEF TypedAndFinite
  <1>1. On(t) \in Side /\ LoadMoves({}, {<<On(t), "disconnect">>})
    BY CloseOpenEffect, OnlyIoFlies, CarriedLoads DEF Closing
  <1>2. /\ open \in [Side -> BOOLEAN] /\ open' = [open EXCEPT ![On(t)] = FALSE]
        /\ nconnections' = nconnections
    BY DEF CloseOpen, Typed
  <1>3. open[On(t)]
    BY CloseOpenEffect DEF Locked, ClearsOpen
  <1>4. \A x \in Side :
          /\ Load(stack', inflight', x, "disconnect")
               = Load(stack, inflight, x, "disconnect") + Bit(x = On(t))
          /\ Load(stack, inflight, x, "disconnect") \in Nat
    BY <1>1 DEF LoadMoves, Bit, Operation
  <1>5. /\ Load(stack', inflight', "server", "accept") = Load(stack, inflight, "server", "accept")
        /\ Load(stack', inflight', "client", "accept") = Load(stack, inflight, "client", "accept")
        /\ Load(stack', inflight', "server", "connect") = Load(stack, inflight, "server", "connect")
        /\ Load(stack', inflight', "client", "connect") = Load(stack, inflight, "client", "connect")
    BY <1>1 DEF LoadMoves, Bit, Side, Operation
  <1>6. \A x \in Side : Share(stack', inflight', open', x) = Share(stack, inflight, open, x)
    BY <1>1, <1>2, <1>3, <1>4 DEF Share, Bit
  <1>7. SharesCounted'
    BY <1>2, <1>6 DEF SharesCounted, Side
  <1>8. AcceptCounted'
    BY <1>2, <1>5 DEF AcceptCounted
  <1> QED
    BY <1>1, <1>2, <1>3, <1>4, <1>5, <1>7, <1>8

LEMMA CountsStep ==
  TypedAndFinite /\ Locked /\ SharesCounted /\ AcceptCounted /\ ConnectsAlone /\ [Next]_vars
    => SharesCounted' /\ AcceptCounted'
  <1> SUFFICES ASSUME TypedAndFinite, Locked, SharesCounted, AcceptCounted, ConnectsAlone, [Next]_vars
               PROVE  SharesCounted' /\ AcceptCounted'
    OBVIOUS
  <1>1. CASE \E t \in Thread : SessionStep(t)
    BY <1>1, AcceptedCounts, ConnectedCounts, DisconnectedCounts, CloseOpenCounts DEF SessionStep
  <1>2. CASE ~\E t \in Thread : SessionStep(t)
    <2>1. SessionKept
      BY <1>2, OtherStepsKeepSession
    <2> QED
      BY <2>1 DEF SessionKept, SharesCounted, AcceptCounted, Share, Side
  <1> QED
    BY <1>1, <1>2

-----------------------------------------------------------------------------
(* The accepted connection meets nothing of the last one.                  *)

\* The calls that tell that a connection has been accepted.
Accepts == Ends("server", "accept", "done")

LEMMA AcceptsCount ==
  ASSUME TypedAndFinite
  PROVE  /\ Accepts \in SUBSET Calls
         /\ IsFiniteSet(Places(stack, Accepts))
         /\ Count(stack, Accepts) \in Nat
         /\ Count(stack, Accepts) <= Count(stack, Calls)
         /\ Count(stack, Calls) \in Nat
  <1>1. Accepts \in SUBSET Calls
    BY KindsOfCalls DEF Accepts, Side, Operation, Outcome
  <1> QED
    BY <1>1, CountSubset, CountType DEF TypedAndFinite, Finite

\* Nothing of the last connection is left but the accept: there is one call
\* at most, and nothing in flight but the accept of the server side.
LEMMA SettledAlone ==
  ASSUME TypedAndFinite, AcceptCounted, NEW t \in Thread, Settled(t)
  PROVE  /\ Count(stack, Calls) \in Nat /\ Count(stack, Calls) <= 1
         /\ stack[t] = <<>> => Count(stack, Calls) = 0
         /\ \A s \in Side, op \in Operation :
              inflight[s][op] # "none" => s = "server" /\ op = "accept"
         /\ Count(stack, Carry("server", "accept")) > 0 => inflight["server"]["accept"] = "none"
  <1>1. stack \in Stacks(Thread, Calls) /\ DOMAIN stack = Thread
    BY DEF TypedAndFinite, Typed, Stacks
  <1>2. \A u \in Thread \ {t} : stack[u] = <<>>
    BY DEF Settled, Idle
  <1>3. Len(stack[t]) <= 1
    BY DEF Settled
  <1>4. Count(stack, Calls) \in Nat /\ Count(stack, Calls) <= 1
    BY <1>1, <1>2, <1>3, OneCall
  <1>5. ASSUME stack[t] = <<>> PROVE Count(stack, Calls) = 0
    <2>1. \A u \in DOMAIN stack : stack[u] = <<>>
      BY <1>1, <1>2, <1>5
    <2> QED
      BY <2>1, CountIdle
  <1>6. \A s \in Side, op \in Operation : inflight[s][op] # "none" => op = "accept"
    BY DEF Settled, InUse
  <1>7. inflight["client"]["accept"] = "none"
    BY LoadType DEF AcceptCounted, Bit, Side, Operation
  <1>8. Count(stack, Carry("server", "accept")) > 0 => inflight["server"]["accept"] = "none"
    BY LoadType DEF AcceptCounted, Bit, Side, Operation
  <1> QED
    BY <1>4, <1>5, <1>6, <1>7, <1>8 DEF Side

\* An accept that succeeds at once has found nothing of the last connection.
LEMMA AcceptsAtOnce ==
  ASSUME NEW t, StartsOperation(t), Op(t) = "accept", ~LateCallbacks
  PROVE  \/ Pending(t)
         \/ AtOnce(t, "error")
         \/ AtOnce(t, "done") /\ Settled(t) /\ inflight' = inflight
  BY DEF StartsOperation, Establish, Transfer, Disconnect, Starts, AtOnceOutcomes, MayAccept

\* How the number of accepts that have succeeded changes.
AcceptsFall ==
  Count(stack', Accepts) \in Nat /\ Count(stack', Accepts) <= Count(stack, Accepts)

LEMMA NoNewAccept ==
  ASSUME NEW c1, NEW d1, NEW e1, NEW c2, NEW d2, NEW e2, Transfers(c1, d1, e1, c2, d2, e2),
         <<"server", "accept", "done">> \notin e2
  PROVE  AcceptsFall
  <1>1. "server" \in Side /\ "accept" \in Operation /\ "done" \in Outcome
    BY DEF Side, Operation, Outcome
  <1>2. /\ Count(stack', Accepts) + Bit(<<"server", "accept", "done">> \in e1)
             = Count(stack, Accepts) + Bit(<<"server", "accept", "done">> \in e2)
        /\ Count(stack', Accepts) \in Nat /\ Count(stack, Accepts) \in Nat
    BY <1>1 DEF Transfers, Accepts
  <1> QED
    BY <1>2 DEF AcceptsFall, Bit

LEMMA AcceptsFallUnless ==
  ASSUME TypedAndFinite, NEW t \in Thread, Execute(t) \/ TimerExpires(t)
  PROVE  \/ AcceptsFall
         \/ /\ StartsOperation(t) /\ On(t) = "server" /\ Op(t) = "accept"
            /\ ~Pending(t) /\ ~AtOnce(t, "error")
  <1> USE DEF TypedAndFinite
  <1>1. CASE Callback(t)
    <2>1. \E c1, d1, e1, c2, d2 : Transfers(c1, d1, e1, c2, d2, {})
      BY <1>1, AcceptedEffect, AcceptFailedEffect, ConnectedEffect, ConnectFailedEffect,
         ReceivedEffect, SentEffect, SentPartEffect, GivesUpEffect, AbortedEffect,
         DisconnectedEffect DEF Callback
    <2> QED
      BY <2>1, NoNewAccept
  <1>2. CASE Closing(t)
    <2>1. \E c1, d1, e1, c2, d2 : Transfers(c1, d1, e1, c2, d2, {})
      BY <1>2, LockEffect, AlreadyClosedEffect, FoundOpenEffect, CloseOpenEffect DEF Closing, Still
    <2> QED
      BY <2>1, NoNewAccept
  <1>3. CASE Time(t)
    BY <1>3, TimeEffect, NoNewAccept DEF Still
  <1>4. CASE TimerExpires(t)
    BY <1>4, TimerExpiresEffect, NoNewAccept DEF Still, TimerExpires, Expire, Start
  <1>5. CASE MisusedStart(t)
    BY <1>5, AcceptsCount DEF MisusedStart, Breach, AcceptsFall
  <1>6. CASE Cancel(t) \/ SetIoPending(t)
    BY <1>6, CancelEffect, SetIoPendingEffect, NoNewAccept DEF Still
  <1>7. CASE StartsOperation(t) /\ Pending(t)
    BY <1>7, OperationTyped, PendingEffect, NoNewAccept
  <1>8. ASSUME StartsOperation(t), NEW r \in Outcome, AtOnce(t, r),
               <<On(t), Op(t), r>> # <<"server", "accept", "done">>
        PROVE  AcceptsFall
    <2>1. <<"server", "accept", "done">> \notin {<<On(t), Op(t), r>>}
      BY <1>8
    <2> QED
      BY <1>8, <2>1, OperationTyped, AtOnceEffect, NoNewAccept
  <1>9. CASE StartsOperation(t)
    BY <1>7, <1>8, <1>9, OperationTyped DEF Outcome
  <1> QED
    BY <1>1, <1>2, <1>3, <1>4, <1>5, <1>6, <1>9 DEF Execute, Operate, StartsOperation

LEMMA AcceptedAloneStep ==
  ASSUME TypedAndFinite, Punctual, AcceptCounted, AcceptedAlone, [Next]_vars
  PROVE  AcceptedAlone'
  <1> USE DEF TypedAndFinite
  <1>1. CASE Count(stack, Accepts) > 0
    <2>1. /\ Count(stack, Calls) <= 1 /\ Count(stack, Accepts) = 1
          /\ \A s \in Side, op \in Operation : inflight[s][op] = "none"
      BY <1>1, AcceptsCount DEF AcceptedAlone, Accepts
    <2>2. ASSUME NEW t \in Thread, Execute(t) PROVE AcceptedAlone'
      <3>1. ~Idle(t)
        BY <2>2 DEF Execute, Callback, Accepted, AcceptFailed, Connected, ConnectFailed,
           ServerReceived, ClientReceived, PeerClosed, ServerSent, ClientSent, ServerSentPart,
           ClientSentPart, TransferFailed, TransferAborted, Disconnected, Told, Running,
           Closing, Lock, AlreadyClosed, FoundOpen, CloseOpen,
           Operate, MisusedStart, Establish, Transfer, Disconnect, Starts, Cancel, SetIoPending,
           Time, Disarm, CallbacksAwaited, CallbackEnds
      <3>2. Head(stack[t]) \in Accepts
        BY <2>1, <3>1, AcceptsCount, AloneHead
      <3>3. Head(stack[t]).call = "complete" /\ On(t) = "server" /\ Op(t) = "accept" /\ Arg(t) = "done"
        BY <3>2, FrameFields DEF Accepts, Ends, On, Op, Arg
      <3>4. Accepted(t)
        BY <2>2, <3>3 DEF Execute, Callback, AcceptFailed, Connected, ConnectFailed,
           ServerReceived, ClientReceived, PeerClosed, ServerSent, ClientSent, ServerSentPart,
           ClientSentPart, TransferFailed, TransferAborted, Disconnected, Told, Running,
           Closing, Lock, AlreadyClosed, FoundOpen, CloseOpen,
           Operate, MisusedStart, Establish, Transfer, Disconnect, Starts, Cancel, SetIoPending,
           Time, Disarm, CallbacksAwaited, CallbackEnds
      <3>5. Transfers({<<"server", "accept">>}, {}, {<<"server", "accept", "done">>},
                      {<<"client", "connect">>}, {}, {})
        BY <3>4, AcceptedEffect
      <3>6. Count(stack', Accepts) + 1 = Count(stack, Accepts) /\ Count(stack', Accepts) \in Nat
        BY <3>5 DEF Transfers, Accepts, Bit, Side, Operation, Outcome
      <3> QED
        BY <2>1, <3>6 DEF AcceptedAlone, Accepts
    <2>3. ASSUME NEW t \in Pool, NEW s \in Side, NEW op \in Operation, NEW r \in Outcome,
                 Completion(t, s, op, r)
          PROVE  FALSE
      BY <2>1, <2>3 DEF Completion, Deliver, InUse
    <2>4. ASSUME NEW t \in Pool, TimerExpires(t) PROVE FALSE
      <3>1. \E u \in Thread : \E i \in DOMAIN stack[u] : stack[u][i] \in Accepts
        BY <1>1, AcceptsCount, Counted DEF Typed
      <3> QED
        BY <2>4, <3>1 DEF TimerExpires, Punctual, OnStack, Accepts, Ends
    <2>5. CASE UNCHANGED <<stack, inflight>>
      BY <2>5 DEF AcceptedAlone
    <2> QED
      BY <2>2, <2>3, <2>4, <2>5 DEF Next, Undefined, vars, socketVars
  <1>2. CASE ~(Count(stack, Accepts) > 0)
    <2>1. Count(stack, Accepts) = 0 /\ (AcceptsFall => ~(Count(stack', Accepts) > 0))
      BY <1>2, AcceptsCount DEF AcceptsFall
    <2>2. AcceptsFall => AcceptedAlone'
      BY <2>1 DEF AcceptedAlone, Accepts
    <2>3. ASSUME NEW t \in Thread, StartsOperation(t), On(t) = "server", Op(t) = "accept",
                 ~Pending(t), ~AtOnce(t, "error")
          PROVE  AcceptedAlone'
      <3>1. AtOnce(t, "done") /\ Settled(t) /\ inflight' = inflight
        BY <2>3, AcceptsAtOnce DEF Punctual
      <3>2. Running(t, "begin") /\ "done" \in Outcome
        BY <2>3, OperationTyped DEF Outcome
      <3>3. Count(stack', Calls) = Count(stack, Calls)
        BY <3>1, <3>2, AtOnceEffect
      <3>4. Count(stack, Carry("server", "accept")) > 0
        <4>1. /\ ~Idle(t) /\ Head(stack[t]) \in Carry("server", "accept")
              /\ Carry("server", "accept") \in SUBSET Calls
          BY <2>3, <3>2, BeginHead, KindsOfCalls DEF Carry, Side, Operation
        <4> QED
          BY <4>1, CountSubset, HeadCounted DEF Finite, Stacks, Idle, Typed
      <3> QED
        BY <3>1, <3>3, <3>4, SettledAlone DEF AcceptedAlone
    <2>4. ASSUME NEW t \in Pool, NEW s \in Side, NEW op \in Operation, NEW r \in Outcome,
                 Completion(t, s, op, r)
          PROVE  AcceptedAlone'
      <3>1. /\ Transfers({}, {}, {}, {<<s, op>>}, {}, {<<s, op, r>>})
            /\ Count(stack', Calls) = Count(stack, Calls) + 1
        BY <2>4, CompletionEffect
      <3>2. CASE <<s, op, r>> # <<"server", "accept", "done">>
        <4>1. <<"server", "accept", "done">> \notin {<<s, op, r>>}
          BY <3>2
        <4> QED
          BY <2>2, <3>1, <4>1, NoNewAccept
      <3>3. CASE <<s, op, r>> = <<"server", "accept", "done">>
        <4>1. s = "server" /\ op = "accept" /\ r = "done"
          BY <3>3
        <4>2. Settled(t) /\ stack[t] = <<>> /\ t \in Thread
          BY <2>4, <4>1 DEF Completion, MayAccept, Punctual, Deliver, Start, Idle, Thread
        <4>3. Count(stack', Calls) <= 1
          BY <3>1, <4>2, SettledAlone
        <4>4. \A x \in Side, o \in Operation : inflight'[x][o] = "none"
          BY <2>4, <4>1, <4>2, SettledAlone, CompletionFlights
        <4> QED
          BY <4>3, <4>4 DEF AcceptedAlone
      <3> QED
        BY <3>2, <3>3
    <2>5. UNCHANGED stack => AcceptedAlone'
      BY <2>1, <2>2, AcceptsCount DEF AcceptsFall
    <2> QED
      BY <2>2, <2>3, <2>4, <2>5, AcceptsFallUnless DEF Next, Undefined, vars, Thread
  <1> QED
    BY <1>1, <1>2

-----------------------------------------------------------------------------
(* While the remote host is being connected nothing else happens.          *)

\* The load of the client's connect.
Connects == Load(stack, inflight, "client", "connect")

\* A thread that executes something is not idle.
LEMMA ExecutesCall ==
  ASSUME NEW t, Execute(t)
  PROVE  ~Idle(t)
  BY DEF Execute, Callback, Accepted, AcceptFailed, Connected, ConnectFailed,
         ServerReceived, ClientReceived, PeerClosed, ServerSent, ClientSent, ServerSentPart,
         ClientSentPart, TransferFailed, TransferAborted, Disconnected, Told, Running,
         Closing, Lock, AlreadyClosed, FoundOpen, CloseOpen,
         Operate, MisusedStart, Establish, Transfer, Disconnect, Starts, Cancel, SetIoPending,
         Time, Disarm, CallbacksAwaited, CallbackEnds

\* What a thread does that connects the client.
LEMMA ConnectingStep ==
  ASSUME NEW t, Execute(t), Head(stack[t]) \in Carry("client", "connect")
  PROVE  \/ Connected(t) \/ ConnectFailed(t)
         \/ /\ MisusedStart(t) \/ StartsOperation(t)
            /\ On(t) = "client" /\ Op(t) = "connect"
            /\ UNCHANGED ownVars
  <1>1. /\ Head(stack[t]).call \in {"begin", "complete"}
        /\ On(t) = "client" /\ Op(t) = "connect"
    BY FrameFields DEF Carry, On, Op
  <1> QED
    BY <1>1 DEF Execute, Callback, Accepted, AcceptFailed,
         ServerReceived, ClientReceived, PeerClosed, ServerSent, ClientSent, ServerSentPart,
         ClientSentPart, TransferFailed, TransferAborted, Disconnected, Told, Running,
         Closing, Lock, AlreadyClosed, FoundOpen, CloseOpen,
         Operate, StartsOperation, Cancel, SetIoPending,
         Time, Disarm, CallbacksAwaited, CallbackEnds

LEMMA ConnectFailedLoads ==
  ASSUME TypedAndFinite, NEW t \in Thread, ConnectFailed(t)
  PROVE  Connects' + 1 = Connects /\ Connects' \in Nat
  <1>1. LoadMoves({<<"client", "connect">>}, {})
    BY ConnectFailedEffect, OnlyIoFlies, CarriedLoads DEF Callback, TypedAndFinite
  <1> QED
    BY <1>1 DEF LoadMoves, Connects, Bit, Side, Operation

LEMMA ConnectsAloneStep ==
  ASSUME TypedAndFinite, Punctual, Locked, Session, [Next]_vars
  PROVE  ConnectsAlone'
  <1> USE DEF TypedAndFinite
  <1>1. SharesCounted /\ AcceptCounted /\ AcceptedAlone /\ ConnectsAlone
    BY DEF Session
  <1>2. Connects \in Nat
    BY LoadType DEF Connects, Side, Operation
  <1>3. CASE Connects = 0
    <2>1. ASSUME NEW t \in Thread, Accepted(t) PROVE ConnectsAlone'
      <3>1. ~Idle(t) /\ Head(stack[t]) = Complete("server", "accept", "done")
        <4>1. /\ Told(t, "server", "accept", "done") /\ ~Idle(t)
          BY <2>1 DEF Accepted, Told, Running
        <4> QED
          BY <4>1, HeadIsCall, CallNamed DEF Told, Running, On, Op, Arg
      <3>2. Count(stack, Accepts) > 0
        <4>1. stack \in Stacks(Thread, Calls) /\ stack[t] # <<>>
          BY <3>1 DEF Stacks, Idle, Typed
        <4>2. Head(stack[t]) \in Accepts
          BY <3>1 DEF Accepts, Ends
        <4>3. Count(stack, Accepts) \in Nat /\ Count(stack, Accepts) >= 1
          BY <4>1, <4>2, AcceptsCount, HeadCounted
        <4> QED
          BY <4>3
      <3>3. /\ Count(stack, Calls) <= 1
            /\ \A s \in Side, op \in Operation : inflight[s][op] = "none"
        BY <1>1, <3>2 DEF AcceptedAlone, Accepts
      <3>4. Count(stack, Calls) \in Nat /\ Count(stack', Calls) = Count(stack, Calls)
        BY <2>1, AcceptedEffect
      <3>5. /\ open'["server"] /\ nconnections' = 1 /\ armed'["timer"] = "connect"
            /\ inflight' = inflight
        BY <2>1, ProxyAssumption
           DEF Accepted, ExpiresIn, socketVars, Typed, TimerTypeOK, Side
      <3> QED
        BY <3>3, <3>4, <3>5 DEF ConnectsAlone, Bit, Side, Operation
    <2>2. ASSUME NEW t \in Thread, SessionStep(t), ~Accepted(t) PROVE Connects' = 0
      <3>1. ~Connected(t)
        BY <1>1, <1>3, ConnectedCounts DEF Connects
      <3>2. Connects' = Connects
        BY <1>1, <2>2, <3>1, DisconnectedCounts, CloseOpenCounts DEF SessionStep, Connects
      <3> QED
        BY <1>3, <3>2
    <2>3. CASE ~\E t \in Thread : SessionStep(t)
      <3>1. SessionKept
        BY <2>3, OtherStepsKeepSession
      <3>2. Connects' = 0
        BY <1>3, <3>1 DEF SessionKept, Connects
      <3> QED
        BY <3>2 DEF ConnectsAlone, Connects
    <2>4. Connects' = 0 => ConnectsAlone'
      BY DEF ConnectsAlone, Connects
    <2> QED
      BY <2>1, <2>2, <2>3, <2>4
  <1>4. CASE Connects > 0
    <2>1. /\ open["server"] /\ nconnections = 1 /\ armed["timer"] = "connect"
          /\ Count(stack, Calls) + Bit(inflight["client"]["connect"] # "none") <= 1
          /\ \A s \in Side, op \in Operation :
               inflight[s][op] # "none" => s = "client" /\ op = "connect"
      BY <1>1, <1>4 DEF ConnectsAlone, Connects
    <2>2. ASSUME NEW t \in Thread, Execute(t) PROVE ConnectsAlone'
      <3>1. /\ Head(stack[t]) \in Carry("client", "connect") /\ Count(stack, Calls) = 1
            /\ \A s \in Side, op \in Operation : inflight[s][op] = "none"
            /\ Connects = 1
        BY <1>1, <1>4, <2>2, ExecutesCall, ConnectHead DEF Connects
      <3>2. CASE Connected(t) \/ ConnectFailed(t)
        <4>1. Connects' = 0
          BY <1>1, <3>1, <3>2, ConnectedCounts, ConnectFailedLoads DEF Connects
        <4> QED
          BY <4>1 DEF ConnectsAlone, Connects
      <3>3. CASE MisusedStart(t) /\ UNCHANGED ownVars
        BY <1>1, <3>3 DEF ConnectsAlone, MisusedStart, Breach, ownVars
      <3>4. CASE /\ StartsOperation(t) /\ On(t) = "client" /\ Op(t) = "connect"
                 /\ UNCHANGED ownVars
        <4>1. open'["server"] /\ nconnections' = 1 /\ armed'["timer"] = "connect"
          BY <2>1, <3>4 DEF ownVars
        <4>2. Running(t, "begin") /\ inflight \in [Side -> [Operation -> Flight]]
          BY <3>4, OperationTyped, ProxyAssumption DEF Typed, SocketTypeOK
        <4>3. CASE Pending(t) /\ inflight' = [inflight EXCEPT ![On(t)][Op(t)] = "active"]
          <5>1. Op(t) \notin Tracked
            BY <3>4, ProxyAssumption
          <5>2. Count(stack', Calls) + 1 = 1 /\ Count(stack', Calls) \in Nat
            <6>1. Count(stack', Calls) + 1 = 1
              BY <3>1, <4>2, <4>3, <5>1, PendingEffect
            <6>2. TypedAndFinite'
              BY TypedStep
            <6>3. Count(stack', Calls) \in Nat
              BY <6>2, CountType DEF Finite
            <6> QED
              BY <6>1, <6>3
          <5>3. \A s \in Side, op \in Operation :
                  inflight'[s][op] # "none" => s = "client" /\ op = "connect"
            BY <3>1, <3>4, <4>2, <4>3 DEF Side, Operation
          <5> QED
            BY <4>1, <5>2, <5>3 DEF ConnectsAlone, Bit
        <4>4. CASE FlightsKept /\ \E r \in {"done", "error"} : AtOnce(t, r)
          <5>1. Count(stack', Calls) = 1
            BY <3>1, <4>2, <4>4, AtOnceEffect DEF Outcome
          <5>2. \A s \in Side, op \in Operation : inflight'[s][op] = "none"
            BY <3>1, <4>4 DEF FlightsKept
          <5> QED
            BY <4>1, <5>1, <5>2 DEF ConnectsAlone, Bit, Side, Operation
        <4> QED
          BY <3>4, <4>3, <4>4, StartFlights
      <3> QED
        BY <2>2, <3>1, <3>2, <3>3, <3>4, ConnectingStep
    <2>3. ASSUME NEW t \in Pool, NEW s \in Side, NEW op \in Operation, NEW r \in Outcome,
                 Completion(t, s, op, r)
          PROVE  ConnectsAlone'
      <3>1. inflight[s][op] # "none" /\ s = "client" /\ op = "connect"
        BY <2>1, <2>3, CompletionFlights
      <3>2. Count(stack, Calls) \in Nat /\ Count(stack', Calls) = Count(stack, Calls) + 1
        BY <2>3, CompletionEffect
      <3>3. Count(stack', Calls) = 1
        BY <2>1, <3>1, <3>2 DEF Bit
      <3>4. \A x \in Side, o \in Operation : inflight'[x][o] = "none"
        BY <2>1, <2>3, <3>1, CompletionFlights
      <3>5. open'["server"] /\ nconnections' = 1 /\ armed'["timer"] = "connect"
        BY <2>1, <2>3 DEF Completion, ownVars
      <3> QED
        BY <3>3, <3>4, <3>5 DEF ConnectsAlone, Bit, Side, Operation
    <2>4. ASSUME NEW t \in Pool, TimerExpires(t) PROVE FALSE
      BY <2>1, <2>4 DEF TimerExpires, Punctual
    <2>5. CASE UNCHANGED vars
      BY <1>1, <2>5 DEF ConnectsAlone, vars, socketVars, ownVars
    <2> QED
      BY <2>2, <2>3, <2>4, <2>5 DEF Next, Undefined
  <1> QED
    BY <1>2, <1>3, <1>4

-----------------------------------------------------------------------------
(* The sessions do not overlap.                                            *)

Sound == TypedAndFinite /\ Locked /\ Session

LEMMA SessionInit == Init => Session
  <1> SUFFICES ASSUME Init PROVE Session
    OBVIOUS
  <1>1. \A s \in Side, op \in Operation :
          Load(stack, inflight, s, op) = Bit(s = "server" /\ op = "accept")
    <2>1. \A s \in Side, op \in Operation : ~(inflight[s][op] # "none")
      BY ProxyAssumption DEF Init, SocketInit
    <2> QED
      BY <2>1, InitHits DEF Load, Bit
  <1>2. \A s \in Side : ~open[s]
    BY DEF Init
  <1>3. nconnections = 0
    BY DEF Init
  <1>4. SharesCounted /\ AcceptCounted
    BY <1>1, <1>2, <1>3 DEF SharesCounted, AcceptCounted, Share, Bit, Side, Operation
  <1>5. AcceptedAlone
    BY InitHits DEF AcceptedAlone, Side, Operation, Outcome
  <1>6. ConnectsAlone
    BY <1>1 DEF ConnectsAlone, Bit, Side, Operation
  <1> QED
    BY <1>4, <1>5, <1>6 DEF Session

LEMMA SoundStep == Punctual /\ Sound /\ [Next]_vars => Sound'
  <1> SUFFICES ASSUME Punctual, Sound, [Next]_vars PROVE Sound'
    OBVIOUS
  <1>1. TypedAndFinite /\ Locked /\ Session /\ AcceptCounted /\ AcceptedAlone
        /\ SharesCounted /\ ConnectsAlone
    BY DEF Sound, Session
  <1>2. TypedAndFinite' /\ Locked'
    BY <1>1, TypedStep, LockedStep
  <1>3. SharesCounted' /\ AcceptCounted'
    BY <1>1, CountsStep
  <1>4. AcceptedAlone' /\ ConnectsAlone'
    BY <1>1, AcceptedAloneStep, ConnectsAloneStep
  <1> QED
    BY <1>2, <1>3, <1>4 DEF Sound, Session

\* The invariant the sessions rest on: the flags, the locks, the counter and
\* what is left to be done, on the stacks and in Windows, agree.
THEOREM SessionsSound ==
  ASSUME Punctual
  PROVE  Spec => []Sound
  <1>1. Init => Sound
    BY InitTyped, LockedInit, SessionInit DEF Sound
  <1>2. Sound /\ [Next]_vars => Sound'
    BY SoundStep
  <1> QED
    BY <1>1, <1>2, PTL DEF Spec

\* A call for op is on a stack iff the load of the stacks says so.
LEMMA OngoingLoad ==
  ASSUME TypedAndFinite, NEW s \in Side, NEW op \in Operation
  PROVE  Ongoing(s, op) <=> Load(stack, inflight, s, op) > 0
  <1>1. /\ IsFiniteSet(Places(stack, Carry(s, op))) /\ DOMAIN stack = Thread
        /\ stack \in [Thread -> Seq(Calls)]
    BY KindsOfCalls, CountSubset DEF TypedAndFinite, Finite, Typed
  <1>2. ASSUME NEW t \in Thread, NEW i \in DOMAIN stack[t]
        PROVE  stack[t][i] \in Carry(s, op)
                 <=> /\ stack[t][i].on = s /\ stack[t][i].op = op
                     /\ stack[t][i].call \in {"begin", "complete"}
    <2>1. stack[t] \in Seq(Calls)
      BY <1>1
    <2>2. stack[t][i] \in Calls
      BY <2>1, ElementOfSeq, LenProperties
    <2> QED
      BY <2>2, KindFields
  <1>3. HasCall(s, op) <=> Count(stack, Carry(s, op)) > 0
    BY <1>1, <1>2, Counted DEF HasCall
  <1> QED
    BY <1>3, LoadType DEF Ongoing, InUse, Bit

\* The number of elements of a set of two at most.
LEMMA PairCount ==
  ASSUME NEW a, NEW b, a # b, NEW set, set \subseteq {a, b}
  PROVE  Cardinality(set) = Bit(a \in set) + Bit(b \in set)
  <1>1. CASE set = {}
    BY <1>1, FS_EmptySet DEF Bit
  <1>2. CASE set = {a}
    <2>1. Cardinality(set) = 1
      BY <1>2, FS_Singleton
    <2> QED
      BY <1>2, <2>1 DEF Bit
  <1>3. CASE set = {b}
    <2>1. Cardinality(set) = 1
      BY <1>3, FS_Singleton
    <2> QED
      BY <1>3, <2>1 DEF Bit
  <1>4. CASE set = {a, b}
    <2>1. IsFiniteSet({a}) /\ Cardinality({a}) = 1
      BY FS_Singleton
    <2>2. {a} \cup {b} = set /\ b \notin {a}
      BY <1>4
    <2>3. Cardinality({a} \cup {b}) = Cardinality({a}) + 1
      BY <2>1, <2>2, FS_AddElement
    <2> QED
      BY <1>4, <2>1, <2>2, <2>3 DEF Bit
  <1> QED
    BY <1>1, <1>2, <1>3, <1>4

LEMMA CountsOpenSidesFollows ==
  ASSUME TypedAndFinite, SharesCounted
  PROVE  CountsOpenSides
  <1> DEFINE left == {s \in Side : open[s] \/ Ongoing(s, "disconnect")}
  <1>1. \A s \in Side : Share(stack, inflight, open, s) = Bit(s \in left)
    <2>1. \A s \in Side : /\ Load(stack, inflight, s, "disconnect") \in Nat
                          /\ Ongoing(s, "disconnect") <=> Load(stack, inflight, s, "disconnect") > 0
      BY LoadType, OngoingLoad DEF Operation
    <2> QED
      BY <2>1 DEF SharesCounted, Share, Bit
  <1>2. left \subseteq {"server", "client"}
    BY DEF Side
  <1>3. nconnections = Bit("server" \in left) + Bit("client" \in left)
    BY <1>1 DEF SharesCounted, Side
  <1>4. Cardinality(left) = Bit("server" \in left) + Bit("client" \in left)
    <2> HIDE DEF left
    <2> QED
      BY <1>2, PairCount
  <1> QED
    BY <1>3, <1>4 DEF CountsOpenSides

\* server::disconnected() and the counter of proxy.hpp: whoever closes the
\* sides, and in whatever order their disconnects end, the counter is the
\* number of sides that still have to be disconnected.
THEOREM CounterCounts ==
  ASSUME Punctual
  PROVE  Spec => []CountsOpenSides
  <1>1. Sound => CountsOpenSides
    BY CountsOpenSidesFollows DEF Sound, Session
  <1> QED
    BY <1>1, SessionsSound, PTL

LEMMA CounterTyped ==
  ASSUME Typed, CountsOpenSides
  PROVE  TypeOK
  <1> DEFINE left == {s \in Side : open[s] \/ Ongoing(s, "disconnect")}
  <1>1. left \subseteq {"server", "client"}
    BY DEF Side
  <1>2. Cardinality(left) = Bit("server" \in left) + Bit("client" \in left)
    <2> HIDE DEF left
    <2> QED
      BY <1>1, PairCount
  <1>3. nconnections = Cardinality(left)
    BY DEF CountsOpenSides
  <1>4. nconnections \in 0 .. 2
    <2> HIDE DEF left
    <2> QED
      BY <1>2, <1>3 DEF Bit
  <1>5. 2 <= CounterSize - 1 /\ CounterSize \in Nat
    BY ProxyAssumption
  <1> QED
    BY <1>4, <1>5 DEF Typed, TypeOK

\* The type invariant the runs check.  That the counter does not wrap below
\* zero, which a disconnect of a side that was never counted would make it
\* do, follows from what it counts; with a slow connect or late callbacks
\* it may wrap, and any of its values is possible.
THEOREM TypesKept == Spec => []TypeOK
  <1>1. CASE Punctual
    <2>1. TypedAndFinite => Typed
      BY DEF TypedAndFinite
    <2>2. Typed /\ CountsOpenSides => TypeOK
      BY CounterTyped
    <2>3. Spec => []CountsOpenSides
      BY <1>1, CounterCounts
    <2> QED
      BY <2>1, <2>2, <2>3, TypedHolds, PTL
  <1>2. CASE ~Punctual
    <2>1. SlowConnect \/ LateCallbacks
      BY <1>2, ProxyAssumption DEF Punctual
    <2>2. TypedAndFinite => TypeOK
      BY <2>1 DEF TypedAndFinite, Typed, TypeOK
    <2> QED
      BY <2>2, TypedHolds, PTL
  <1> QED
    BY <1>1, <1>2

LEMMA AcceptsWhenClosedFollows ==
  ASSUME TypedAndFinite, Session
  PROVE  AcceptsOnlyWhenClosed
  <1> SUFFICES ASSUME Accepting, NEW s \in Side
               PROVE  ~open[s] /\ ~Ongoing(s, "disconnect") /\ ~Ongoing(s, "connect")
    BY DEF AcceptsOnlyWhenClosed
  <1>1. Load(stack, inflight, "server", "accept") > 0
    BY OngoingLoad DEF Accepting, Side, Operation
  <1>2. nconnections = 0
    BY <1>1 DEF Session, AcceptCounted, Bit
  <1>3. \A x \in Side : Load(stack, inflight, x, "disconnect") \in Nat
    BY LoadType DEF Operation
  <1>4. \A x \in Side : ~open[x] /\ Load(stack, inflight, x, "disconnect") = 0
    <2>1. Share(stack, inflight, open, "server") + Share(stack, inflight, open, "client") = 0
      BY <1>2 DEF Session, SharesCounted
    <2>2. \A x \in Side :
            /\ Share(stack, inflight, open, x) \in Nat
            /\ Share(stack, inflight, open, x) = 0 =>
                 ~open[x] /\ Load(stack, inflight, x, "disconnect") = 0
      BY <1>3 DEF Share, Bit
    <2>3. \A x \in Side : Share(stack, inflight, open, x) = 0
      BY <2>1, <2>2 DEF Side
    <2> QED
      BY <2>2, <2>3
  <1>5. Load(stack, inflight, "server", "connect") = 0
    BY DEF Session, AcceptCounted
  <1>6. ~(Load(stack, inflight, "client", "connect") > 0)
    BY <1>2 DEF Session, ConnectsAlone
  <1>7. ~Ongoing(s, "disconnect")
    BY <1>4, OngoingLoad DEF Operation
  <1>8. ~Ongoing(s, "connect")
    BY <1>5, <1>6, OngoingLoad DEF Operation, Side
  <1> QED
    BY <1>4, <1>7, <1>8

\* connection::accept() of proxy.cpp: the connection accepts only when both
\* of its sides are closed, nobody closes one still and none is connected.
THEOREM AcceptsWhenClosed ==
  ASSUME Punctual
  PROVE  Spec => []AcceptsOnlyWhenClosed
  <1>1. Sound => AcceptsOnlyWhenClosed
    BY AcceptsWhenClosedFollows DEF Sound
  <1> QED
    BY <1>1, SessionsSound, PTL

-----------------------------------------------------------------------------
(* The connection implements a slot for sessions.                          *)

Seen(o, n) == IF o THEN "open" ELSE IF n > 0 THEN "closing" ELSE "idle"

\* What is seen of the connection, by the counter, the flags and what is
\* left to be disconnected.
Viewed ==
  /\ Accepting <=> nconnections = 0
  /\ \A s \in Side : SideSeen(s) = Seen(open[s], Load(stack, inflight, s, "disconnect"))

LEMMA View == Sound => Viewed
  <1> SUFFICES ASSUME Sound PROVE Viewed
    OBVIOUS
  <1>1. Accepting <=> nconnections = 0
    <2>1. Accepting <=> Load(stack, inflight, "server", "accept") > 0
      BY OngoingLoad DEF Sound, Accepting, Side, Operation
    <2> QED
      BY <2>1 DEF Sound, Session, AcceptCounted, Bit
  <1>2. ASSUME NEW s \in Side
        PROVE  SideSeen(s) = Seen(open[s], Load(stack, inflight, s, "disconnect"))
    <2>1. Ongoing(s, "disconnect") <=> Load(stack, inflight, s, "disconnect") > 0
      BY OngoingLoad DEF Sound, Operation
    <2> QED
      BY <2>1 DEF SideSeen, Seen
  <1> QED
    BY <1>1, <1>2 DEF Viewed

LEMMA NextView == Sound' => Viewed'
  BY View, PTL

LEMMA SlotBegins == Init => Slot!SlotInit
  <1> SUFFICES ASSUME Init PROVE Slot!SlotInit
    OBVIOUS
  <1>1. Sound
    BY InitTyped, LockedInit, SessionInit DEF Sound
  <1>2. Accepting
    BY <1>1, View DEF Viewed, Init
  <1>3. \A s \in Side : SideSeen(s) = "idle"
    <2>1. nconnections = 0 /\ \A s \in Side : ~open[s]
      BY DEF Init
    <2>2. \A s \in Side : ~Ongoing(s, "disconnect")
      BY <1>1, <1>2, AcceptsWhenClosedFollows DEF Sound, AcceptsOnlyWhenClosed
    <2> QED
      BY <2>1, <2>2 DEF SideSeen
  <1> QED
    BY <1>2, <1>3 DEF Slot!SlotInit, Slot!SlotSide, Side

\* What each step does to what is seen.
LEMMA SlotStep ==
  ASSUME Sound, Sound', [Next]_vars
  PROVE  [Slot!SlotNext]_(Slot!slotVars)
  <1>1. Viewed /\ Viewed'
    BY View, NextView
  <1>2. TypedAndFinite /\ Locked /\ SharesCounted /\ AcceptCounted /\ ConnectsAlone
    BY DEF Sound, Session
  <1> DEFINE disc(s) == Load(stack, inflight, s, "disconnect")
             disc2(s) == Load(stack', inflight', s, "disconnect")
  <1>3. /\ open \in [Side -> BOOLEAN]
        /\ \A s \in Side : SideSeen(s) = Seen(open[s], disc(s))
        /\ \A s \in Side : SideSeen(s)' = Seen(open'[s], disc2(s))
        /\ Accepting <=> nconnections = 0
        /\ Accepting' <=> nconnections' = 0
        /\ \A s \in Side : disc(s) \in Nat
    BY <1>1, <1>2, LoadType DEF Viewed, TypedAndFinite, Typed, Operation
  <1> HIDE DEF disc, disc2
  <1>10. Accepting \in BOOLEAN /\ Accepting' \in BOOLEAN
    BY DEF Accepting, Ongoing
  <1>4. ASSUME NEW t \in Thread, Accepted(t) PROVE Slot!BeginSession
    <2>1. (\A s \in Side : ~open[s] /\ disc(s) = 0) /\ nconnections = 0
      BY <1>2, <1>4, AcceptedCounts DEF disc, AcceptCounted, SharesCounted, Share, Bit, Side
    <2>2. /\ open' = [open EXCEPT !["server"] = TRUE] /\ nconnections' = 1
          /\ \A s \in Side : disc2(s) = disc(s)
      <3>1. LoadMoves({<<"server", "accept">>}, {<<"client", "connect">>})
        BY <1>2, <1>4, AcceptedEffect, OnlyIoFlies, CarriedLoads DEF Callback, TypedAndFinite
      <3> QED
        BY <1>4, <3>1 DEF Accepted, LoadMoves, disc, disc2, Bit, Operation
    <2>3. Accepting /\ Accepting' = FALSE
      BY <1>3, <1>10, <2>1, <2>2
    <2>4. SideSeen("server")' = "open" /\ SideSeen("client")' = "idle" /\ SideSeen("client") = "idle"
      BY <1>3, <2>1, <2>2 DEF Seen, Side
    <2> QED
      BY <2>3, <2>4 DEF Slot!BeginSession, Side
  <1>5. ASSUME NEW t \in Thread, Connected(t) PROVE Slot!ConnectRemote
    <2>1. open["server"] /\ ~open["client"] /\ nconnections = 1
      BY <1>2, <1>5, ConnectedCounts DEF ConnectsAlone
    <2>2. /\ open' = [open EXCEPT !["client"] = TRUE] /\ nconnections' = 2
          /\ \A s \in Side : disc2(s) = disc(s)
      <3>1. LoadMoves({<<"client", "connect">>}, {<<"server", "receive">>, <<"client", "receive">>})
        BY <1>2, <1>5, ConnectedEffect, OnlyIoFlies, CarriedLoads DEF Callback, TypedAndFinite
      <3> QED
        BY <1>5, <3>1 DEF Connected, LoadMoves, disc, disc2, Bit, Operation
    <2>3. disc("client") = 0
      BY <1>2, <1>3, <2>1 DEF SharesCounted, Share, Bit, Side, disc
    <2>4. Accepting' = Accepting
      BY <1>3, <1>10, <2>1, <2>2
    <2>5. /\ SideSeen("server") = "open" /\ SideSeen("server")' = "open"
          /\ SideSeen("client") = "idle" /\ SideSeen("client")' = "open"
      BY <1>3, <2>1, <2>2, <2>3 DEF Seen, Side
    <2> QED
      BY <2>4, <2>5 DEF Slot!ConnectRemote, Side
  <1>6. ASSUME NEW t \in Thread, CloseOpen(t) PROVE \E s \in Side : Slot!BeginClosing(s)
    <2>1. PICK x \in Side : x = On(t)
      BY <1>2, <1>6, CloseOpenCounts
    <2>2. /\ open[x] /\ open' = [open EXCEPT ![x] = FALSE] /\ nconnections' = nconnections
          /\ \A s \in Side : disc2(s) = disc(s) + Bit(s = x)
      BY <1>2, <1>6, <2>1, CloseOpenCounts DEF disc, disc2
    <2>3. Accepting' = Accepting
      BY <1>3, <1>10, <2>2
    <2>4. /\ SideSeen(x) = "open" /\ SideSeen(x)' = "closing"
          /\ \A s \in Side \ {x} : SideSeen(s)' = SideSeen(s)
      BY <1>3, <2>2 DEF Seen, Bit
    <2>5. Slot!BeginClosing(x)
      BY <2>3, <2>4 DEF Slot!BeginClosing
    <2> QED
      BY <2>5
  <1>7. ASSUME NEW t \in Thread, Disconnected(t) PROVE \E s \in Side : Slot!EndClosing(s)
    <2>1. /\ nconnections' = nconnections - 1 /\ open' = open
          /\ \E s \in Side : /\ ~open[s] /\ disc(s) = 1
                             /\ \A x \in Side : disc2(x) = IF x = s THEN 0 ELSE disc(x)
      BY <1>2, <1>7, DisconnectedCounts DEF disc, disc2
    <2>2. PICK s \in Side : /\ ~open[s] /\ disc(s) = 1
                            /\ \A x \in Side : disc2(x) = IF x = s THEN 0 ELSE disc(x)
      BY <2>1
    <2>3. /\ SideSeen(s) = "closing" /\ SideSeen(s)' = "idle"
          /\ \A x \in Side \ {s} : SideSeen(x)' = SideSeen(x)
      BY <1>3, <2>1, <2>2 DEF Seen
    <2>4. Accepting' = (\A x \in Side : SideSeen(x)' = "idle")
      <3>1. nconnections' = Share(stack', inflight', open', "server")
                            + Share(stack', inflight', open', "client")
        BY DEF Sound, Session, SharesCounted
      <3>2. \A x \in Side : disc2(x) \in Nat
        BY <1>3, <2>2
      <3>3. \A x \in Side : /\ Share(stack', inflight', open', x) \in Nat
                            /\ Share(stack', inflight', open', x) = 0
                                 <=> Seen(open'[x], disc2(x)) = "idle"
        BY <3>2 DEF Share, Seen, Bit, disc2
      <3>4. nconnections' = 0 <=> \A x \in Side : Share(stack', inflight', open', x) = 0
        BY <3>1, <3>3 DEF Side
      <3> QED
        BY <1>3, <1>10, <3>3, <3>4
    <2>5. Slot!EndClosing(s)
      BY <2>3, <2>4 DEF Slot!EndClosing, Slot!SlotSide, Side
    <2> QED
      BY <2>5
  <1>8. CASE ~\E t \in Thread : SessionStep(t)
    <2>1. SessionKept
      BY <1>2, <1>8, OtherStepsKeepSession
    <2>2. \A s \in Side : disc2(s) = disc(s)
      BY <2>1 DEF SessionKept, disc, disc2
    <2>3. open' = open /\ nconnections' = nconnections
      BY <2>1 DEF SessionKept
    <2>4. Accepting' = Accepting /\ \A s \in Side : SideSeen(s)' = SideSeen(s)
      BY <1>3, <1>10, <2>2, <2>3
    <2> QED
      BY <2>4 DEF Slot!slotVars
  <1>9. CASE \E t \in Thread : SessionStep(t)
    BY <1>4, <1>5, <1>6, <1>7, <1>9 DEF SessionStep, Slot!SlotNext, Slot!SlotSide, Side
  <1> QED
    BY <1>8, <1>9

\* A proxy connection implements a slot whose sessions do not overlap:
\* accepting, connecting, the two closes and the two disconnects of proxy.cpp
\* are the steps of a slot, and no other step is seen.
THEOREM ConnectionIsSlot ==
  ASSUME Punctual
  PROVE  Spec => ImplementsSlot
  <1>1. Init => Slot!SlotInit
    BY SlotBegins
  <1>2. Sound /\ Sound' /\ [Next]_vars => [Slot!SlotNext]_(Slot!slotVars)
    BY SlotStep
  <1> QED
    BY <1>1, <1>2, SessionsSound, PTL DEF Spec, ImplementsSlot, Slot!SlotSpec

-----------------------------------------------------------------------------
(* The buffers.                                                            *)

\* The two users of a buffer in a step.
LEMMA ChainMoves ==
  ASSUME NEW x, NEW y, LoadMoves(x, y), NEW s \in Side
  PROVE  /\ Chain(stack', inflight', s) + Bit(<<s, "receive">> \in x) + Bit(<<Other(s), "send">> \in x)
              = Chain(stack, inflight, s) + Bit(<<s, "receive">> \in y) + Bit(<<Other(s), "send">> \in y)
         /\ Chain(stack', inflight', s) \in Nat /\ Chain(stack, inflight, s) \in Nat
  <1>1. Other(s) \in Side /\ "receive" \in Operation /\ "send" \in Operation
    BY DEF Other, Side, Operation
  <1>2. /\ Load(stack', inflight', s, "receive") + Bit(<<s, "receive">> \in x)
             = Load(stack, inflight, s, "receive") + Bit(<<s, "receive">> \in y)
        /\ Load(stack', inflight', s, "receive") \in Nat
        /\ Load(stack, inflight, s, "receive") \in Nat
    BY <1>1 DEF LoadMoves
  <1>3. /\ Load(stack', inflight', Other(s), "send") + Bit(<<Other(s), "send">> \in x)
             = Load(stack, inflight, Other(s), "send") + Bit(<<Other(s), "send">> \in y)
        /\ Load(stack', inflight', Other(s), "send") \in Nat
        /\ Load(stack, inflight, Other(s), "send") \in Nat
    BY <1>1 DEF LoadMoves
  <1>4. \A b : Bit(b) \in Nat
    BY DEF Bit
  <1> QED
    BY <1>2, <1>3, <1>4 DEF Chain

ChainsKept ==
  \A s \in Side : /\ Chain(stack', inflight', s) = Chain(stack, inflight, s)
                  /\ Chain(stack, inflight, s) \in Nat

LEMMA NoTransferMoves ==
  ASSUME NEW x, NEW y, LoadMoves(x, y),
         \A s \in Side, op \in {"receive", "send"} : <<s, op>> \notin x /\ <<s, op>> \notin y
  PROVE  ChainsKept
  <1> SUFFICES ASSUME NEW s \in Side
               PROVE  /\ Chain(stack', inflight', s) = Chain(stack, inflight, s)
                      /\ Chain(stack, inflight, s) \in Nat
    BY DEF ChainsKept
  <1>1. Other(s) \in Side
    BY DEF Other, Side
  <1>2. /\ Bit(<<s, "receive">> \in x) = 0 /\ Bit(<<Other(s), "send">> \in x) = 0
        /\ Bit(<<s, "receive">> \in y) = 0 /\ Bit(<<Other(s), "send">> \in y) = 0
    BY <1>1 DEF Bit
  <1> QED
    BY <1>2, ChainMoves

\* The steps that pass a buffer on, or do not concern one.
LEMMA CallbackKeepsChains ==
  ASSUME TypedAndFinite, NEW t \in Thread, Callback(t),
         ~Connected(t), ~PeerClosed(t), ~TransferFailed(t), ~TransferAborted(t)
  PROVE  ChainsKept
  <1> USE DEF TypedAndFinite
  <1>1. FlightsKept
    BY OnlyIoFlies
  <1>2. CASE Accepted(t) \/ AcceptFailed(t) \/ ConnectFailed(t)
    <2>1. \/ LoadMoves({<<"server", "accept">>}, {<<"client", "connect">>})
          \/ LoadMoves({<<"server", "accept">>}, {<<"server", "accept">>})
          \/ LoadMoves({<<"client", "connect">>}, {})
      BY <1>1, <1>2, AcceptedEffect, AcceptFailedEffect, ConnectFailedEffect, CarriedLoads
    <2> QED
      BY <2>1, NoTransferMoves
  <1>3. CASE ServerReceived(t) \/ ClientReceived(t)
    <2>1. PICK s \in Side : LoadMoves({<<s, "receive">>}, {<<Other(s), "send">>})
      BY <1>1, <1>3, ReceivedEffect, CarriedLoads
    <2> QED
      BY <2>1, ChainMoves DEF ChainsKept, Bit, Other, Side
  <1>4. CASE ServerSent(t) \/ ClientSent(t)
    <2>1. PICK s \in Side : LoadMoves({<<Other(s), "send">>}, {<<s, "receive">>})
      BY <1>1, <1>4, SentEffect, CarriedLoads
    <2> QED
      BY <2>1, ChainMoves DEF ChainsKept, Bit, Other, Side
  <1>5. CASE ServerSentPart(t) \/ ClientSentPart(t)
    <2>1. PICK s \in Side : LoadMoves({<<s, "send">>}, {<<s, "send">>})
      BY <1>1, <1>5, SentPartEffect, CarriedLoads
    <2> QED
      BY <2>1, ChainMoves DEF ChainsKept, Bit, Other, Side
  <1>6. CASE Disconnected(t)
    <2> DEFINE next == IF nconnections' = 0 THEN {<<"server", "accept">>} ELSE {}
    <2>1. PICK s \in Side : LoadMoves({<<s, "disconnect">>}, next)
      BY <1>1, <1>6, DisconnectedEffect, CarriedLoads
    <2> QED
      BY <2>1, NoTransferMoves
  <1> QED
    BY <1>2, <1>3, <1>4, <1>5, <1>6 DEF Callback

LEMMA OthersKeepChains ==
  ASSUME TypedAndFinite, [Next]_vars, ~\E t \in Thread : Callback(t)
  PROVE  ChainsKept
  <1> USE DEF TypedAndFinite
  <1>1. LoadMoves({}, {}) => ChainsKept
    BY NoTransferMoves
  <1>2. CASE UNCHANGED vars
    <2>1. LoadMoves({}, {})
      BY <1>2, LoadType DEF LoadMoves, vars, socketVars
    <2> QED
      BY <1>1, <2>1
  <1>3. ASSUME NEW t \in Thread, Closing(t) PROVE ChainsKept
    <2>1. CASE Lock(t) \/ AlreadyClosed(t) \/ FoundOpen(t)
      BY <1>1, <1>3, <2>1, LockEffect, AlreadyClosedEffect, FoundOpenEffect, OnlyIoFlies,
         CarriedLoads DEF Still
    <2>2. CASE CloseOpen(t)
      <3>1. LoadMoves({}, {<<On(t), "disconnect">>})
        BY <1>3, <2>2, CloseOpenEffect, OnlyIoFlies, CarriedLoads
      <3> QED
        BY <3>1, NoTransferMoves
    <2> QED
      BY <1>3, <2>1, <2>2 DEF Closing
  <1>4. ASSUME NEW t \in Thread, Operate(t) PROVE ChainsKept
    BY <1>1, <1>4, OperateLoads
  <1>5. ASSUME NEW t \in Thread, Time(t) PROVE ChainsKept
    BY <1>1, <1>5, TimeEffect, OnlyIoFlies, CarriedLoads DEF Still
  <1>6. ASSUME NEW t \in Pool, NEW s \in Side, NEW op \in Operation, NEW r \in Outcome,
               Completion(t, s, op, r)
        PROVE  ChainsKept
    BY <1>1, <1>6, CompletionLoads
  <1>7. ASSUME NEW t \in Pool, TimerExpires(t) PROVE ChainsKept
    BY <1>1, <1>7, TimerExpiresEffect, OnlyIoFlies, CarriedLoads DEF Still
  <1> QED
    BY <1>2, <1>3, <1>4, <1>5, <1>6, <1>7 DEF Next, Execute, Undefined

\* What the thread that has just accepted, or connected, can be sure of:
\* there is no other call, and nothing in flight.
LEMMA AloneFinds ==
  ASSUME TypedAndFinite, NEW t \in Thread, ~Idle(t), Count(stack, Calls) <= 1,
         Head(stack[t]).call \in {"begin", "complete"},
         \A s \in Side, op \in Operation : inflight[s][op] = "none"
  PROVE  \A s \in Side :
           /\ Count(stack, Closers(s)) = 0 /\ Count(stack, Cancels(s)) = 0
           /\ \A op \in Operation :
                /\ s # On(t) \/ op # Op(t) => Load(stack, inflight, s, op) = 0
                /\ \A r \in Outcome :
                     Head(stack[t]) # Complete(s, op, r) => Count(stack, Ends(s, op, r)) = 0
  <1>1. Head(stack[t]) \in Calls
    BY HeadIsCall DEF TypedAndFinite
  <1> SUFFICES ASSUME NEW s \in Side
               PROVE  /\ Count(stack, Closers(s)) = 0 /\ Count(stack, Cancels(s)) = 0
                      /\ \A op \in Operation :
                           /\ s # On(t) \/ op # Op(t) => Load(stack, inflight, s, op) = 0
                           /\ \A r \in Outcome :
                                Head(stack[t]) # Complete(s, op, r) => Count(stack, Ends(s, op, r)) = 0
    OBVIOUS
  <1>2. \A F \in SUBSET Calls : Head(stack[t]) \notin F => Count(stack, F) = 0
    BY AloneHead
  <1>3. Head(stack[t]) \notin Closers(s) /\ Head(stack[t]) \notin Cancels(s)
    BY <1>1, KindFields
  <1>4. ASSUME NEW op \in Operation, s # On(t) \/ op # Op(t)
        PROVE  Load(stack, inflight, s, op) = 0
    <2>1. Head(stack[t]) \notin Carry(s, op)
      BY <1>1, <1>4, KindFields DEF On, Op
    <2>2. Count(stack, Carry(s, op)) = 0
      BY <1>2, <2>1, KindsOfCalls
    <2> QED
      BY <2>2 DEF Load, Bit
  <1>5. ASSUME NEW op \in Operation, NEW r \in Outcome, Head(stack[t]) # Complete(s, op, r)
        PROVE  Count(stack, Ends(s, op, r)) = 0
    <2>1. Head(stack[t]) \notin Ends(s, op, r)
      BY <1>5 DEF Ends
    <2> QED
      BY <1>2, <2>1, KindsOfCalls
  <1> QED
    BY <1>2, <1>3, <1>4, <1>5, KindsOfCalls

LEMMA ConnectedAlone ==
  ASSUME Sound, NEW t \in Thread, Connected(t) \/ ConnectFailed(t)
  PROVE  /\ open["server"] /\ ~open["client"]
         /\ \A s \in Side, op \in Operation : inflight[s][op] = "none"
         /\ \A s \in Side :
              /\ Count(stack, Closers(s)) = 0 /\ Count(stack, Cancels(s)) = 0
              /\ \A op \in {"receive", "send"} :
                   /\ Load(stack, inflight, s, op) = 0
                   /\ \A r \in Outcome : Count(stack, Ends(s, op, r)) = 0
  <1>1. TypedAndFinite /\ ConnectsAlone /\ SharesCounted
    BY DEF Sound, Session
  <1>2. ~Idle(t) /\ \E r \in Outcome : Head(stack[t]) = Complete("client", "connect", r)
    BY <1>1, ConnectedEffect, ConnectFailedEffect DEF TypedAndFinite, Outcome
  <1>3. Load(stack, inflight, "client", "connect") > 0
    <2>1. LoadMoves({<<"client", "connect">>}, {})
          \/ LoadMoves({<<"client", "connect">>}, {<<"server", "receive">>, <<"client", "receive">>})
      BY <1>1, ConnectedEffect, ConnectFailedEffect, OnlyIoFlies, CarriedLoads
         DEF Callback, TypedAndFinite
    <2> QED
      BY <2>1 DEF LoadMoves, Bit, Side, Operation
  <1>4. /\ Count(stack, Calls) = 1
        /\ \A s \in Side, op \in Operation : inflight[s][op] = "none"
    BY <1>1, <1>2, <1>3, ConnectHead
  <1>5. /\ Head(stack[t]).call = "complete" /\ On(t) = "client" /\ Op(t) = "connect"
        /\ \A s \in Side, op \in {"receive", "send"}, r \in Outcome :
             Head(stack[t]) # Complete(s, op, r)
    BY <1>2, FrameFields DEF On, Op
  <1>6. open["server"] /\ ~open["client"]
    <2>1. open["server"] /\ nconnections = 1
      BY <1>1, <1>3 DEF ConnectsAlone
    <2>2. \A s \in Side : Load(stack, inflight, s, "disconnect") \in Nat
      BY <1>1, LoadType DEF Operation
    <2> QED
      BY <1>1, <2>1, <2>2 DEF SharesCounted, Share, Bit, Side
  <1>7. {"receive", "send"} \subseteq Operation
    BY DEF Operation
  <1> QED
    BY <1>1, <1>2, <1>4, <1>5, <1>6, <1>7, AloneFinds

LEMMA AcceptedFindsNothing ==
  ASSUME Sound, NEW t \in Thread, Accepted(t)
  PROVE  /\ \A s \in Side, op \in Operation : inflight[s][op] = "none"
         /\ \A s \in Side :
              /\ Count(stack, Closers(s)) = 0 /\ Count(stack, Cancels(s)) = 0
              /\ \A op \in {"receive", "send"} :
                   \A r \in Outcome : Count(stack, Ends(s, op, r)) = 0
  <1>1. TypedAndFinite /\ AcceptedAlone
    BY DEF Sound, Session
  <1>2. ~Idle(t) /\ Head(stack[t]) = Complete("server", "accept", "done")
    <2>1. Told(t, "server", "accept", "done") /\ ~Idle(t)
      BY DEF Accepted, Told, Running
    <2> QED
      BY <1>1, <2>1, HeadIsCall, CallNamed DEF Told, Running, On, Op, Arg, TypedAndFinite
  <1>3. Count(stack, Accepts) > 0
    <2>1. stack \in Stacks(Thread, Calls) /\ stack[t] # <<>> /\ Head(stack[t]) \in Accepts
      BY <1>1, <1>2 DEF Stacks, Idle, TypedAndFinite, Typed, Accepts, Ends
    <2>2. Count(stack, Accepts) \in Nat /\ Count(stack, Accepts) >= 1
      BY <1>1, <2>1, AcceptsCount, HeadCounted
    <2> QED
      BY <2>2
  <1>4. /\ Count(stack, Calls) <= 1
        /\ \A s \in Side, op \in Operation : inflight[s][op] = "none"
    BY <1>1, <1>3 DEF AcceptedAlone, Accepts
  <1>5. /\ Head(stack[t]).call = "complete"
        /\ \A s \in Side, op \in {"receive", "send"}, r \in Outcome :
             Head(stack[t]) # Complete(s, op, r)
    BY <1>2, FrameFields
  <1>6. {"receive", "send"} \subseteq Operation
    BY DEF Operation
  <1> QED
    BY <1>1, <1>2, <1>4, <1>5, <1>6, AloneFinds

\* The transfers that end for good leave the buffers.
LEMMA TransferEnds ==
  ASSUME TypedAndFinite, NEW t \in Thread,
         PeerClosed(t) \/ TransferFailed(t) \/ TransferAborted(t)
  PROVE  \A s \in Side :
           /\ Chain(stack', inflight', s) \in Nat /\ Chain(stack, inflight, s) \in Nat
           /\ Chain(stack', inflight', s) <= Chain(stack, inflight, s)
  <1>1. PICK s \in Side, op \in {"receive", "send"} : LoadMoves({<<s, op>>}, {})
    BY GivesUpEffect, AbortedEffect, OnlyIoFlies, CarriedLoads DEF TypedAndFinite, Callback
  <1> SUFFICES ASSUME NEW x \in Side
               PROVE  /\ Chain(stack', inflight', x) \in Nat /\ Chain(stack, inflight, x) \in Nat
                      /\ Chain(stack', inflight', x) <= Chain(stack, inflight, x)
    OBVIOUS
  <1> DEFINE b == Bit(<<x, "receive">> \in {<<s, op>>})
             c == Bit(<<Other(x), "send">> \in {<<s, op>>})
             d == Bit(<<x, "receive">> \in {})
             e == Bit(<<Other(x), "send">> \in {})
  <1>2. /\ Chain(stack', inflight', x) + b + c = Chain(stack, inflight, x) + d + e
        /\ Chain(stack', inflight', x) \in Nat /\ Chain(stack, inflight, x) \in Nat
    BY <1>1, ChainMoves
  <1>3. b \in Nat /\ c \in Nat /\ d = 0 /\ e = 0
    BY DEF Bit
  <1> HIDE DEF b, c, d, e
  <1> QED
    BY <1>2, <1>3

LEMMA BuffersStep == Sound /\ BuffersUsed /\ [Next]_vars => BuffersUsed'
  <1> SUFFICES ASSUME Sound, BuffersUsed, [Next]_vars PROVE BuffersUsed'
    OBVIOUS
  <1>1. TypedAndFinite
    BY DEF Sound
  <1>2. ASSUME NEW t \in Thread, Connected(t) PROVE BuffersUsed'
    <2>1. LoadMoves({<<"client", "connect">>}, {<<"server", "receive">>, <<"client", "receive">>})
      BY <1>1, <1>2, ConnectedEffect, OnlyIoFlies, CarriedLoads DEF Callback, TypedAndFinite
    <2>2. \A s \in Side : Chain(stack, inflight, s) = 0
      <3>1. \A s \in Side : Load(stack, inflight, s, "receive") = 0 /\ Load(stack, inflight, s, "send") = 0
        BY <1>2, ConnectedAlone
      <3> QED
        BY <3>1 DEF Chain, Other, Side
    <2> QED
      BY <2>1, <2>2, ChainMoves DEF BuffersUsed, Bit, Other, Side
  <1>3. ASSUME NEW t \in Thread, PeerClosed(t) \/ TransferFailed(t) \/ TransferAborted(t)
        PROVE  BuffersUsed'
    BY <1>1, <1>3, TransferEnds DEF BuffersUsed
  <1>4. ChainsKept => BuffersUsed'
    BY DEF ChainsKept, BuffersUsed
  <1> QED
    BY <1>1, <1>2, <1>3, <1>4, CallbackKeepsChains, OthersKeepChains

LEMMA BuffersInit == Init => BuffersUsed
  <1> SUFFICES ASSUME Init, NEW s \in Side PROVE Chain(stack, inflight, s) <= 1
    BY DEF BuffersUsed
  <1>1. Other(s) \in Side /\ "receive" \in Operation /\ "send" \in Operation
    BY DEF Other, Side, Operation
  <1>2. /\ Count(stack, Carry(s, "receive")) = 0
        /\ Count(stack, Carry(Other(s), "send")) = 0
    BY <1>1, InitHits DEF Bit
  <1>3. inflight[s]["receive"] = "none" /\ inflight[Other(s)]["send"] = "none"
    BY <1>1, ProxyAssumption DEF Init, SocketInit
  <1> QED
    BY <1>2, <1>3 DEF Chain, Load, Bit

LEMMA OneUserFollows ==
  ASSUME TypedAndFinite, BuffersUsed
  PROVE  BufferHasOneUser
  <1> SUFFICES ASSUME NEW s \in Side PROVE Uses(s) <= 1
    BY DEF BufferHasOneUser
  <1> DEFINE to == IF s = "server" THEN "client" ELSE "server"
             users == {<<s, "receive">>, <<to, "send">>}
             calls == UNION {{t} \X {i \in DOMAIN stack[t] :
                                       /\ stack[t][i].call \in {"begin", "complete"}
                                       /\ <<stack[t][i].on, stack[t][i].op>> \in users} :
                             t \in Thread}
             used == {u \in users : InUse(u[1], u[2])}
             F == Carry(s, "receive")
             G == Carry(Other(s), "send")
  <1>1. to = Other(s) /\ to \in Side /\ "receive" \in Operation /\ "send" \in Operation
    BY DEF Other, Side, Operation
  <1>2. F \in SUBSET Calls /\ G \in SUBSET Calls
    BY <1>1, KindsOfCalls
  <1>3. /\ IsFiniteSet(Places(stack, F)) /\ IsFiniteSet(Places(stack, G))
        /\ DOMAIN stack = Thread /\ stack \in [Thread -> Seq(Calls)]
    BY <1>2, CountSubset DEF TypedAndFinite, Finite, Typed
  <1>4. ASSUME NEW p \in calls PROVE p \in Places(stack, F \cup G)
    <2>0. PICK t \in Thread :
            p \in {t} \X {i \in DOMAIN stack[t] :
                             /\ stack[t][i].call \in {"begin", "complete"}
                             /\ <<stack[t][i].on, stack[t][i].op>> \in users}
      OBVIOUS
    <2>1. PICK i \in DOMAIN stack[t] :
            /\ p = <<t, i>>
            /\ stack[t][i].call \in {"begin", "complete"}
            /\ <<stack[t][i].on, stack[t][i].op>> \in users
      BY <2>0
    <2>2. stack[t] \in Seq(Calls)
      BY <1>3
    <2>3. stack[t][i] \in Calls
      BY <2>2, ElementOfSeq, LenProperties
    <2>4. stack[t][i] \in F \cup G
      BY <1>1, <2>1, <2>3, KindFields
    <2> QED
      BY <1>3, <2>1, <2>4 DEF Places, Spots
  <1>5. Cardinality(calls) <= Count(stack, F) + Count(stack, G) /\ Cardinality(calls) \in Nat
    <2> HIDE DEF calls, F, G
    <2>1. /\ IsFiniteSet(Places(stack, F \cup G))
          /\ Count(stack, F \cup G) <= Count(stack, F) + Count(stack, G)
      BY <1>3, CountUnion
    <2>2. calls \in SUBSET Places(stack, F \cup G)
      BY <1>4
    <2>3. IsFiniteSet(calls) /\ Cardinality(calls) <= Count(stack, F \cup G)
      BY <2>1, <2>2, FS_Subset DEF Count
    <2>4. Cardinality(calls) \in Nat /\ Count(stack, F \cup G) \in Nat
          /\ Count(stack, F) \in Nat /\ Count(stack, G) \in Nat
      BY <1>3, <2>1, <2>3, FS_CardinalityType, CountType
    <2> QED
      BY <2>1, <2>3, <2>4
  <1>6. /\ Cardinality(used) \in Nat
        /\ Cardinality(used) <= Bit(inflight[s]["receive"] # "none")
                                + Bit(inflight[Other(s)]["send"] # "none")
    <2>1. <<s, "receive">> \in used <=> inflight[s]["receive"] # "none"
      BY DEF InUse
    <2>2. <<to, "send">> \in used <=> inflight[Other(s)]["send"] # "none"
      BY <1>1 DEF InUse
    <2>3. used \subseteq users
      OBVIOUS
    <2>4. Cardinality(used) = Bit(<<s, "receive">> \in used) + Bit(<<to, "send">> \in used)
      <3>1. <<s, "receive">> # <<to, "send">>
        OBVIOUS
      <3> HIDE DEF used
      <3> QED
        BY <2>3, <3>1, PairCount
    <2> HIDE DEF used
    <2> QED
      BY <2>1, <2>2, <2>4 DEF Bit
  <1>7. Uses(s) = Cardinality(calls) + Cardinality(used)
    BY DEF Uses
  <1>8. Chain(stack, inflight, s) <= 1
    BY DEF BuffersUsed
  <1>9. Count(stack, F) \in Nat /\ Count(stack, G) \in Nat
    BY <1>3, CountType
  <1>10. Chain(stack, inflight, s)
           = Count(stack, F) + Bit(inflight[s]["receive"] # "none")
             + (Count(stack, G) + Bit(inflight[Other(s)]["send"] # "none"))
    BY DEF Chain, Load
  <1>11. \A c : Bit(c) \in Nat
    BY DEF Bit
  <1> HIDE DEF calls, used, F, G
  <1> QED
    BY <1>5, <1>6, <1>7, <1>8, <1>9, <1>10, <1>11

\* server::receive(), client::send() and their callbacks in proxy.cpp: the
\* buffer a side receives into is not received into again before the other
\* side has sent what it holds.
THEOREM BuffersHaveOneUser ==
  ASSUME Punctual
  PROVE  Spec => []BufferHasOneUser
  <1>1. Init => BuffersUsed
    BY BuffersInit
  <1>2. Sound /\ BuffersUsed /\ [Next]_vars => BuffersUsed'
    BY BuffersStep
  <1>3. Sound /\ BuffersUsed => BufferHasOneUser
    BY OneUserFollows DEF Sound
  <1> QED
    BY <1>1, <1>2, <1>3, SessionsSound, PTL DEF Spec

-----------------------------------------------------------------------------
(* The handles.                                                            *)

\* What keeps the handle of a side: nothing of it may be lost in a step.
HoldsOn(s) ==
  /\ open[s] => open'[s]
  /\ Count(stack', Begins(s, "disconnect")) \in Nat
  /\ Count(stack', Begins(s, "disconnect")) >= Count(stack, Begins(s, "disconnect"))
  /\ Count(stack, Begins(s, "disconnect")) \in Nat
  /\ \A op \in Establishing :
       /\ Count(stack', Ends(s, op, "done")) \in Nat /\ Count(stack, Ends(s, op, "done")) \in Nat
       /\ Count(stack', Ends(s, op, "done")) >= Count(stack, Ends(s, op, "done"))
  /\ \A op \in Operation : inflight[s][op] # "none" => inflight'[s][op] # "none"

LEMMA StillHeld ==
  ASSUME NEW s \in Side, HoldsOn(s), Held(s)
  PROVE  Held(s)'
  <1>1. "disconnect" \in Operation /\ Establishing \subseteq Operation
    BY DEF Establishing, Operation
  <1> QED
    BY <1>1 DEF HoldsOn, Held

LEMMA HoldsOnBy ==
  ASSUME NEW c1, NEW e1, NEW c2, NEW d2, NEW e2, Transfers(c1, {}, e1, c2, d2, e2),
         NEW s \in Side, \A op \in Establishing : <<s, op, "done">> \notin e1,
         open[s] => open'[s],
         \A op \in Operation : inflight[s][op] # "none" => inflight'[s][op] # "none"
  PROVE  HoldsOn(s)
  <1>1. /\ Count(stack', Begins(s, "disconnect")) + Bit(s \in {})
             = Count(stack, Begins(s, "disconnect")) + Bit(s \in d2)
        /\ Count(stack', Begins(s, "disconnect")) \in Nat
        /\ Count(stack, Begins(s, "disconnect")) \in Nat
    BY DEF Transfers
  <1>2. ASSUME NEW op \in Establishing
        PROVE  /\ Count(stack', Ends(s, op, "done")) \in Nat
               /\ Count(stack, Ends(s, op, "done")) \in Nat
               /\ Count(stack', Ends(s, op, "done")) >= Count(stack, Ends(s, op, "done"))
    <2>1. op \in Operation /\ "done" \in Outcome
      BY DEF Establishing, Operation, Outcome
    <2>2. /\ Count(stack', Ends(s, op, "done")) + Bit(<<s, op, "done">> \in e1)
               = Count(stack, Ends(s, op, "done")) + Bit(<<s, op, "done">> \in e2)
          /\ Count(stack', Ends(s, op, "done")) \in Nat
          /\ Count(stack, Ends(s, op, "done")) \in Nat
      BY <2>1 DEF Transfers
    <2>3. Bit(<<s, op, "done">> \in e1) = 0
      BY DEF Bit
    <2>4. Bit(<<s, op, "done">> \in e2) \in Nat
      BY DEF Bit
    <2> QED
      BY <2>2, <2>3, <2>4
  <1>3. Bit(s \in {}) = 0 /\ Bit(s \in d2) \in Nat
    BY DEF Bit
  <1>4. Count(stack', Begins(s, "disconnect")) >= Count(stack, Begins(s, "disconnect"))
    BY <1>1, <1>3
  <1> QED
    BY <1>1, <1>2, <1>4 DEF HoldsOn

\* A step that starts an operation, or tells how one ended, is the only one
\* that may let go of the handle.
LEMMA CallbackHolds ==
  ASSUME TypedAndFinite, NEW t \in Thread, Callback(t), NEW s \in Side
  PROVE  open'[s] \/ HoldsOn(s)
  <1> USE DEF TypedAndFinite
  <1>1. \A op \in Operation : inflight[s][op] # "none" => inflight'[s][op] # "none"
    BY OnlyIoFlies DEF FlightsKept
  <1>2. open[s] => open'[s]
    BY DEF Callback, Accepted, AcceptFailed, Connected, ConnectFailed,
           ServerReceived, ClientReceived, PeerClosed, ServerSent, ClientSent, ServerSentPart,
           ClientSentPart, TransferFailed, TransferAborted, Disconnected, ownVars, Typed
  <1>3. ASSUME NEW x \in Side, NEW op \in Operation, NEW r \in Outcome, NEW c2, NEW d2, NEW e2,
               NEW c1, Transfers(c1, {}, {<<x, op, r>>}, c2, d2, e2),
               x # s \/ op \notin Establishing \/ r # "done"
        PROVE  HoldsOn(s)
    <2>1. \A o \in Establishing : <<s, o, "done">> \notin {<<x, op, r>>}
      BY <1>3
    <2> QED
      BY <1>1, <1>2, <1>3, <2>1, HoldsOnBy
  <1> USE DEF Operation, Outcome, Establishing
  <1>4. CASE Accepted(t)
    <2>1. Transfers({<<"server", "accept">>}, {}, {<<"server", "accept", "done">>},
                    {<<"client", "connect">>}, {}, {})
      BY <1>4, AcceptedEffect
    <2>2. s = "server" => open'[s]
      BY <1>4 DEF Accepted, Typed
    <2> QED
      BY <1>3, <2>1, <2>2 DEF Side
  <1>5. CASE Connected(t)
    <2>1. Transfers({<<"client", "connect">>}, {}, {<<"client", "connect", "done">>},
                      {<<"server", "receive">>, <<"client", "receive">>}, {}, {})
      BY <1>5, ConnectedEffect
    <2>2. s = "client" => open'[s]
      BY <1>5 DEF Connected, Typed
    <2> QED
      BY <1>3, <2>1, <2>2 DEF Side
  <1>6. CASE AcceptFailed(t) \/ ConnectFailed(t)
    <2>1. \/ Transfers({<<"server", "accept">>}, {}, {<<"server", "accept", "error">>},
                       {<<"server", "accept">>}, {}, {})
          \/ Transfers({<<"client", "connect">>}, {}, {<<"client", "connect", "error">>}, {}, {}, {})
      BY <1>6, AcceptFailedEffect, ConnectFailedEffect
    <2> QED
      BY <1>3, <2>1 DEF Side
  <1>7. CASE ServerReceived(t) \/ ClientReceived(t)
    <2>1. PICK x \in Side : Transfers({<<x, "receive">>}, {}, {<<x, "receive", "done">>},
                                      {<<Other(x), "send">>}, {}, {})
      BY <1>7, ReceivedEffect
    <2> QED
      BY <1>3, <2>1
  <1>8. CASE ServerSent(t) \/ ClientSent(t)
    <2>1. PICK x \in Side : Transfers({<<Other(x), "send">>}, {}, {<<Other(x), "send", "done">>},
                                      {<<x, "receive">>}, {}, {})
      BY <1>8, SentEffect
    <2>2. Other(x) \in Side
      BY DEF Other, Side
    <2> QED
      BY <1>3, <2>1, <2>2
  <1>9. CASE ServerSentPart(t) \/ ClientSentPart(t)
    <2>1. PICK x \in Side : Transfers({<<x, "send">>}, {}, {<<x, "send", "done">>},
                                      {<<x, "send">>}, {}, {})
      BY <1>9, SentPartEffect
    <2> QED
      BY <1>3, <2>1
  <1>10. CASE PeerClosed(t) \/ TransferFailed(t) \/ TransferAborted(t)
    <2>1. PICK x \in Side, op \in {"receive", "send"}, r \in Outcome :
            Transfers({<<x, op>>}, {}, {<<x, op, r>>}, {}, {}, {})
      BY <1>10, GivesUpEffect, AbortedEffect
    <2>2. op \in Operation /\ op \notin Establishing
      OBVIOUS
    <2> QED
      BY <1>3, <2>1, <2>2
  <1>11. CASE Disconnected(t)
    <2> DEFINE next == IF nconnections' = 0 THEN {<<"server", "accept">>} ELSE {}
    <2>1. PICK x \in Side, r \in Outcome :
            Transfers({<<x, "disconnect">>}, {}, {<<x, "disconnect", r>>}, next, {}, {})
      BY <1>11, DisconnectedEffect
    <2> HIDE DEF next
    <2> QED
      BY <1>3, <2>1
  <1> QED
    BY <1>4, <1>5, <1>6, <1>7, <1>8, <1>9, <1>10, <1>11 DEF Callback

LEMMA StartHolds ==
  ASSUME TypedAndFinite, HandlesHeld, NEW t \in Thread, StartsOperation(t),
         UNCHANGED ownVars, NEW s \in Side, sock'[s] # "closed"
  PROVE  Held(s)'
  <1> USE DEF TypedAndFinite
  <1>1. /\ Running(t, "begin") /\ On(t) \in Side /\ Op(t) \in Operation
        /\ inflight \in [Side -> [Operation -> Flight]] /\ sock \in [Side -> Handle]
        /\ inflight' \in [Side -> [Operation -> Flight]]
    BY OperationTyped, BeginHead, ProxyAssumption DEF Typed, SocketTypeOK
  <1>2. open' = open
    BY DEF ownVars
  <1>3. CASE s = On(t) /\ Op(t) \in Establishing /\ sock' # sock
    <2>1. \/ AtOnce(t, "done")
          \/ Pending(t)
      BY <1>3 DEF StartsOperation, Establish, Transfer, Disconnect, Starts, Establishing
    <2>2. CASE Pending(t)
      <3>1. inflight'[s][Op(t)] # "none"
        BY <1>1, <1>3, <2>2 DEF Pending
      <3> QED
        BY <1>3, <3>1 DEF Held
    <2>3. CASE AtOnce(t, "done")
      <3>1. "done" \in Outcome
        BY DEF Outcome
      <3>2. Transfers({<<On(t), Op(t)>>}, Starting(t), {},
                      {<<On(t), Op(t)>>}, {}, {<<On(t), Op(t), "done">>})
        BY <1>1, <2>3, <3>1, AtOnceEffect
      <3>3. ASSUME NEW op \in Operation, op = Op(t)
            PROVE  Count(stack', Ends(s, op, "done")) > 0
        BY <1>1, <1>3, <3>1, <3>2, <3>3 DEF Transfers, Bit
      <3>4. PICK op \in Operation : op = Op(t)
        BY <1>1
      <3>5. Count(stack', Ends(s, op, "done")) > 0 /\ op \in Establishing
        BY <1>3, <3>3, <3>4
      <3> QED
        BY <3>5 DEF Held
    <2> QED
      BY <2>1, <2>2, <2>3
  <1>4. CASE s = On(t) /\ Op(t) = "disconnect"
    <2>1. Pending(t)
      BY <1>1, <1>4 DEF StartsOperation, Establish, Transfer, Disconnect, Starts, Shut, Establishing
    <2>2. inflight'[s]["disconnect"] # "none"
      BY <1>1, <1>4, <2>1 DEF Pending
    <2> QED
      BY <2>2 DEF Held
  <1>5. CASE sock'[s] = sock[s] /\ (s # On(t) \/ Op(t) # "disconnect")
    <2>1. Held(s)
      BY <1>5 DEF HandlesHeld
    <2>2. \A op \in Operation : inflight[s][op] # "none" => inflight'[s][op] # "none"
      <3>1. CASE inflight' = [inflight EXCEPT ![On(t)][Op(t)] = "active"]
        BY <1>1, <3>1
      <3>2. CASE FlightsKept
        BY <3>2 DEF FlightsKept
      <3> QED
        BY <3>1, <3>2, StartFlights
    <2>3. HoldsOn(s)
      <3>1. \E c1, d1, c2, e2 : Transfers(c1, d1, {}, c2, {}, e2)
                                /\ d1 = Starting(t)
        BY <1>1, OperationTyped, PendingEffect, AtOnceEffect DEF Outcome
      <3>2. PICK c1, d1, c2, e2 : Transfers(c1, d1, {}, c2, {}, e2) /\ d1 = Starting(t)
        BY <3>1
      <3>3. s \notin d1
        BY <1>5, <3>2 DEF Starting
      <3>4. Transfers(c1, {}, {}, c2, {}, e2) \/ s \notin d1
        BY <3>3
      <3>5. /\ Count(stack', Begins(s, "disconnect")) + Bit(s \in d1)
                 = Count(stack, Begins(s, "disconnect")) + Bit(s \in {})
            /\ Count(stack', Begins(s, "disconnect")) \in Nat
            /\ Count(stack, Begins(s, "disconnect")) \in Nat
        BY <3>2 DEF Transfers
      <3>6. Bit(s \in d1) = 0 /\ Bit(s \in {}) = 0
        BY <3>3 DEF Bit
      <3>7. ASSUME NEW op \in Establishing
            PROVE  /\ Count(stack', Ends(s, op, "done")) \in Nat
                   /\ Count(stack, Ends(s, op, "done")) \in Nat
                   /\ Count(stack', Ends(s, op, "done")) >= Count(stack, Ends(s, op, "done"))
        <4>1. op \in Operation /\ "done" \in Outcome
          BY DEF Establishing, Operation, Outcome
        <4>2. /\ Count(stack', Ends(s, op, "done")) + Bit(<<s, op, "done">> \in {})
                   = Count(stack, Ends(s, op, "done")) + Bit(<<s, op, "done">> \in e2)
              /\ Count(stack', Ends(s, op, "done")) \in Nat
              /\ Count(stack, Ends(s, op, "done")) \in Nat
          BY <3>2, <4>1 DEF Transfers
        <4>3. Bit(<<s, op, "done">> \in {}) = 0 /\ Bit(<<s, op, "done">> \in e2) \in Nat
          BY DEF Bit
        <4> QED
          BY <4>2, <4>3
      <3> QED
        BY <1>2, <2>2, <3>5, <3>6, <3>7 DEF HoldsOn
    <2> QED
      BY <2>1, <2>3, StillHeld
  <1>6. \/ sock'[s] = sock[s] /\ (s # On(t) \/ Op(t) # "disconnect")
        \/ s = On(t) /\ Op(t) = "disconnect"
        \/ s = On(t) /\ Op(t) \in Establishing /\ sock' # sock
    BY <1>1 DEF StartsOperation, Establish, Transfer, Disconnect, Starts, Shut
  <1> QED
    BY <1>3, <1>4, <1>5, <1>6

LEMMA CompletionHolds ==
  ASSUME TypedAndFinite, HandlesHeld, NEW t \in Pool, NEW x \in Side, NEW op \in Operation,
         NEW r \in Outcome, Completion(t, x, op, r), NEW s \in Side, sock'[s] # "closed"
  PROVE  Held(s)'
  <1> USE DEF TypedAndFinite
  <1>1. Transfers({}, {}, {}, {<<x, op>>}, {}, {<<x, op, r>>})
    BY CompletionEffect
  <1>2. open' = open /\ sock \in [Side -> Handle]
    BY ProxyAssumption DEF Completion, ownVars, Typed, SocketTypeOK
  <1>3. CASE s = x /\ op \in Establishing
    <2>1. r = "done"
      BY <1>2, <1>3 DEF Completion, Deliver, Outcomes, Establishing
    <2>2. "done" \in Outcome
      BY DEF Outcome
    <2>3. Count(stack', Ends(s, op, "done")) > 0
      BY <1>1, <1>3, <2>1, <2>2 DEF Transfers, Bit
    <2> QED
      BY <1>3, <2>3 DEF Held
  <1>4. CASE s = x /\ op = "disconnect"
    BY <1>2, <1>4 DEF Completion, Deliver
  <1>5. CASE s # x \/ (op # "disconnect" /\ op \notin Establishing)
    <2>1. sock'[s] = sock[s]
      BY <1>2, <1>5 DEF Completion, Deliver
    <2>2. \A o \in {"disconnect"} \cup Establishing :
            inflight[s][o] # "none" => inflight'[s][o] # "none"
      BY <1>5, CompletionFlights DEF Establishing, Operation
    <2>3. Held(s)
      BY <2>1 DEF HandlesHeld
    <2>4. /\ Count(stack', Begins(s, "disconnect")) + Bit(s \in {})
               = Count(stack, Begins(s, "disconnect")) + Bit(s \in {})
          /\ Count(stack', Begins(s, "disconnect")) \in Nat
          /\ Count(stack, Begins(s, "disconnect")) \in Nat
      BY <1>1 DEF Transfers
    <2>5. ASSUME NEW o \in Establishing, Count(stack, Ends(s, o, "done")) > 0
          PROVE  Count(stack', Ends(s, o, "done")) > 0
      <3>1. o \in Operation /\ "done" \in Outcome
        BY DEF Establishing, Operation, Outcome
      <3>2. /\ Count(stack', Ends(s, o, "done")) + Bit(<<s, o, "done">> \in {})
                 = Count(stack, Ends(s, o, "done")) + Bit(<<s, o, "done">> \in {<<x, op, r>>})
            /\ Count(stack', Ends(s, o, "done")) \in Nat
            /\ Count(stack, Ends(s, o, "done")) \in Nat
        BY <1>1, <3>1 DEF Transfers
      <3>3. Bit(<<s, o, "done">> \in {}) = 0 /\ Bit(<<s, o, "done">> \in {<<x, op, r>>}) \in Nat
        BY DEF Bit
      <3> QED
        BY <2>5, <3>2, <3>3
    <2>6. CASE open[s]
      BY <1>2, <2>6 DEF Held
    <2>7. CASE Count(stack, Begins(s, "disconnect")) > 0
      <3>1. Count(stack', Begins(s, "disconnect")) > 0
        BY <2>4, <2>7 DEF Bit
      <3> QED
        BY <3>1 DEF Held
    <2>8. CASE inflight[s]["disconnect"] # "none"
      BY <2>2, <2>8 DEF Held
    <2>9. CASE \E o \in Establishing : \/ inflight[s][o] # "none"
                                       \/ Count(stack, Ends(s, o, "done")) > 0
      <3>1. PICK o \in Establishing : \/ inflight[s][o] # "none"
                                      \/ Count(stack, Ends(s, o, "done")) > 0
        BY <2>9
      <3>2. inflight'[s][o] # "none" \/ Count(stack', Ends(s, o, "done")) > 0
        BY <2>2, <2>5, <3>1
      <3> QED
        BY <3>2 DEF Held
    <2> QED
      BY <2>3, <2>6, <2>7, <2>8, <2>9 DEF Held
  <1> QED
    BY <1>3, <1>4, <1>5

LEMMA HandlesHeldStep == TypedAndFinite /\ HandlesHeld /\ [Next]_vars => HandlesHeld'
  <1> SUFFICES ASSUME TypedAndFinite, HandlesHeld, [Next]_vars,
                      NEW s \in Side, sock'[s] # "closed"
               PROVE  Held(s)'
    BY DEF HandlesHeld
  <1> USE DEF TypedAndFinite
  <1>1. sock' = sock /\ HoldsOn(s) => Held(s)'
    BY StillHeld DEF HandlesHeld
  <1>2. ASSUME NEW t \in Thread, Callback(t) PROVE Held(s)'
    BY <1>1, <1>2, CallbackHolds, OnlyIoFlies DEF Held
  <1>3. ASSUME Still, sock' = sock, open' = open, FlightsKept PROVE HoldsOn(s)
    BY <1>3, HoldsOnBy DEF Still, FlightsKept
  <1>4. ASSUME NEW t \in Thread, Closing(t) PROVE Held(s)'
    <2>1. CASE Lock(t) \/ AlreadyClosed(t) \/ FoundOpen(t)
      <3>1. Still /\ open' = open
        BY <2>1, LockEffect, AlreadyClosedEffect, FoundOpenEffect
           DEF Lock, AlreadyClosed, FoundOpen, ownVars
      <3> QED
        BY <1>1, <1>3, <1>4, <3>1, OnlyIoFlies
    <2>2. CASE CloseOpen(t)
      <3>1. /\ On(t) \in Side
            /\ Transfers({}, {}, {}, {<<On(t), "disconnect">>}, {On(t)}, {})
        BY <2>2, CloseOpenEffect
      <3>2. \A op \in Operation : inflight[s][op] # "none" => inflight'[s][op] # "none"
        BY <1>4, OnlyIoFlies DEF FlightsKept
      <3>3. CASE s = On(t)
        <4>1. Count(stack', Begins(s, "disconnect")) > 0
          BY <3>1, <3>3 DEF Transfers, Bit
        <4> QED
          BY <4>1 DEF Held
      <3>4. CASE s # On(t)
        <4>1. open[s] => open'[s]
          BY <2>2, <3>4 DEF CloseOpen, Typed
        <4>2. HoldsOn(s)
          BY <3>1, <3>2, <4>1, HoldsOnBy
        <4> QED
          BY <1>1, <1>4, <4>2, OnlyIoFlies
      <3> QED
        BY <3>3, <3>4
    <2> QED
      BY <1>4, <2>1, <2>2 DEF Closing
  <1>5. ASSUME NEW t \in Thread, Operate(t) PROVE Held(s)'
    <2>1. CASE MisusedStart(t)
      <3>1. /\ stack' = stack /\ sock' = sock /\ inflight' = inflight /\ open' = open
        BY <1>5, <2>1 DEF MisusedStart, Breach, Operate, ownVars
      <3> QED
        BY <3>1 DEF HandlesHeld, Held
    <2>2. CASE StartsOperation(t)
      BY <1>5, <2>2, StartHolds DEF Operate
    <2>3. CASE Cancel(t) \/ SetIoPending(t)
      <3>1. Still /\ sock' = sock /\ open' = open
        BY <1>5, <2>3, CancelEffect, SetIoPendingEffect DEF Cancel, SetIoPending, Operate, ownVars
      <3>4. FlightsKept
        BY <2>3, CancelFlights
      <3> QED
        BY <1>1, <1>3, <3>1, <3>4
    <2> QED
      BY <1>5, <2>1, <2>2, <2>3 DEF Operate, StartsOperation
  <1>6. ASSUME NEW t \in Thread, Time(t) PROVE Held(s)'
    BY <1>1, <1>3, <1>6, TimeEffect, OnlyIoFlies DEF Time
  <1>7. ASSUME NEW t \in Pool, NEW x \in Side, NEW op \in Operation, NEW r \in Outcome,
               Completion(t, x, op, r)
        PROVE  Held(s)'
    BY <1>7, CompletionHolds
  <1>8. ASSUME NEW t \in Pool, TimerExpires(t) PROVE Held(s)'
    BY <1>1, <1>3, <1>8, TimerExpiresEffect, OnlyIoFlies DEF TimerExpires
  <1>9. CASE UNCHANGED vars
    BY <1>9 DEF HandlesHeld, Held, vars, socketVars, ownVars
  <1> QED
    BY <1>2, <1>4, <1>5, <1>6, <1>7, <1>8, <1>9 DEF Next, Execute, Undefined

LEMMA HandlesHeldInit == Init => HandlesHeld
  BY ProxyAssumption DEF Init, SocketInit, HandlesHeld

\* An operation that is one call, that to start it, is nothing else.
LEMMA StartedOnce ==
  ASSUME TypedAndFinite, NEW t \in Thread, Running(t, "begin"),
         NEW s \in Side, s = On(t), NEW op \in Operation, op = Op(t),
         Load(stack, inflight, s, op) <= 1
  PROVE  /\ Load(stack, inflight, s, op) = 1
         /\ inflight[s][op] = "none"
         /\ Count(stack, Ends(s, op, "done")) = 0
  <1>1. ~Idle(t) /\ Head(stack[t]) = Begin(s, op) /\ Begin(s, op) \in Calls
    BY BeginHead, FramesAreCalls DEF TypedAndFinite
  <1>2. /\ Head(stack[t]) \in Carry(s, op)
        /\ Ends(s, op, "done") \subseteq Carry(s, op)
    BY <1>1 DEF Carry, Ends, Outcome
  <1>3. Head(stack[t]) \notin Ends(s, op, "done")
    BY <1>1, FrameFields DEF Ends
  <1>4. /\ stack \in Stacks(Thread, Calls) /\ stack[t] # <<>>
        /\ Carry(s, op) \in SUBSET Calls
    BY <1>1, KindsOfCalls DEF TypedAndFinite, Typed, Stacks, Idle
  <1>5. IsFiniteSet(Places(stack, Carry(s, op)))
    BY <1>4, CountSubset DEF TypedAndFinite, Finite
  <1>6. Count(stack, Carry(s, op)) \in Nat /\ Count(stack, Carry(s, op)) >= 1
    BY <1>2, <1>4, <1>5, HeadCounted
  <1>7. Load(stack, inflight, s, op) = 1 /\ inflight[s][op] = "none" /\ Count(stack, Carry(s, op)) = 1
    BY <1>6 DEF Load, Bit
  <1>8. Count(stack, Ends(s, op, "done")) = 0
    <2>1. Count(stack, Carry(s, op)) <= 1
      BY <1>7
    <2> QED
      BY <1>2, <1>3, <1>4, <1>5, <2>1, OnlyOfKind
  <1> QED
    BY <1>7, <1>8

\* An operation that is not going on is none of these.
LEMMA LoadNone ==
  ASSUME TypedAndFinite, NEW s \in Side, NEW op \in Operation,
         Load(stack, inflight, s, op) = 0
  PROVE  /\ inflight[s][op] = "none"
         /\ Count(stack, Begins(s, op)) = 0
         /\ Count(stack, Ends(s, op, "done")) = 0
  <1>1. Carry(s, op) \in SUBSET Calls
    BY KindsOfCalls
  <1>2. IsFiniteSet(Places(stack, Carry(s, op)))
    BY <1>1, CountSubset DEF TypedAndFinite, Finite
  <1>3. Count(stack, Carry(s, op)) \in Nat
    BY LoadType
  <1>4. Count(stack, Carry(s, op)) = 0 /\ inflight[s][op] = "none"
    BY <1>3 DEF Load, Bit
  <1>5. ASSUME NEW G, G \subseteq Carry(s, op) PROVE Count(stack, G) = 0
    <2>1. IsFiniteSet(Places(stack, G)) /\ Count(stack, G) <= Count(stack, Carry(s, op))
      BY <1>2, <1>5, CountSubset
    <2>2. Count(stack, G) \in Nat
      BY <2>1, CountType
    <2> QED
      BY <1>4, <2>1, <2>2
  <1>6. Begins(s, op) \subseteq Carry(s, op) /\ Ends(s, op, "done") \subseteq Carry(s, op)
    BY DEF Begins, Ends, Carry, Outcome
  <1> QED
    BY <1>4, <1>5, <1>6

\* init() of an accept or a connect: the handle it creates is the only one.
LEMMA EstablishesFresh ==
  ASSUME Sound, HandlesHeld, NEW t \in Thread, Running(t, "begin"),
         NEW s \in Side, s = On(t), NEW op \in Establishing, op = Op(t)
  PROVE  sock[s] = "closed" /\ \A o \in Establishing : inflight[s][o] = "none"
  <1> USE DEF Sound, Session
  <1>1. op \in Operation /\ Establishing = {"accept", "connect"} /\ Establishing \subseteq Operation
        /\ "disconnect" \in Operation
    BY DEF Establishing, Operation
  <1>2. ~Idle(t)
    BY DEF Running
  <1>3. \A x \in Side, o \in Operation : Load(stack, inflight, x, o) \in Nat
    BY LoadType
  <1>4. op = "accept" => Load(stack, inflight, s, op) <= 1
    BY DEF AcceptCounted, Bit, Side
  <1>5. op = "connect" /\ s = "server" => Load(stack, inflight, s, op) <= 1
    BY DEF AcceptCounted
  <1>6. CASE op = "connect" /\ s = "client"
    <2>1. Count(stack, Carry(s, op)) >= 1 /\ Count(stack, Carry(s, op)) \in Nat
      <3>1. Head(stack[t]) \in Carry(s, op)
        BY <1>1, BeginHead DEF TypedAndFinite, Carry
      <3>2. stack \in Stacks(Thread, Calls) /\ stack[t] # <<>> /\ Carry(s, op) \in SUBSET Calls
        BY <1>1, <1>2, KindsOfCalls DEF TypedAndFinite, Typed, Stacks, Idle
      <3>3. IsFiniteSet(Places(stack, Carry(s, op)))
        BY <3>2, CountSubset DEF TypedAndFinite, Finite
      <3> QED
        BY <3>1, <3>2, <3>3, HeadCounted
    <2>2. Load(stack, inflight, s, op) > 0
      BY <2>1 DEF Load, Bit
    <2>3. /\ Count(stack, Calls) = 1
          /\ \A x \in Side, o \in Operation : inflight[x][o] = "none"
      BY <1>2, <1>6, <2>2, ConnectHead
    <2>4. ~open[s] /\ Load(stack, inflight, s, "disconnect") = 0
      <3>1. open["server"] /\ nconnections = 1
        BY <1>6, <2>2 DEF ConnectsAlone
      <3>2. /\ Share(stack, inflight, open, "server") <= 1
            /\ nconnections = Share(stack, inflight, open, "server") + Share(stack, inflight, open, "client")
        BY DEF SharesCounted, Side
      <3>3. /\ Load(stack, inflight, "server", "disconnect") \in Nat
            /\ Load(stack, inflight, "client", "disconnect") \in Nat
        BY <1>1, <1>3 DEF Side
      <3> QED
        BY <1>6, <3>1, <3>2, <3>3 DEF Share, Bit
    <2>5. ASSUME NEW o \in Establishing PROVE Count(stack, Ends(s, o, "done")) = 0
      <3>1. Head(stack[t]) \notin Ends(s, o, "done")
        <4>1. Head(stack[t]).call = "begin" /\ Complete(s, o, "done").call = "complete"
          BY FrameFields DEF Running
        <4> QED
          BY <4>1 DEF Ends
      <3>2. Ends(s, o, "done") \in SUBSET Calls
        BY <1>1, KindsOfCalls DEF Outcome
      <3>3. Count(stack, Calls) <= 1
        BY <2>3
      <3> QED
        BY <1>2, <3>1, <3>2, <3>3, AloneHead
    <2>6. Count(stack, Begins(s, "disconnect")) = 0
      BY <1>1, <2>4, LoadNone
    <2>7. ~Held(s)
      BY <1>1, <2>3, <2>4, <2>5, <2>6 DEF Held
    <2> QED
      BY <1>1, <2>3, <2>7 DEF HandlesHeld
  <1>7. CASE op # "connect" \/ s # "client"
    <2>1. /\ Load(stack, inflight, s, op) = 1
          /\ inflight[s][op] = "none"
          /\ Count(stack, Ends(s, op, "done")) = 0
      BY <1>1, <1>4, <1>5, <1>7, StartedOnce DEF Side
    <2>2. op = "accept" /\ s = "server"
      <3>1. ~(s = "server" /\ op = "connect")
        <4>1. SUFFICES ASSUME s = "server", op = "connect" PROVE FALSE
          OBVIOUS
        <4> QED
          BY <2>1, <4>1 DEF AcceptCounted
      <3>2. ~(s = "client" /\ op = "accept")
        <4>1. SUFFICES ASSUME s = "client", op = "accept" PROVE FALSE
          OBVIOUS
        <4> QED
          BY <2>1, <4>1 DEF AcceptCounted
      <3> QED
        BY <1>1, <1>7, <3>1, <3>2 DEF Side
    <2>3. nconnections = 0
      BY <2>1, <2>2 DEF AcceptCounted, Bit
    <2>4. ~open[s] /\ Load(stack, inflight, s, "disconnect") = 0
      <3>1. nconnections = Share(stack, inflight, open, "server") + Share(stack, inflight, open, "client")
        BY DEF SharesCounted
      <3>2. /\ Load(stack, inflight, "server", "disconnect") \in Nat
            /\ Load(stack, inflight, "client", "disconnect") \in Nat
        BY <1>1, <1>3 DEF Side
      <3>3. \A x \in Side : Bit(open[x]) \in Nat /\ (Bit(open[x]) = 0 => ~open[x])
        BY DEF Bit
      <3>4. Bit(open["server"]) = 0 /\ Load(stack, inflight, "server", "disconnect") = 0
        <4>1. /\ Bit(open["server"]) \in Nat /\ Bit(open["client"]) \in Nat
              /\ 0 = (Bit(open["server"]) + Load(stack, inflight, "server", "disconnect"))
                       + (Bit(open["client"]) + Load(stack, inflight, "client", "disconnect"))
          BY <2>3, <3>1, <3>3 DEF Share, Side
        <4> QED
          BY <3>2, <4>1
      <3> QED
        BY <2>2, <3>3, <3>4
    <2>5. Load(stack, inflight, s, "connect") = 0
      BY <2>2 DEF AcceptCounted
    <2>6. /\ inflight[s]["disconnect"] = "none" /\ Count(stack, Begins(s, "disconnect")) = 0
          /\ inflight[s]["connect"] = "none" /\ Count(stack, Ends(s, "connect", "done")) = 0
      BY <1>1, <2>4, <2>5, LoadNone
    <2>7. ~Held(s)
      BY <1>1, <2>1, <2>2, <2>4, <2>6 DEF Held
    <2> QED
      BY <1>1, <2>1, <2>2, <2>6, <2>7 DEF HandlesHeld
  <1> QED
    BY <1>6, <1>7

\* receive(), send() and disconnect(): the OVERLAPPED is free.
LEMMA OthersStartOnce ==
  ASSUME Sound, BuffersUsed, NEW t \in Thread, Running(t, "begin"),
         NEW s \in Side, s = On(t), NEW op \in Operation \ Establishing, op = Op(t)
  PROVE  inflight[s][op] = "none"
  <1> USE DEF Sound, Session
  <1>1. \A x \in Side, o \in Operation : Load(stack, inflight, x, o) \in Nat
    BY LoadType
  <1>2. Other(s) \in Side /\ Other(Other(s)) = s
    BY DEF Other, Side
  <1>3. /\ Load(stack, inflight, s, "receive") + Load(stack, inflight, Other(s), "send") <= 1
        /\ Load(stack, inflight, Other(s), "receive") + Load(stack, inflight, s, "send") <= 1
    BY <1>2 DEF BuffersUsed, Chain
  <1>4. Bit(open[s]) + Load(stack, inflight, s, "disconnect") <= 1
    BY DEF SharesCounted, Share
  <1>5. op = "receive" \/ op = "send" \/ op = "disconnect"
    BY DEF Operation, Establishing
  <1>6. Load(stack, inflight, s, op) <= 1
    BY <1>1, <1>2, <1>3, <1>4, <1>5 DEF Bit, Operation
  <1> QED
    BY <1>6, StartedOnce

LEMMA NoReuseStep ==
  Sound /\ BuffersUsed /\ HandlesHeld /\ NoReuse /\ [Next]_vars => NoReuse'
  <1> SUFFICES ASSUME Sound, BuffersUsed, HandlesHeld, NoReuse, [Next]_vars PROVE NoReuse'
    OBVIOUS
  <1>1. ASSUME NEW t \in Thread, MisusedStart(t) PROVE NoReuse'
    <2>1. /\ Running(t, "begin") /\ fault' = Misuse(On(t), Op(t))
          /\ On(t) \in Side /\ Op(t) \in Operation
      BY <1>1, BeginHead DEF MisusedStart, Breach, Sound, TypedAndFinite
    <2>2. PICK s \in Side : s = On(t)
      BY <2>1
    <2>3. PICK op \in Operation : op = Op(t)
      BY <2>1
    <2>4. CASE op \in Establishing
      <3>1. sock[s] = "closed" /\ \A o \in Establishing : inflight[s][o] = "none"
        BY <2>1, <2>2, <2>3, <2>4, EstablishesFresh
      <3>2. Misuse(s, op) = "none"
        BY <2>4, <3>1 DEF Misuse, InUse
      <3> QED
        BY <2>1, <2>2, <2>3, <3>2 DEF NoReuse
    <2>5. CASE op \notin Establishing
      <3>1. inflight[s][op] = "none"
        BY <2>1, <2>2, <2>3, <2>5, OthersStartOnce
      <3>2. Misuse(s, op) \in {"null_io", "none"}
        BY <2>5, <3>1 DEF Misuse, InUse
      <3> QED
        BY <2>1, <2>2, <2>3, <3>2 DEF NoReuse
    <2> QED
      BY <2>4, <2>5
  <1>2. ASSUME NEW t \in Thread, Execute(t), ~MisusedStart(t) PROVE fault' = fault
    <2>1. StartsOperation(t) => fault' = fault
      BY <1>2, OperationTyped DEF Sound
    <2> QED
      BY <1>2, <2>1, OnlyIoFlies DEF Execute, Operate, StartsOperation, Cancel, SetIoPending
  <1>3. ASSUME NEW t \in Pool, NEW s \in Side, NEW op \in Operation, NEW r \in Outcome,
               Completion(t, s, op, r)
        PROVE  fault' \in {"null_io", fault}
    BY <1>3 DEF Completion, Deliver
  <1>4. ASSUME NEW t \in Pool, TimerExpires(t) PROVE fault' = fault
    BY <1>4, OnlyIoFlies
  <1>5. UNCHANGED vars => fault' = fault
    BY DEF vars, socketVars
  <1>6. fault' \in {"null_io", fault} => NoReuse'
    BY DEF NoReuse
  <1> QED
    BY <1>1, <1>2, <1>3, <1>4, <1>5, <1>6 DEF Next, Undefined

\* socket::init() in socket.cpp, for the accept socket and the connection of
\* the client: the handle and the I/O completion object of the last session
\* have been released, and StartThreadpoolIo() is never called for an
\* OVERLAPPED Windows still has.
THEOREM NothingIsReused ==
  ASSUME Punctual
  PROVE  Spec => []NoReuse
  <1>1. Init => BuffersUsed /\ HandlesHeld
    BY BuffersInit, HandlesHeldInit
  <1>2. Init => NoReuse
    BY DEF Init, SocketInit, NoReuse
  <1>3. Sound /\ BuffersUsed /\ [Next]_vars => BuffersUsed'
    BY BuffersStep
  <1>4. Sound /\ HandlesHeld /\ [Next]_vars => HandlesHeld'
    BY HandlesHeldStep DEF Sound
  <1>5. Sound /\ BuffersUsed /\ HandlesHeld /\ NoReuse /\ [Next]_vars => NoReuse'
    BY NoReuseStep
  <1> QED
    BY <1>1, <1>2, <1>3, <1>4, <1>5, SessionsSound, PTL DEF Spec

-----------------------------------------------------------------------------
(* What is cancelled, and who closes.                                      *)

\* The operation a callback of the connection ends, and what it starts.
LEMMA CallbackMoves ==
  ASSUME TypedAndFinite, NEW t \in Thread, Callback(t)
  PROVE  \E x \in Side, op \in Operation, r \in Outcome : \E c2 :
           /\ Transfers({<<x, op>>}, {}, {<<x, op, r>>}, c2, {}, {})
           /\ Connected(t) \/ ConnectFailed(t) \/ <<x, op>> # <<"client", "connect">>
           /\ Accepted(t) \/ <<"client", "connect">> \notin c2
  <1> USE DEF TypedAndFinite, Operation, Outcome
  <1> DEFINE Ended(x, op, r, c2) ==
               /\ Transfers({<<x, op>>}, {}, {<<x, op, r>>}, c2, {}, {})
               /\ Connected(t) \/ ConnectFailed(t) \/ <<x, op>> # <<"client", "connect">>
               /\ Accepted(t) \/ <<"client", "connect">> \notin c2
  <1>1. SUFFICES \E x \in Side, op \in Operation, r \in Outcome : \E c2 : Ended(x, op, r, c2)
    OBVIOUS
  <1>2. CASE Accepted(t)
    <2>1. Ended("server", "accept", "done", {<<"client", "connect">>})
      BY <1>2, AcceptedEffect
    <2> QED
      BY <2>1 DEF Side
  <1>3. CASE AcceptFailed(t)
    <2>1. Ended("server", "accept", "error", {<<"server", "accept">>})
      BY <1>3, AcceptFailedEffect
    <2> QED
      BY <2>1 DEF Side
  <1>4. CASE Connected(t)
    <2>1. Ended("client", "connect", "done", {<<"server", "receive">>, <<"client", "receive">>})
      BY <1>4, ConnectedEffect
    <2> QED
      BY <2>1 DEF Side
  <1>5. CASE ConnectFailed(t)
    <2>1. Ended("client", "connect", "error", {})
      BY <1>5, ConnectFailedEffect
    <2> QED
      BY <2>1 DEF Side
  <1>6. CASE ServerReceived(t) \/ ClientReceived(t)
    <2>1. PICK x \in Side : Transfers({<<x, "receive">>}, {}, {<<x, "receive", "done">>},
                                      {<<Other(x), "send">>}, {}, {})
      BY <1>6, ReceivedEffect
    <2>2. Ended(x, "receive", "done", {<<Other(x), "send">>})
      BY <2>1
    <2> QED
      BY <2>2
  <1>7. CASE ServerSent(t) \/ ClientSent(t)
    <2>1. PICK x \in Side : Transfers({<<Other(x), "send">>}, {}, {<<Other(x), "send", "done">>},
                                      {<<x, "receive">>}, {}, {})
      BY <1>7, SentEffect
    <2>2. Ended(Other(x), "send", "done", {<<x, "receive">>}) /\ Other(x) \in Side
      BY <2>1 DEF Other, Side
    <2> QED
      BY <2>2
  <1>8. CASE ServerSentPart(t) \/ ClientSentPart(t)
    <2>1. PICK x \in Side : Transfers({<<x, "send">>}, {}, {<<x, "send", "done">>},
                                      {<<x, "send">>}, {}, {})
      BY <1>8, SentPartEffect
    <2>2. Ended(x, "send", "done", {<<x, "send">>})
      BY <2>1
    <2> QED
      BY <2>2
  <1>9. CASE PeerClosed(t) \/ TransferFailed(t) \/ TransferAborted(t)
    <2>1. PICK x \in Side, op \in {"receive", "send"}, r \in Outcome :
            Transfers({<<x, op>>}, {}, {<<x, op, r>>}, {}, {}, {})
      BY <1>9, GivesUpEffect, AbortedEffect
    <2>2. PICK o \in Operation : o = op
      OBVIOUS
    <2>3. Ended(x, o, r, {})
      BY <2>1, <2>2
    <2> HIDE DEF Ended
    <2> QED
      BY <2>3
  <1>10. CASE Disconnected(t)
    <2> DEFINE next == IF nconnections' = 0 THEN {<<"server", "accept">>} ELSE {}
    <2>1. PICK x \in Side, r \in Outcome :
            Transfers({<<x, "disconnect">>}, {}, {<<x, "disconnect", r>>}, next, {}, {})
      BY <1>10, DisconnectedEffect
    <2>2. Ended(x, "disconnect", r, next)
      BY <2>1
    <2> HIDE DEF next, Ended
    <2>3. \E c2 : Ended(x, "disconnect", r, c2)
      BY <2>2
    <2> QED
      BY <2>3
  <1> QED
    BY <1>2, <1>3, <1>4, <1>5, <1>6, <1>7, <1>8, <1>9, <1>10 DEF Callback

\* Which sides a callback closes.
LEMMA CallbackCloses ==
  ASSUME TypedAndFinite, NEW t \in Thread, Callback(t)
  PROVE  \/ Aside /\ ~ConnectFailed(t) /\ ~PeerClosed(t) /\ ~TransferFailed(t)
         \/ ConnectFailed(t) /\ Closings({}, {}, {}, {"server"}, {}, {}, {})
         \/ (PeerClosed(t) \/ TransferFailed(t)) /\ Closings({}, {}, {}, Side, {}, {}, {})
  <1> USE DEF TypedAndFinite
  <1>1. CASE ConnectFailed(t)
    BY <1>1, ConnectFailedEffect
  <1>2. CASE PeerClosed(t) \/ TransferFailed(t)
    BY <1>2, GivesUpEffect
  <1>3. CASE ~ConnectFailed(t) /\ ~PeerClosed(t) /\ ~TransferFailed(t)
    BY <1>3, AcceptedEffect, AcceptFailedEffect, ConnectedEffect, ReceivedEffect,
       SentEffect, SentPartEffect, AbortedEffect, DisconnectedEffect DEF Callback
  <1> QED
    BY <1>1, <1>2, <1>3

\* Nothing of side s is cancelled, or about to be.
Untroubled(s) ==
  /\ Count(stack, Cancels(s)) = 0
  /\ \A op \in {"receive", "send"} :
       inflight[s][op] # "doomed" /\ Count(stack, Ends(s, op, "aborted")) = 0

\* A step that cancels nothing of side s.
CancelsFall(s) ==
  /\ Count(stack', Cancels(s)) \in Nat /\ Count(stack, Cancels(s)) \in Nat
  /\ Count(stack', Cancels(s)) <= Count(stack, Cancels(s))

LeavesAlone(s) ==
  /\ CancelsFall(s)
  /\ \A op \in {"receive", "send"} :
       /\ inflight'[s][op] = "doomed" => inflight[s][op] = "doomed"
       /\ Count(stack', Ends(s, op, "aborted")) \in Nat /\ Count(stack, Ends(s, op, "aborted")) \in Nat
       /\ Count(stack', Ends(s, op, "aborted")) <= Count(stack, Ends(s, op, "aborted"))

LEMMA StaysUntroubled ==
  ASSUME NEW s \in Side, LeavesAlone(s), Untroubled(s)
  PROVE  Untroubled(s)'
  BY DEF LeavesAlone, CancelsFall, Untroubled

\* The calls that close a side make it fall, but for those of close() itself.
LEMMA CancelsFallBy ==
  ASSUME NEW o1, NEW l1, NEW k1, NEW o2, NEW l2, NEW k2, NEW n2,
         Closings(o1, l1, k1, o2, l2, k2, n2), NEW s \in Side, s \notin n2
  PROVE  CancelsFall(s)
  BY DEF Closings, CancelsFall

LEMMA AsideFalls ==
  ASSUME Aside, NEW s \in Side
  PROVE  CancelsFall(s)
  <1>1. s \notin {}
    OBVIOUS
  <1> QED
    BY <1>1, CancelsFallBy DEF Aside

LEMMA LeavesAloneBy ==
  ASSUME NEW c1, NEW d1, NEW e1, NEW c2, NEW d2, NEW e2, Transfers(c1, d1, e1, c2, d2, e2),
         NEW s \in Side, CancelsFall(s),
         \A op \in {"receive", "send"} : <<s, op, "aborted">> \notin e2,
         \A op \in {"receive", "send"} : inflight'[s][op] = "doomed" => inflight[s][op] = "doomed"
  PROVE  LeavesAlone(s)
  <1>2. ASSUME NEW op \in {"receive", "send"}
        PROVE  /\ Count(stack', Ends(s, op, "aborted")) \in Nat
               /\ Count(stack, Ends(s, op, "aborted")) \in Nat
               /\ Count(stack', Ends(s, op, "aborted")) <= Count(stack, Ends(s, op, "aborted"))
    <2>1. op \in Operation /\ "aborted" \in Outcome
      BY DEF Operation, Outcome
    <2>2. /\ Count(stack', Ends(s, op, "aborted")) + Bit(<<s, op, "aborted">> \in e1)
               = Count(stack, Ends(s, op, "aborted")) + Bit(<<s, op, "aborted">> \in e2)
          /\ Count(stack', Ends(s, op, "aborted")) \in Nat
          /\ Count(stack, Ends(s, op, "aborted")) \in Nat
      BY <2>1 DEF Transfers
    <2>3. Bit(<<s, op, "aborted">> \in e2) = 0 /\ Bit(<<s, op, "aborted">> \in e1) \in Nat
      BY DEF Bit
    <2> QED
      BY <2>2, <2>3
  <1> QED
    BY <1>2 DEF LeavesAlone

LEMMA LeavesFlightsAlone ==
  ASSUME NEW c1, NEW d1, NEW e1, NEW c2, NEW d2, Transfers(c1, d1, e1, c2, d2, {}),
         NEW s \in Side, CancelsFall(s), inflight'[s] = inflight[s]
  PROVE  LeavesAlone(s)
  <1>1. PICK e2 : e2 = {}
    OBVIOUS
  <1>2. Transfers(c1, d1, e1, c2, d2, e2)
    BY <1>1
  <1>3. \A op \in {"receive", "send"} : <<s, op, "aborted">> \notin e2
    BY <1>1
  <1>4. \A op \in {"receive", "send"} : inflight'[s][op] = "doomed" => inflight[s][op] = "doomed"
    OBVIOUS
  <1> QED
    BY <1>2, <1>3, <1>4, LeavesAloneBy

\* A side that is closed when one of its handle's users is about to shut it.
LEMMA ShutClosed ==
  ASSUME Sound, NEW s \in Side, NEW op \in Operation, Load(stack, inflight, s, op) > 0,
         op = "disconnect" \/ op \in Establishing
  PROVE  ~open[s] \/ (s = "server" /\ op = "connect")
  <1> USE DEF Sound, Session
  <1>1. /\ Load(stack, inflight, "server", "disconnect") \in Nat
        /\ Load(stack, inflight, "client", "disconnect") \in Nat
    BY LoadType DEF Side, Operation
  <1>2. \A x \in Side : Bit(open[x]) \in Nat /\ (Bit(open[x]) = 0 => ~open[x])
    BY DEF Bit
  <1>3. \A x \in Side : Bit(open[x]) + Load(stack, inflight, x, "disconnect") <= 1
    BY DEF SharesCounted, Share
  <1>4. nconnections = (Bit(open["server"]) + Load(stack, inflight, "server", "disconnect"))
                       + (Bit(open["client"]) + Load(stack, inflight, "client", "disconnect"))
    BY DEF SharesCounted, Share
  <1>5. CASE op = "disconnect"
    <2>1. Load(stack, inflight, s, "disconnect") > 0 /\ Load(stack, inflight, s, "disconnect") \in Nat
      BY <1>5, LoadType DEF Operation
    <2>2. Bit(open[s]) = 0
      BY <1>2, <1>3, <2>1
    <2> QED
      BY <1>2, <2>2
  <1>6. CASE op = "accept"
    <2>1. s = "server"
      <3>1. s = "client" => FALSE
        BY <1>6 DEF AcceptCounted
      <3> QED
        BY <3>1 DEF Side
    <2>2. nconnections = 0
      BY <1>6, <2>1 DEF AcceptCounted, Bit
    <2>3. Bit(open["server"]) = 0
      <3>1. Bit(open["server"]) \in Nat /\ Bit(open["client"]) \in Nat
        BY <1>2 DEF Side
      <3> QED
        BY <1>1, <1>4, <2>2, <3>1
    <2> QED
      BY <1>2, <2>1, <2>3
  <1>7. CASE op = "connect" /\ s = "client"
    <2>1. open["server"] /\ nconnections = 1
      BY <1>7 DEF ConnectsAlone
    <2>2. Bit(open["client"]) = 0
      <3>1. Bit(open["server"]) = 1 /\ Bit(open["client"]) \in Nat
        BY <1>2, <2>1 DEF Bit, Side
      <3>2. nconnections = 1
        BY <2>1
      <3> QED
        BY <1>1, <1>4, <3>1, <3>2
    <2> QED
      BY <1>2, <1>7, <2>2
  <1> QED
    BY <1>5, <1>6, <1>7 DEF Establishing, Side

\* The operation that a begin starts, or Windows completes, goes on.
LEMMA GoesOnNow ==
  ASSUME TypedAndFinite
  PROVE  /\ \A t \in Thread : Running(t, "begin") =>
              /\ On(t) \in Side /\ Op(t) \in Operation
              /\ Load(stack, inflight, On(t), Op(t)) > 0
         /\ \A s \in Side, op \in Operation :
              inflight[s][op] # "none" => Load(stack, inflight, s, op) > 0
  <1>1. ASSUME NEW t \in Thread, Running(t, "begin")
        PROVE  /\ On(t) \in Side /\ Op(t) \in Operation
               /\ Load(stack, inflight, On(t), Op(t)) > 0
    <2>1. /\ On(t) \in Side /\ Op(t) \in Operation /\ ~Idle(t)
          /\ Head(stack[t]) = Begin(On(t), Op(t))
      BY <1>1, BeginHead DEF TypedAndFinite
    <2>2. PICK s \in Side : s = On(t)
      BY <2>1
    <2>3. PICK op \in Operation : op = Op(t)
      BY <2>1
    <2>4. stack \in Stacks(Thread, Calls) /\ stack[t] # <<>> /\ Carry(s, op) \in SUBSET Calls
      BY <2>1, KindsOfCalls DEF TypedAndFinite, Typed, Stacks, Idle
    <2>5. IsFiniteSet(Places(stack, Carry(s, op)))
      BY <2>4, CountSubset DEF TypedAndFinite, Finite
    <2>6. Head(stack[t]) \in Carry(s, op)
      BY <2>1, <2>2, <2>3 DEF Carry
    <2>7. Count(stack, Carry(s, op)) \in Nat /\ Count(stack, Carry(s, op)) >= 1
      BY <2>4, <2>5, <2>6, HeadCounted
    <2>8. Load(stack, inflight, s, op) > 0
      BY <2>7 DEF Load, Bit
    <2> QED
      BY <2>1, <2>2, <2>3, <2>8
  <1>2. ASSUME NEW s \in Side, NEW op \in Operation, inflight[s][op] # "none"
        PROVE  Load(stack, inflight, s, op) > 0
    <2>1. Count(stack, Carry(s, op)) \in Nat
      BY LoadType
    <2> QED
      BY <1>2, <2>1 DEF Load, Bit
  <1> QED
    BY <1>1, <1>2

\* An operation is started, or completed, on a side that is open.
LEMMA OperationLeavesAlone ==
  ASSUME Sound, NEW t \in Thread, StartsOperation(t), NEW s \in Side, open[s]
  PROVE  LeavesAlone(s)
  <1> USE DEF Sound
  <1>1. /\ Running(t, "begin") /\ On(t) \in Side /\ Op(t) \in Operation
        /\ Load(stack, inflight, On(t), Op(t)) > 0
        /\ inflight \in [Side -> [Operation -> Flight]]
    BY OperationTyped, GoesOnNow, ProxyAssumption DEF TypedAndFinite, Typed, SocketTypeOK
  <1>2. PICK x \in Side : x = On(t)
    BY <1>1
  <1>3. PICK o \in Operation : o = Op(t)
    BY <1>1
  <1>4. {"receive", "send"} \subseteq Operation
    BY DEF Operation
  <1>5. \A op \in {"receive", "send"} : inflight'[s][op] = "doomed" => inflight[s][op] = "doomed"
    <2>1. CASE Pending(t)
      BY <1>1, <1>4, <2>1 DEF Pending
    <2>2. CASE inflight' = inflight
      BY <2>2
    <2>3. CASE Op(t) = "disconnect" /\ Shut(On(t))
      <3>1. s # x
        BY <1>1, <1>2, <1>3, <2>3, ShutClosed
      <3>2. inflight'[s] = inflight[s]
        BY <1>1, <1>2, <2>3, <3>1 DEF Shut
      <3> QED
        BY <3>2
    <2> QED
      BY <2>1, <2>2, <2>3, StartFlights
  <1>6. \E c1, d1, c2, e2 : /\ Transfers(c1, d1, {}, c2, {}, e2)
                            /\ \A op \in {"receive", "send"} : <<s, op, "aborted">> \notin e2
    <2>1. CASE Pending(t)
      <3>1. Transfers({<<On(t), Op(t)>>}, Starting(t), {}, {}, {}, {})
        BY <1>1, <2>1, PendingEffect DEF TypedAndFinite
      <3>2. \A op \in {"receive", "send"} : <<s, op, "aborted">> \notin {}
        OBVIOUS
      <3> QED
        BY <3>1, <3>2
    <2>2. ASSUME NEW r \in {"done", "error"}, AtOnce(t, r)
          PROVE  \E c1, d1, c2, e2 : /\ Transfers(c1, d1, {}, c2, {}, e2)
                                     /\ \A op \in {"receive", "send"} : <<s, op, "aborted">> \notin e2
      <3>1. Transfers({<<On(t), Op(t)>>}, Starting(t), {},
                      {<<On(t), Op(t)>>}, {}, {<<On(t), Op(t), r>>})
        BY <1>1, <2>2, AtOnceEffect DEF TypedAndFinite, Outcome
      <3>2. \A op \in {"receive", "send"} : <<s, op, "aborted">> \notin {<<On(t), Op(t), r>>}
        OBVIOUS
      <3> QED
        BY <3>1, <3>2
    <2> QED
      BY <2>1, <2>2, OperationTyped
  <1>7. Aside
    BY <1>1, OperationTyped, PendingEffect, AtOnceEffect DEF TypedAndFinite, Outcome
  <1>8. PICK c1, d1, c2, e2 : /\ Transfers(c1, d1, {}, c2, {}, e2)
                              /\ \A op \in {"receive", "send"} : <<s, op, "aborted">> \notin e2
    BY <1>6
  <1>9. CancelsFall(s)
    BY <1>7, AsideFalls
  <1> QED
    BY <1>5, <1>8, <1>9, LeavesAloneBy

LEMMA CompletionLeavesAlone ==
  ASSUME Sound, NEW t \in Pool, NEW x \in Side, NEW o \in Operation, NEW r \in Outcome,
         Completion(t, x, o, r), NEW s \in Side, open[s], Untroubled(s)
  PROVE  LeavesAlone(s)
  <1> USE DEF Sound
  <1>1. /\ inflight[x][o] # "none" /\ r \in Outcomes(x, o)
        /\ inflight \in [Side -> [Operation -> Flight]]
    BY ProxyAssumption DEF Completion, Deliver, InUse, TypedAndFinite, Typed, SocketTypeOK
  <1>2. Load(stack, inflight, x, o) > 0
    BY <1>1, GoesOnNow
  <1>3. {"receive", "send"} \subseteq Operation
    BY DEF Operation
  <1>4. ASSUME NEW op \in {"receive", "send"}, inflight'[s][op] = "doomed"
        PROVE  inflight[s][op] = "doomed"
    <2>1. CASE x # s
      BY <1>3, <1>4, <2>1, CompletionFlights
    <2>2. CASE x = s
      <3>1. ~(o = "disconnect" \/ o \in Establishing)
        <4>1. Load(stack, inflight, "server", "connect") = 0
          BY DEF Session, AcceptCounted
        <4> QED
          BY <1>2, <2>2, <4>1, ShutClosed
      <3>2. inflight' = [inflight EXCEPT ![x] = [inflight[x] EXCEPT ![o] = "none"]]
        BY <3>1 DEF Completion, Deliver
      <3> QED
        BY <1>1, <1>3, <1>4, <2>2, <3>2
    <2> QED
      BY <2>1, <2>2
  <1>5. \A op \in {"receive", "send"} : <<s, op, "aborted">> \notin {<<x, o, r>>}
    <2> SUFFICES ASSUME NEW op \in {"receive", "send"}, s = x, op = o, r = "aborted"
                 PROVE  FALSE
      OBVIOUS
    <2>1. inflight[s][op] = "doomed"
      BY <1>1 DEF Outcomes, Establishing
    <2> QED
      BY <2>1 DEF Untroubled
  <1>6. Transfers({}, {}, {}, {<<x, o>>}, {}, {<<x, o, r>>}) /\ Aside
    BY CompletionEffect DEF TypedAndFinite
  <1>7. CancelsFall(s)
    BY <1>6, AsideFalls
  <1> QED
    BY <1>4, <1>5, <1>6, <1>7, LeavesAloneBy

\* A call of close() that has the lock and marks its side as closed.
LEMMA CloseOpenCloses ==
  ASSUME TypedAndFinite, NEW t \in Thread, CloseOpen(t)
  PROVE  On(t) \in Side /\ open' = [open EXCEPT ![On(t)] = FALSE] /\ ~open'[On(t)]
  <1>1. On(t) \in Side
    BY CloseOpenEffect DEF TypedAndFinite
  <1> QED
    BY <1>1 DEF CloseOpen, TypedAndFinite, Typed

\* A side that is open after a step was open before, but for the side that
\* has just been accepted or connected.
LEMMA OpenBefore ==
  ASSUME TypedAndFinite, [Next]_vars, NEW s \in Side, open'[s]
  PROVE  open[s] \/ \E t \in Thread : Accepted(t) \/ Connected(t)
  <1>1. ASSUME NEW t \in Thread, CloseOpen(t) PROVE open[s]
    BY <1>1, CloseOpenCloses DEF TypedAndFinite, Typed
  <1> QED
    BY <1>1
       DEF Next, Execute, Callback, AcceptFailed, ConnectFailed,
           ServerReceived, ClientReceived, PeerClosed, ServerSent, ClientSent, ServerSentPart,
           ClientSentPart, TransferFailed, TransferAborted, Disconnected, Closing, Lock,
           AlreadyClosed, FoundOpen, Operate, Time, Completion, TimerExpires, Undefined, vars, ownVars

LEMMA CancelsClosedStep == Sound /\ CancelsClosed /\ [Next]_vars => CancelsClosed'
  <1> SUFFICES ASSUME Sound, CancelsClosed, [Next]_vars, NEW s \in Side, open'[s]
               PROVE  Untroubled(s)'
    BY DEF CancelsClosed, Untroubled
  <1> USE DEF Sound, TypedAndFinite
  <1>1. open[s] => Untroubled(s)
    BY DEF CancelsClosed, Untroubled
  <1>2. {"receive", "send"} \subseteq Operation /\ "aborted" \in Outcome
    BY DEF Operation, Outcome
  <1>3. ASSUME NEW t \in Thread, Callback(t), CancelsFall(s)
        PROVE  LeavesAlone(s)
    <2>1. PICK x \in Side, op \in Operation, r \in Outcome :
            \E c2 : Transfers({<<x, op>>}, {}, {<<x, op, r>>}, c2, {}, {})
      BY <1>3, CallbackMoves
    <2>2. PICK c2 : Transfers({<<x, op>>}, {}, {<<x, op, r>>}, c2, {}, {})
      BY <2>1
    <2>3. inflight'[s] = inflight[s]
      BY <1>3, OnlyIoFlies
    <2> QED
      BY <1>3, <2>2, <2>3, LeavesFlightsAlone
  <1>4. ASSUME NEW t \in Thread, Callback(t) PROVE LeavesAlone(s)
    <2>1. CancelsFall(s)
      <3>1. s \notin {}
        OBVIOUS
      <3> QED
        BY <1>4, <3>1, CallbackCloses, CancelsFallBy DEF Aside
    <2> QED
      BY <1>3, <1>4, <2>1
  <1>5. ASSUME NEW t \in Thread, Accepted(t) \/ Connected(t) PROVE Untroubled(s)'
    <2>1. Untroubled(s)
      BY <1>2, <1>5, AcceptedFindsNothing, ConnectedAlone DEF Untroubled
    <2>2. LeavesAlone(s)
      BY <1>4, <1>5 DEF Callback
    <2> QED
      BY <2>1, <2>2, StaysUntroubled
  <1>6. ASSUME Still, CancelsFall(s), inflight' = inflight PROVE LeavesAlone(s)
    <2>1. inflight'[s] = inflight[s]
      BY <1>6
    <2> QED
      BY <1>6, <2>1, LeavesFlightsAlone DEF Still
  <1>7. ASSUME NEW t \in Thread, Closing(t) PROVE LeavesAlone(s)
    <2>1. CASE Lock(t) \/ AlreadyClosed(t) \/ FoundOpen(t)
      <3>1. Still
        BY <2>1, LockEffect, AlreadyClosedEffect, FoundOpenEffect
      <3>2. CancelsFall(s)
        <4>1. s \notin {}
          OBVIOUS
        <4> QED
          BY <2>1, <4>1, LockEffect, AlreadyClosedEffect, FoundOpenEffect, CancelsFallBy
      <3> QED
        BY <1>6, <1>7, <3>1, <3>2, OnlyIoFlies
    <2>2. CASE CloseOpen(t)
      <3>1. s # On(t)
        BY <2>2, CloseOpenCloses
      <3>2. /\ Transfers({}, {}, {}, {<<On(t), "disconnect">>}, {On(t)}, {})
            /\ Closings({On(t)}, {On(t)}, {On(t)}, {}, {}, {}, {On(t)})
        BY <2>2, CloseOpenEffect
      <3>3. CancelsFall(s)
        <4>1. s \notin {On(t)}
          BY <3>1
        <4> QED
          BY <3>2, <4>1, CancelsFallBy
      <3>4. inflight'[s] = inflight[s]
        BY <1>7, OnlyIoFlies
      <3> QED
        BY <3>2, <3>3, <3>4, LeavesFlightsAlone
    <2> QED
      BY <1>7, <2>1, <2>2 DEF Closing
  <1>8. ASSUME NEW t \in Thread, Operate(t), open[s] PROVE Untroubled(s)'
    <2>1. CASE MisusedStart(t)
      BY <1>1, <1>8, <2>1 DEF MisusedStart, Breach, Untroubled
    <2>2. CASE StartsOperation(t)
      BY <1>1, <1>8, <2>2, OperationLeavesAlone, StaysUntroubled
    <2>3. CASE Cancel(t)
      <3>1. Still /\ Aside /\ On(t) \in Side /\ Op(t) \in Tracked /\ Count(stack, Cancels(On(t))) > 0
        BY <2>3, CancelEffect
      <3>2. s # On(t)
        BY <1>1, <1>8, <3>1 DEF Untroubled
      <3>3. inflight'[s] = inflight[s]
        BY <2>3, <3>1, <3>2, ProxyAssumption DEF Cancel, TypedAndFinite, Typed, SocketTypeOK
      <3>4. LeavesAlone(s)
        <4>1. CancelsFall(s)
          BY <3>1, AsideFalls
        <4> QED
          BY <3>1, <3>3, <4>1, LeavesFlightsAlone DEF Still
      <3> QED
        BY <1>1, <1>8, <3>4, StaysUntroubled
    <2>4. CASE SetIoPending(t)
      <3>1. Still /\ CancelsFall(s)
        BY <2>4, SetIoPendingEffect, AsideFalls
      <3>2. inflight' = inflight
        BY <2>4 DEF SetIoPending
      <3> QED
        BY <1>1, <1>6, <1>8, <3>1, <3>2, StaysUntroubled
    <2> QED
      BY <1>8, <2>1, <2>2, <2>3, <2>4 DEF Operate, StartsOperation
  <1>9. ASSUME NEW t \in Thread, Time(t) PROVE LeavesAlone(s)
    BY <1>6, <1>9, TimeEffect, AsideFalls, OnlyIoFlies
  <1>10. ASSUME NEW t \in Pool, NEW x \in Side, NEW op \in Operation, NEW r \in Outcome,
                Completion(t, x, op, r), open[s]
         PROVE  Untroubled(s)'
    BY <1>1, <1>10, CompletionLeavesAlone, StaysUntroubled
  <1>11. ASSUME NEW t \in Pool, TimerExpires(t) PROVE LeavesAlone(s)
    <2>1. s \notin {}
      OBVIOUS
    <2>2. CancelsFall(s)
      BY <1>11, <2>1, TimerExpiresEffect, CancelsFallBy
    <2> QED
      BY <1>6, <1>11, <2>2, TimerExpiresEffect, OnlyIoFlies
  <1>12. CASE UNCHANGED vars
    BY <1>1, <1>12 DEF Untroubled, vars, socketVars, ownVars
  <1>13. CASE \E t \in Thread : Accepted(t) \/ Connected(t)
    BY <1>5, <1>13
  <1>14. CASE ~\E t \in Thread : Accepted(t) \/ Connected(t)
    <2>1. open[s] /\ Untroubled(s)
      BY <1>1, <1>14, OpenBefore
    <2>2. LeavesAlone(s) => Untroubled(s)'
      BY <2>1, StaysUntroubled
    <2> QED
      BY <1>4, <1>7, <1>8, <1>9, <1>10, <1>11, <1>12, <2>1, <2>2 DEF Next, Execute, Undefined
  <1> QED
    BY <1>13, <1>14

\* The closes go on as they are, on side s, and more may come.
ClosersKept(s) ==
  /\ Count(stack', Closers(s)) \in Nat /\ Count(stack, Closers(s)) \in Nat
  /\ Count(stack', Closers(s)) = Count(stack, Closers(s))

LEMMA ClosersKeptBy ==
  ASSUME NEW o, NEW l1, NEW k1, NEW l2, NEW k2, NEW n2,
         Closings(o, l1, k1, o, l2, k2, n2)
  PROVE  \A s \in Side : ClosersKept(s)
  BY DEF Closings, ClosersKept, Bit

\* What a step does to the closes of the two sides.
LEMMA ClosersMove ==
  ASSUME TypedAndFinite, [Next]_vars
  PROVE  \/ \A s \in Side : ClosersKept(s)
         \/ \E t \in Thread : ConnectFailed(t)
         \/ \A s \in Side : Count(stack', Closers(s)) > 0
         \/ \E t \in Thread :
              /\ AlreadyClosed(t) \/ CloseOpen(t)
              /\ On(t) \in Side /\ ~open'[On(t)]
              /\ Count(stack, Closers(On(t))) \in Nat
              /\ Count(stack, Closers(On(t))) > 0
              /\ \A s \in Side : s # On(t) => ClosersKept(s)
  <1> USE DEF TypedAndFinite
  <1>1. Aside => \A s \in Side : ClosersKept(s)
    BY ClosersKeptBy DEF Aside
  <1>2. Closings({}, {}, {}, Side, {}, {}, {}) => \A s \in Side : Count(stack', Closers(s)) > 0
    BY DEF Closings, Bit
  <1>3. ASSUME NEW t \in Thread, Callback(t), ~ConnectFailed(t)
        PROVE  \/ \A s \in Side : ClosersKept(s)
               \/ \A s \in Side : Count(stack', Closers(s)) > 0
    BY <1>1, <1>2, <1>3, CallbackCloses
  <1>4. ASSUME NEW t \in Thread, Lock(t) \/ FoundOpen(t)
        PROVE  \A s \in Side : ClosersKept(s)
    BY <1>4, LockEffect, FoundOpenEffect, ClosersKeptBy
  <1>5. ASSUME NEW t \in Thread, AlreadyClosed(t) \/ CloseOpen(t)
        PROVE  /\ On(t) \in Side /\ ~open'[On(t)]
               /\ Count(stack, Closers(On(t))) \in Nat
               /\ Count(stack, Closers(On(t))) > 0
               /\ \A s \in Side : s # On(t) => ClosersKept(s)
    <2>1. /\ On(t) \in Side
          /\ \E k1, n2 : Closings({On(t)}, {On(t)}, k1, {}, {}, {}, n2)
      BY <1>5, AlreadyClosedEffect, CloseOpenEffect
    <2>2. ~open'[On(t)]
      BY <1>5, CloseOpenCloses DEF AlreadyClosed
    <2>3. PICK x \in Side : x = On(t)
      BY <2>1
    <2>4. PICK k1, n2 : Closings({x}, {x}, k1, {}, {}, {}, n2)
      BY <2>1, <2>3
    <2>5. Count(stack, Closers(x)) \in Nat /\ Count(stack, Closers(x)) > 0
      BY <2>4 DEF Closings, Bit
    <2>6. \A s \in Side : s # x => ClosersKept(s)
      BY <2>4 DEF Closings, Bit, ClosersKept
    <2> QED
      BY <2>1, <2>2, <2>3, <2>5, <2>6
  <1>6. ASSUME NEW t \in Thread, Operate(t) PROVE \A s \in Side : ClosersKept(s)
    <2>1. CASE MisusedStart(t)
      <3>1. stack' = stack
        BY <2>1 DEF MisusedStart, Breach
      <3>2. \A s \in Side : Count(stack, Closers(s)) \in Nat
        BY KindsOfCalls, CountSubset, CountType DEF Finite
      <3> QED
        BY <3>1, <3>2 DEF ClosersKept
    <2>2. CASE StartsOperation(t)
      <3>1. Running(t, "begin") /\ (Pending(t) \/ \E r \in {"done", "error"} : AtOnce(t, r))
        BY <2>2, OperationTyped
      <3> QED
        BY <1>1, <3>1, PendingEffect, AtOnceEffect DEF Outcome
    <2>3. CASE Cancel(t) \/ SetIoPending(t)
      BY <1>1, <2>3, CancelEffect, SetIoPendingEffect
    <2> QED
      BY <1>6, <2>1, <2>2, <2>3 DEF Operate, StartsOperation
  <1>7. ASSUME NEW t \in Thread, Time(t) PROVE \A s \in Side : ClosersKept(s)
    BY <1>1, <1>7, TimeEffect
  <1>8. ASSUME NEW t \in Pool, NEW s \in Side, NEW op \in Operation, NEW r \in Outcome,
               Completion(t, s, op, r)
        PROVE  \A x \in Side : ClosersKept(x)
    BY <1>1, <1>8, CompletionEffect
  <1>9. ASSUME NEW t \in Pool, TimerExpires(t)
        PROVE  \A s \in Side : Count(stack', Closers(s)) > 0
    BY <1>2, <1>9, TimerExpiresEffect
  <1>10. CASE UNCHANGED vars
    <2>1. \A s \in Side : Count(stack, Closers(s)) \in Nat
      BY KindsOfCalls, CountSubset, CountType DEF Finite
    <2>2. stack' = stack
      BY <1>10 DEF vars
    <2> QED
      BY <2>1, <2>2 DEF ClosersKept
  <1> QED
    BY <1>3, <1>4, <1>5, <1>6, <1>7, <1>8, <1>9, <1>10 DEF Next, Execute, Closing, Undefined

\* The server closes when the client cannot be connected.
LEMMA ConnectFailedCloses ==
  ASSUME Sound, NEW t \in Thread, ConnectFailed(t)
  PROVE  /\ ~open'["client"]
         /\ Count(stack', Closers("server")) > 0
  <1>1. ~open'["client"]
    BY ConnectedAlone DEF ConnectFailed, ownVars
  <1>2. Closings({}, {}, {}, {"server"}, {}, {}, {})
    BY ConnectFailedEffect DEF Sound, TypedAndFinite
  <1>3. Count(stack', Closers("server")) > 0
    BY <1>2 DEF Closings, Bit, Side
  <1> QED
    BY <1>1, <1>3

LEMMA CloseSpreadsStep == Sound /\ CloseSpreads /\ [Next]_vars => CloseSpreads'
  <1> SUFFICES ASSUME Sound, CloseSpreads, [Next]_vars, NEW s \in Side, NEW o \in Side,
                      open'[s], Count(stack', Closers(o)) > 0
               PROVE  Count(stack', Closers(s)) > 0
    BY DEF CloseSpreads
  <1> USE DEF Sound
  <1>1. CASE \E t \in Thread : Accepted(t) \/ Connected(t)
    <2>1. PICK t \in Thread : Accepted(t) \/ Connected(t)
      BY <1>1
    <2>2. Count(stack, Closers(o)) = 0
      BY <2>1, AcceptedFindsNothing, ConnectedAlone
    <2>3. Aside
      BY <2>1, AcceptedEffect, ConnectedEffect DEF TypedAndFinite
    <2>4. ClosersKept(o)
      BY <2>3, ClosersKeptBy DEF Aside
    <2> QED
      BY <2>2, <2>4 DEF ClosersKept
  <1>2. CASE ~\E t \in Thread : Accepted(t) \/ Connected(t)
    <2>1. open[s]
      BY <1>2, OpenBefore
    <2>2. Count(stack, Closers(o)) > 0 => Count(stack, Closers(s)) > 0
      BY <2>1 DEF CloseSpreads
    <2>3. CASE \A x \in Side : ClosersKept(x)
      BY <2>2, <2>3 DEF ClosersKept
    <2>4. CASE \E t \in Thread : ConnectFailed(t)
      BY <2>4, ConnectFailedCloses DEF Side
    <2>5. CASE \E t \in Thread :
                 /\ AlreadyClosed(t) \/ CloseOpen(t)
                 /\ On(t) \in Side /\ ~open'[On(t)]
                 /\ Count(stack, Closers(On(t))) \in Nat
                 /\ Count(stack, Closers(On(t))) > 0
                 /\ \A x \in Side : x # On(t) => ClosersKept(x)
      <3>1. PICK t \in Thread :
                 /\ On(t) \in Side /\ ~open'[On(t)]
                 /\ Count(stack, Closers(On(t))) > 0
                 /\ \A x \in Side : x # On(t) => ClosersKept(x)
        BY <2>5
      <3>2. PICK x \in Side : x = On(t)
        BY <3>1
      <3>3. s # x /\ ClosersKept(s)
        BY <3>1, <3>2
      <3>4. Count(stack, Closers(s)) > 0
        BY <2>1, <3>1, <3>2 DEF CloseSpreads
      <3> QED
        BY <3>3, <3>4 DEF ClosersKept
    <2> QED
      BY <2>3, <2>4, <2>5, ClosersMove
  <1> QED
    BY <1>1, <1>2

-----------------------------------------------------------------------------
(* The connection is never lost.                                           *)

LEMMA ConnectsKept ==
  ASSUME TypedAndFinite, [Next]_vars,
         ~\E t \in Thread : Accepted(t) \/ Connected(t) \/ ConnectFailed(t)
  PROVE  Connects' = Connects
  <1> USE DEF TypedAndFinite
  <1>1. ASSUME NEW x, NEW y, LoadMoves(x, y), <<"client", "connect">> \notin x,
               <<"client", "connect">> \notin y
        PROVE  Connects' = Connects
    <2>1. /\ Connects' + Bit(<<"client", "connect">> \in x) = Connects + Bit(<<"client", "connect">> \in y)
          /\ Connects' \in Nat /\ Connects \in Nat
      BY <1>1 DEF LoadMoves, Connects, Side, Operation
    <2>2. Bit(<<"client", "connect">> \in x) = 0 /\ Bit(<<"client", "connect">> \in y) = 0
      BY <1>1 DEF Bit
    <2> QED
      BY <2>1, <2>2
  <1>2. LoadMoves({}, {}) => Connects' = Connects
    BY <1>1
  <1>3. ASSUME NEW t \in Thread, Callback(t) PROVE Connects' = Connects
    <2>1. PICK x \in Side, op \in Operation, r \in Outcome :
            \E c2 : /\ Transfers({<<x, op>>}, {}, {<<x, op, r>>}, c2, {}, {})
                    /\ <<x, op>> # <<"client", "connect">> /\ <<"client", "connect">> \notin c2
      BY <1>3, CallbackMoves
    <2>2. PICK c2 : /\ Transfers({<<x, op>>}, {}, {<<x, op, r>>}, c2, {}, {})
                    /\ <<x, op>> # <<"client", "connect">> /\ <<"client", "connect">> \notin c2
      BY <2>1
    <2>3. LoadMoves({<<x, op>>}, c2)
      BY <1>3, <2>2, OnlyIoFlies, CarriedLoads
    <2> QED
      BY <1>1, <2>2, <2>3
  <1>4. ASSUME NEW t \in Thread, Closing(t) PROVE Connects' = Connects
    <2>1. CASE Lock(t) \/ AlreadyClosed(t) \/ FoundOpen(t)
      BY <1>2, <1>4, <2>1, LockEffect, AlreadyClosedEffect, FoundOpenEffect, OnlyIoFlies,
         CarriedLoads DEF Still
    <2>2. CASE CloseOpen(t)
      <3>1. LoadMoves({}, {<<On(t), "disconnect">>})
        BY <1>4, <2>2, CloseOpenEffect, OnlyIoFlies, CarriedLoads
      <3> QED
        BY <1>1, <3>1
    <2> QED
      BY <1>4, <2>1, <2>2 DEF Closing
  <1>5. ASSUME NEW t \in Thread, Operate(t) PROVE Connects' = Connects
    BY <1>2, <1>5, OperateLoads
  <1>6. ASSUME NEW t \in Thread, Time(t) PROVE Connects' = Connects
    BY <1>2, <1>6, TimeEffect, OnlyIoFlies, CarriedLoads DEF Still
  <1>7. ASSUME NEW t \in Pool, NEW s \in Side, NEW op \in Operation, NEW r \in Outcome,
               Completion(t, s, op, r)
        PROVE  Connects' = Connects
    BY <1>2, <1>7, CompletionLoads
  <1>8. ASSUME NEW t \in Pool, TimerExpires(t) PROVE Connects' = Connects
    BY <1>2, <1>8, TimerExpiresEffect, OnlyIoFlies, CarriedLoads DEF Still
  <1>9. CASE UNCHANGED vars
    BY <1>9 DEF vars, socketVars, Connects, Load
  <1> QED
    BY <1>3, <1>4, <1>5, <1>6, <1>7, <1>8, <1>9 DEF Next, Execute, Undefined

LEMMA OpensKept ==
  ASSUME [Next]_vars, ~\E t \in Thread : Accepted(t) \/ Connected(t) \/ CloseOpen(t)
  PROVE  open' = open
  BY DEF Next, Execute, Callback, AcceptFailed, ConnectFailed,
         ServerReceived, ClientReceived, PeerClosed, ServerSent, ClientSent, ServerSentPart,
         ClientSentPart, TransferFailed, TransferAborted, Disconnected, Closing, Lock,
         AlreadyClosed, FoundOpen, Operate, Time, Completion, TimerExpires, Undefined, vars, ownVars

\* A transfer that ends as cancelled is one of a side that has been closed.
LEMMA AbortedClosed ==
  ASSUME TypedAndFinite, CancelsClosed, NEW t \in Thread, TransferAborted(t)
  PROVE  \E s \in Side : ~open[s]
  <1>1. PICK s \in Side, op \in {"receive", "send"} :
          Transfers({<<s, op>>}, {}, {<<s, op, "aborted">>}, {}, {}, {})
    BY AbortedEffect DEF TypedAndFinite
  <1>2. op \in Operation /\ "aborted" \in Outcome
    BY DEF Operation, Outcome
  <1>3. Count(stack, Ends(s, op, "aborted")) > 0
    BY <1>1, <1>2 DEF Transfers, Bit
  <1> QED
    BY <1>3 DEF CancelsClosed

LEMMA GoesOnStep ==
  Sound /\ CancelsClosed /\ CloseSpreads /\ GoesOn /\ [Next]_vars => GoesOn'
  <1> SUFFICES ASSUME Sound, CancelsClosed, CloseSpreads, GoesOn, [Next]_vars,
                      NEW s \in Side, open'[s], Connects' = 0
               PROVE  \/ Count(stack', Closers(s)) > 0
                      \/ (\A o \in Side : open'[o]) /\ Chain(stack', inflight', "server") = 1
    BY DEF GoesOn, Connects
  <1> USE DEF Sound
  <1>1. CASE \E t \in Thread : Accepted(t)
    <2>1. PICK t \in Thread : Accepted(t)
      BY <1>1
    <2>2. LoadMoves({<<"server", "accept">>}, {<<"client", "connect">>})
      BY <2>1, AcceptedEffect, OnlyIoFlies, CarriedLoads DEF Callback, TypedAndFinite
    <2>3. Connects' = Connects + 1 /\ Connects \in Nat
      BY <2>2 DEF LoadMoves, Connects, Bit, Side, Operation
    <2> QED
      BY <2>3
  <1>2. CASE \E t \in Thread : Connected(t)
    <2>1. PICK t \in Thread : Connected(t)
      BY <1>2
    <2>2. LoadMoves({<<"client", "connect">>}, {<<"server", "receive">>, <<"client", "receive">>})
      BY <2>1, ConnectedEffect, OnlyIoFlies, CarriedLoads DEF Callback, TypedAndFinite
    <2>3. Chain(stack, inflight, "server") = 0
      <3>1. \A x \in Side : Load(stack, inflight, x, "receive") = 0 /\ Load(stack, inflight, x, "send") = 0
        BY <2>1, ConnectedAlone
      <3> QED
        BY <3>1 DEF Chain, Other, Side
    <2>4. Chain(stack', inflight', "server") = 1
      BY <2>2, <2>3, ChainMoves DEF Bit, Other, Side
    <2>5. \A o \in Side : open'[o]
      BY <2>1, ConnectedAlone DEF Connected, TypedAndFinite, Typed, Side
    <2> QED
      BY <2>4, <2>5
  <1>3. CASE \E t \in Thread : ConnectFailed(t)
    BY <1>3, ConnectFailedCloses DEF Side
  <1>4. CASE ~\E t \in Thread : Accepted(t) \/ Connected(t) \/ ConnectFailed(t)
    <2>1. open[s] /\ Connects = 0
      BY <1>4, OpenBefore, ConnectsKept
    <2>2. \/ Count(stack, Closers(s)) > 0
          \/ (\A o \in Side : open[o]) /\ Chain(stack, inflight, "server") = 1
      BY <2>1 DEF GoesOn, Connects
    <2>3. CASE Count(stack, Closers(s)) > 0
      BY <1>4, <2>3, ClosersMove DEF ClosersKept
    <2>4. CASE \E t \in Thread : AlreadyClosed(t) \/ CloseOpen(t)
      <3>1. PICK t \in Thread : AlreadyClosed(t) \/ CloseOpen(t)
        BY <2>4
      <3>2. PICK o \in Side : Count(stack, Closers(o)) > 0
        <4>1. /\ On(t) \in Side
              /\ \E k1, n2 : Closings({On(t)}, {On(t)}, k1, {}, {}, {}, n2)
          BY <3>1, AlreadyClosedEffect, CloseOpenEffect DEF TypedAndFinite
        <4>2. PICK x \in Side : x = On(t)
          BY <4>1
        <4>3. PICK k1, n2 : Closings({x}, {x}, k1, {}, {}, {}, n2)
          BY <4>1, <4>2
        <4> QED
          BY <4>3 DEF Closings, Bit
      <3> QED
        BY <2>1, <2>3, <3>2 DEF CloseSpreads
    <2>5. CASE /\ \A o \in Side : open[o]
               /\ Chain(stack, inflight, "server") = 1
               /\ ~\E t \in Thread : AlreadyClosed(t) \/ CloseOpen(t)
      <3>1. ASSUME NEW t \in Thread, PeerClosed(t) \/ TransferFailed(t)
            PROVE  Count(stack', Closers(s)) > 0
        <4>1. Closings({}, {}, {}, Side, {}, {}, {})
          BY <3>1, GivesUpEffect DEF TypedAndFinite
        <4> QED
          BY <4>1 DEF Closings, Bit
      <3>2. ~\E t \in Thread : TransferAborted(t)
        BY <2>5, AbortedClosed
      <3>3. CASE ~\E t \in Thread : PeerClosed(t) \/ TransferFailed(t)
        <4>1. ChainsKept
          BY <1>4, <3>2, <3>3, CallbackKeepsChains, OthersKeepChains
        <4>2. open' = open
          BY <1>4, <2>5, OpensKept
        <4> QED
          BY <2>5, <4>1, <4>2 DEF ChainsKept, Side
      <3> QED
        BY <3>1, <3>3
    <2> QED
      BY <2>2, <2>3, <2>4, <2>5
  <1> QED
    BY <1>1, <1>2, <1>3, <1>4

LEMMA ClosingInit == Init => CancelsClosed /\ CloseSpreads /\ GoesOn
  BY DEF Init, CancelsClosed, CloseSpreads, GoesOn

LEMMA NeverLostFollows == Sound /\ GoesOn => NeverLost
  <1> SUFFICES ASSUME Sound, GoesOn, \A t \in Thread : Idle(t),
                      \A s \in Side, op \in Operation : inflight[s][op] = "none"
               PROVE  FALSE
    BY DEF NeverLost, InUse
  <1>1. \A F : Count(stack, F) = 0
    BY CountIdle DEF Sound, TypedAndFinite, Typed, Idle
  <1>2. \A s \in Side, op \in Operation : Load(stack, inflight, s, op) = 0
    BY <1>1 DEF Load, Bit
  <1>3. nconnections # 0
    BY <1>2 DEF Sound, Session, AcceptCounted, Bit, Side, Operation
  <1>4. PICK s \in Side : open[s]
    BY <1>2, <1>3 DEF Sound, Session, SharesCounted, Share, Bit, Side, Operation
  <1>5. Chain(stack, inflight, "server") = 1
    BY <1>1, <1>2, <1>4 DEF GoesOn, Side, Operation
  <1>6. Chain(stack, inflight, "server") = 0
    BY <1>2 DEF Chain, Other, Side, Operation
  <1> QED
    BY <1>5, <1>6

\* A connection always has a call, an operation in Windows or a thread that
\* will go on with it: whoever finds a reason to close it closes both sides
\* (close_connections()), only what has been closed is cancelled, so that an
\* aborted transfer may be passed over in silence, and the second disconnect
\* accepts again.
THEOREM NothingIsLost ==
  ASSUME Punctual
  PROVE  Spec => []NeverLost
  <1>1. Sound /\ CancelsClosed /\ [Next]_vars => CancelsClosed'
    BY CancelsClosedStep
  <1>2. Sound /\ CloseSpreads /\ [Next]_vars => CloseSpreads'
    BY CloseSpreadsStep
  <1>3. Sound /\ CancelsClosed /\ CloseSpreads /\ GoesOn /\ [Next]_vars => GoesOn'
    BY GoesOnStep
  <1>4. Init => CancelsClosed /\ CloseSpreads /\ GoesOn
    BY ClosingInit
  <1>5. Sound /\ GoesOn => NeverLost
    BY NeverLostFollows
  <1> QED
    BY <1>1, <1>2, <1>3, <1>4, <1>5, SessionsSound, PTL DEF Spec

-----------------------------------------------------------------------------
(* The timer does not wait for itself.                                     *)

LEMMA TimerFrameKinds ==
  ASSUME NEW f \in TimerCallFrames
  PROVE  /\ f.call \in {"close", "test_open", "clear_open"} =>
              f.on \in Side /\ f.op = "none" /\ f.arg = "keep_timer"
         /\ f.call \notin {"stop_timer", "await_timer", "io_pending"}
         /\ f.call = "begin" => f.op = "disconnect" \/ (f.on = "server" /\ f.op = "accept")
         /\ f.call = "complete" => \/ f.op = "disconnect"
                                   \/ f.op = "accept" /\ f.arg = "error"
  <1>1. CASE f \in TimerCloses
    BY <1>1 DEF TimerCloses
  <1>2. ASSUME NEW s \in Side, f \in Cancels(s) PROVE f.call = "cancel"
    BY <1>2, FrameFields DEF Cancels
  <1>3. ASSUME NEW s \in Side, f \in Carry(s, "disconnect")
        PROVE  f.call \in {"begin", "complete"} /\ f.op = "disconnect"
    BY <1>3, FrameFields DEF Carry
  <1>4. CASE f = Begin("server", "accept")
    BY <1>4, FrameFields
  <1>5. CASE f = Complete("server", "accept", "error")
    BY <1>5, FrameFields
  <1>6. CASE f = TimerEnd("timer")
    BY <1>6, FrameFields
  <1>7. f.call = "cancel" => f.call \notin {"close", "test_open", "clear_open", "stop_timer",
                                          "await_timer", "io_pending", "begin", "complete"}
    OBVIOUS
  <1>8. f \in TimerDisconnects => \E s \in Side : f \in Cancels(s) \/ f \in Carry(s, "disconnect")
    BY DEF TimerDisconnects
  <1>9. CASE \E s \in Side : f \in Cancels(s)
    BY <1>2, <1>7, <1>9
  <1>10. CASE \E s \in Side : f \in Carry(s, "disconnect")
    BY <1>3, <1>10
  <1> QED
    BY <1>1, <1>4, <1>5, <1>6, <1>8, <1>9, <1>10 DEF TimerCallFrames, TimerAccepts

LEMMA TimerFramesMade ==
  /\ \A x \in Side : /\ Close(x, "keep_timer") \in TimerCallFrames
                     /\ TestOpen(x, "keep_timer") \in TimerCallFrames
                     /\ ClearOpen(x, "keep_timer") \in TimerCallFrames
                     /\ \A op \in Tracked : CancelIo(x, op) \in TimerCallFrames
                     /\ Begin(x, "disconnect") \in TimerCallFrames
                     /\ \A r \in Outcome : Complete(x, "disconnect", r) \in TimerCallFrames
  /\ Begin("server", "accept") \in TimerCallFrames
  /\ Complete("server", "accept", "error") \in TimerCallFrames
  /\ TimerEnd("timer") \in TimerCallFrames
  <1>1. \A x \in Side, call \in {"close", "test_open", "clear_open"} :
          Frame(call, x, "none", "keep_timer") \in TimerCallFrames
    <2>1. \A x \in Side, call \in {"close", "test_open", "clear_open"} :
            Frame(call, x, "none", "keep_timer")
              \in TimerCloses
      BY DEF Frame, TimerCloses
    <2> QED
      BY <2>1 DEF TimerCallFrames
  <1>2. \A x \in Side : Cancels(x) \cup Carry(x, "disconnect") \subseteq TimerCallFrames
    BY DEF TimerCallFrames, TimerDisconnects
  <1>3. \A x \in Side, op \in Tracked : CancelIo(x, op) \in TimerCallFrames
    BY <1>2, Zenon DEF Cancels
  <1>4. \A x \in Side : /\ Begin(x, "disconnect") \in TimerCallFrames
                       /\ \A r \in Outcome : Complete(x, "disconnect", r) \in TimerCallFrames
    BY <1>2, Zenon DEF Carry
  <1>5. /\ Begin("server", "accept") \in TimerCallFrames
        /\ Complete("server", "accept", "error") \in TimerCallFrames
        /\ TimerEnd("timer") \in TimerCallFrames
    BY DEF TimerCallFrames, TimerAccepts
  <1> QED
    BY <1>1, <1>3, <1>4, <1>5 DEF Close, TestOpen, ClearOpen

\* The call a thread that runs the callback of the timer is about to execute;
\* the end of the callback is the last one.
LEMMA TimerHead ==
  ASSUME Typed, TimerStays, NEW t \in Thread, ~Idle(t), InCallback(t, "timer")
  PROVE  /\ Head(stack[t]) \in TimerCallFrames
         /\ Head(stack[t]).call # "timer_end" => Len(stack[t]) > 1
  <1>1. stack[t] \in Seq(TimerCallFrames) /\ stack[t] # <<>>
    BY DEF TimerStays, Idle
  <1>2. Head(stack[t]) \in TimerCallFrames
    BY <1>1
  <1>3. PICK i \in DOMAIN stack[t] : stack[t][i] = TimerEnd("timer")
    BY DEF InCallback, OnStack
  <1>4. TimerEnd("timer").call = "timer_end"
    BY FrameFields
  <1>5. ASSUME Head(stack[t]).call # "timer_end" PROVE Len(stack[t]) > 1
    <2>1. i # 1 /\ i \in 1 .. Len(stack[t])
      BY <1>1, <1>3, <1>4, <1>5
    <2> QED
      BY <1>1, <2>1
  <1> QED
    BY <1>2, <1>5

\* The calls c do not end a callback of the timer.
GoesAhead(c) == \A i \in DOMAIN c : c[i].call # "timer_end"

\* The call at the head of t's stack makes the calls c.
LEMMA ReplaceStays ==
  ASSUME Typed, TimerStays, NEW t \in Thread, ~Idle(t), NEW c \in Seq(Calls), Replace(t, c),
         GoesAhead(c), InCallback(t, "timer") => c \in Seq(TimerCallFrames)
  PROVE  TimerStays'
  <1> DEFINE q == stack[t]
  <1>1. q \in Seq(Calls) /\ q # <<>> /\ Tail(q) \in Seq(Calls)
    BY DEF Typed, Idle
  <1>2. stack' = [stack EXCEPT ![t] = c \o Tail(q)]
    BY DEF Replace
  <1>3. stack'[t] = c \o Tail(q) /\ \A u \in Thread \ {t} : stack'[u] = stack[u]
    BY <1>2 DEF Typed
  <1>4. TimerEnd("timer").call = "timer_end"
    BY FrameFields
  <1>5. InCallback(t, "timer")' => InCallback(t, "timer")
    <2>1. SUFFICES ASSUME NEW i \in DOMAIN (c \o Tail(q)), (c \o Tail(q))[i] = TimerEnd("timer")
                   PROVE  \E j \in DOMAIN q : q[j] = TimerEnd("timer")
      BY <1>3 DEF InCallback, OnStack
    <2>2. Len(c) \in Nat /\ Len(q) \in Nat /\ Len(Tail(q)) = Len(q) - 1 /\ Len(q) > 0
      BY <1>1
    <2>3. i \in 1 .. Len(c) + Len(Tail(q))
      BY <1>1, <2>2
    <2>4. ~(i <= Len(c))
      BY <1>1, <1>4, <2>1, <2>2, <2>3 DEF GoesAhead
    <2>5. (c \o Tail(q))[i] = Tail(q)[i - Len(c)]
      BY <1>1, <2>2, <2>3, <2>4
    <2>6. Tail(q)[i - Len(c)] = q[i - Len(c) + 1] /\ i - Len(c) + 1 \in DOMAIN q
      BY <1>1, <2>2, <2>3, <2>4
    <2> QED
      BY <2>1, <2>5, <2>6
  <1>6. ASSUME InCallback(t, "timer") PROVE c \o Tail(q) \in Seq(TimerCallFrames)
    <2>1. q \in Seq(TimerCallFrames) /\ c \in Seq(TimerCallFrames)
      BY <1>6 DEF TimerStays
    <2> HIDE DEF q
    <2>2. Tail(q) \in Seq(TimerCallFrames)
      BY <1>1, <2>1
    <2> QED
      BY <2>1, <2>2
  <1>7. ASSUME NEW u \in Thread, InCallback(u, "timer")' PROVE stack'[u] \in Seq(TimerCallFrames)
    <2>1. CASE u = t
      BY <1>3, <1>5, <1>6, <1>7, <2>1
    <2>2. CASE u # t
      <3>1. stack'[u] = stack[u]
        BY <1>3, <2>2
      <3>2. InCallback(u, "timer")
        BY <1>7, <3>1 DEF InCallback, OnStack
      <3> QED
        BY <3>1, <3>2 DEF TimerStays
    <2> QED
      BY <2>1, <2>2
  <1> QED
    BY <1>7 DEF TimerStays

\* An idle thread of the pool starts with the calls c.
LEMMA StartStays ==
  ASSUME Typed, TimerStays, NEW t \in Pool, NEW c \in Seq(Calls), Start(t, c),
         GoesAhead(c) \/ c \in Seq(TimerCallFrames)
  PROVE  TimerStays'
  <1>1. t \in Thread /\ stack' = [stack EXCEPT ![t] = c]
    BY DEF Start, Thread
  <1>2. stack'[t] = c /\ \A u \in Thread \ {t} : stack'[u] = stack[u]
    BY <1>1 DEF Typed
  <1>3. TimerEnd("timer").call = "timer_end"
    BY FrameFields
  <1>4. ASSUME NEW u \in Thread, InCallback(u, "timer")' PROVE stack'[u] \in Seq(TimerCallFrames)
    <2>1. CASE u = t
      BY <1>2, <1>3, <1>4, <2>1 DEF InCallback, OnStack, GoesAhead
    <2>2. CASE u # t
      <3>1. stack'[u] = stack[u]
        BY <1>2, <2>2
      <3>2. InCallback(u, "timer")
        BY <1>4, <3>1 DEF InCallback, OnStack
      <3> QED
        BY <3>1, <3>2 DEF TimerStays
    <2> QED
      BY <2>1, <2>2
  <1> QED
    BY <1>4 DEF TimerStays

\* What a callback of the connection calls.
LEMMA CallbackCalls ==
  ASSUME NEW t, Callback(t)
  PROVE  \E c \in Seq(Calls) :
           /\ Replace(t, c) /\ GoesAhead(c)
           /\ AcceptFailed(t) \/ Disconnected(t) => c \in Seq(TimerCallFrames)
  <1> DEFINE Made(c) == c \in Seq(Calls) /\ GoesAhead(c)
  <1>1. /\ \A s \in Side, op \in Operation : Begin(s, op) \in Calls /\ Begin(s, op).call = "begin"
        /\ \A s \in Side, a \in Flag : Close(s, a) \in Calls /\ Close(s, a).call = "close"
        /\ StopTimer("timer") \in Calls /\ StopTimer("timer").call = "stop_timer"
    BY FramesAreCalls, FrameFields
  <1>2. \A s \in Side, op \in Operation :
          /\ Made(<<Begin(s, op)>>)
          /\ Made(<<StopTimer("timer"), Begin(s, op)>>)
    BY <1>1 DEF GoesAhead
  <1>3. \A s \in Side, a \in Flag : Made(<<Close(s, a)>>)
    BY <1>1 DEF GoesAhead
  <1>4. \A a \in Flag : Made(CloseConnections(a))
    <2>1. ASSUME NEW a \in Flag PROVE Made(CloseConnections(a))
      <3>1. /\ Close("client", "keep_timer") \in Calls /\ Close("client", "keep_timer").call = "close"
            /\ Close("server", a) \in Calls /\ Close("server", a).call = "close"
        BY <1>1 DEF Side, Flag
      <3>2. \A f, g \in Calls : f.call = "close" /\ g.call = "close" => Made(<<f, g>>)
        BY DEF GoesAhead
      <3>3. Made(<<Close("client", "keep_timer"), Close("server", a)>>)
        BY <3>1, <3>2
      <3>4. CloseConnections(a) = <<Close("client", "keep_timer"), Close("server", a)>>
        BY DEF CloseConnections
      <3> HIDE DEF Made
      <3> QED
        BY <3>3, <3>4
    <2> QED
      BY <2>1
  <1>5. Made(<<StopTimer("timer"), Begin("server", "receive"), Begin("client", "receive")>>)
    BY <1>1 DEF GoesAhead, Side, Operation
  <1>6. Made(<<>>) /\ <<>> \in Seq(TimerCallFrames)
    BY DEF GoesAhead
  <1>7. <<Begin("server", "accept")>> \in Seq(TimerCallFrames)
    BY TimerFramesMade
  <1> HIDE DEF Made
  <1>8. CASE AcceptFailed(t) \/ Disconnected(t)
    <2>1. Made(<<Begin("server", "accept")>>)
      BY <1>2 DEF Side, Operation
    <2>2. Replace(t, <<Begin("server", "accept")>>) \/ Replace(t, <<>>)
      BY <1>8 DEF AcceptFailed, Disconnected
    <2> QED
      BY <1>6, <1>7, <2>1, <2>2 DEF Made
  <1>9. CASE ~AcceptFailed(t) /\ ~Disconnected(t)
    <2>1. \E c : Made(c) /\ Replace(t, c)
      BY <1>2, <1>3, <1>4, <1>5, <1>6, <1>9
         DEF Callback, Accepted, Connected, ConnectFailed, ServerReceived, ClientReceived,
             PeerClosed, ServerSent, ClientSent, ServerSentPart, ClientSentPart, TransferFailed,
             TransferAborted, Return, Side, Operation, Flag
    <2> QED
      BY <1>9, <2>1 DEF Made
  <1> QED
    BY <1>8, <1>9

\* Of the callbacks of the connection, that of the timer calls only those that
\* go back to accepting.
LEMMA CallbackStays ==
  ASSUME Typed, TimerStays, NEW t \in Thread, Callback(t)
  PROVE  TimerStays'
  <1>1. PICK c \in Seq(Calls) : /\ Replace(t, c) /\ GoesAhead(c)
                                /\ AcceptFailed(t) \/ Disconnected(t) => c \in Seq(TimerCallFrames)
    BY CallbackCalls
  <1>2. Running(t, "complete") /\ ~Idle(t)
    BY DEF Callback, Accepted, AcceptFailed, Connected, ConnectFailed,
           ServerReceived, ClientReceived, PeerClosed, ServerSent, ClientSent, ServerSentPart,
           ClientSentPart, TransferFailed, TransferAborted, Disconnected, Told, Running
  <1>3. ASSUME InCallback(t, "timer") PROVE AcceptFailed(t) \/ Disconnected(t)
    <2>1. Op(t) = "disconnect" \/ (Op(t) = "accept" /\ Arg(t) = "error")
      BY <1>2, <1>3, TimerHead, TimerFrameKinds DEF Running, Op, Arg
    <2> QED
      BY <2>1
         DEF Callback, Accepted, Connected, ConnectFailed,
             ServerReceived, ClientReceived, PeerClosed, ServerSent, ClientSent, ServerSentPart,
             ClientSentPart, TransferFailed, TransferAborted, Told
  <1> QED
    BY <1>1, <1>2, <1>3, ReplaceStays

\* The timer callback closes without waiting for the timer.
LEMMA ClosingStays ==
  ASSUME Typed, TimerStays, NEW t \in Thread, Closing(t)
  PROVE  TimerStays'
  <1>1. /\ ~Idle(t) /\ Head(stack[t]) \in Calls
        /\ Head(stack[t]).call \in {"close", "test_open", "clear_open"}
    BY HeadIsCall DEF Closing, Lock, AlreadyClosed, FoundOpen, CloseOpen, Running
  <1>2. PICK x \in Side, a \in Flag : x = On(t) /\ a = Arg(t)
    BY <1>1, CallNamed DEF On, Arg
  <1>3. InCallback(t, "timer") => a = "keep_timer"
    BY <1>1, <1>2, TimerHead, TimerFrameKinds DEF Arg
  <1>4. ASSUME NEW f \in {TestOpen(x, a), ClearOpen(x, a)}, Replace(t, <<f>>)
        PROVE  TimerStays'
    <2>1. f \in Calls /\ f.call # "timer_end"
      BY <1>4, FramesAreCalls, FrameFields
    <2>2. <<f>> \in Seq(Calls) /\ GoesAhead(<<f>>)
      BY <2>1 DEF GoesAhead
    <2>3. ASSUME a = "keep_timer" PROVE <<f>> \in Seq(TimerCallFrames)
      <3>1. f \in TimerCallFrames
        BY <1>4, <2>3, TimerFramesMade
      <3> QED
        BY <3>1
    <2> QED
      BY <1>1, <1>3, <1>4, <2>2, <2>3, ReplaceStays
  <1>5. CASE Lock(t) \/ FoundOpen(t)
    BY <1>2, <1>4, <1>5 DEF Lock, FoundOpen
  <1>6. CASE AlreadyClosed(t)
    <2>1. Replace(t, <<>>) /\ GoesAhead(<<>>) /\ <<>> \in Seq(Calls) /\ <<>> \in Seq(TimerCallFrames)
      BY <1>6 DEF AlreadyClosed, Return, GoesAhead
    <2> QED
      BY <1>1, <2>1, ReplaceStays
  <1>7. CASE CloseOpen(t)
    <2> DEFINE c == <<CancelIo(x, "receive"), CancelIo(x, "send"), Begin(x, "disconnect")>>
    <2>1. /\ CancelIo(x, "receive") \in Calls /\ CancelIo(x, "send") \in Calls
          /\ Begin(x, "disconnect") \in Calls /\ StopTimer("timer") \in Calls
          /\ CancelIo(x, "receive").call = "cancel" /\ CancelIo(x, "send").call = "cancel"
          /\ Begin(x, "disconnect").call = "begin" /\ StopTimer("timer").call = "stop_timer"
      BY FramesAreCalls, FrameFields, ProxyAssumption DEF Operation
    <2>2. c \in Seq(Calls) /\ GoesAhead(c)
      BY <2>1 DEF GoesAhead
    <2>3. CASE a = "keep_timer"
      <3>1. Replace(t, c)
        BY <1>2, <1>7, <2>2, <2>3 DEF CloseOpen
      <3>2. c \in Seq(TimerCallFrames)
        <4>1. /\ CancelIo(x, "receive") \in TimerCallFrames /\ CancelIo(x, "send") \in TimerCallFrames
              /\ Begin(x, "disconnect") \in TimerCallFrames
          BY TimerFramesMade, ProxyAssumption
        <4> QED
          BY <4>1
      <3> QED
        BY <1>1, <2>2, <3>1, <3>2, ReplaceStays
    <2>4. CASE a # "keep_timer"
      <3>1. a = "cancel_timer"
        BY <2>4 DEF Flag
      <3>2. /\ <<StopTimer("timer")>> \o c \in Seq(Calls)
            /\ GoesAhead(<<StopTimer("timer")>> \o c)
        BY <2>1 DEF GoesAhead
      <3>3. Replace(t, <<StopTimer("timer")>> \o c)
        BY <1>2, <1>7, <3>1 DEF CloseOpen
      <3> QED
        BY <1>1, <1>3, <2>4, <3>2, <3>3, ReplaceStays
    <2> QED
      BY <2>3, <2>4
  <1> QED
    BY <1>5, <1>6, <1>7 DEF Closing

\* The timer callback disconnects and, when its disconnect is the last, goes
\* back to accepting, which on its stack either fails or is left to Windows.
LEMMA OperateStays ==
  ASSUME ~LateCallbacks, TypedAndFinite, TimerStays, NEW t \in Thread, Operate(t)
  PROVE  TimerStays'
  <1> USE DEF TypedAndFinite
  <1>1. CASE MisusedStart(t)
    BY <1>1 DEF MisusedStart, Breach, TimerStays, InCallback, OnStack
  <1>2. CASE StartsOperation(t)
    <2>1. /\ Running(t, "begin") /\ ~Idle(t) /\ On(t) \in Side /\ Op(t) \in Operation
          /\ Head(stack[t]).call = "begin"
      BY <1>2, OperationTyped, BeginHead DEF Running
    <2>2. ASSUME InCallback(t, "timer")
          PROVE  /\ Op(t) = "disconnect" \/ (On(t) = "server" /\ Op(t) = "accept")
                 /\ ~Settled(t)
      BY <2>1, <2>2, TimerHead, TimerFrameKinds DEF Op, On, Settled
    <2>3. CASE Pending(t)
      <3>1. Replace(t, Mark(On(t), Op(t)))
        BY <2>3 DEF Pending
      <3>2. Mark(On(t), Op(t)) \in Seq(Calls) /\ GoesAhead(Mark(On(t), Op(t)))
        <4>1. CASE Op(t) \in Tracked
          <5>1. Mark(On(t), Op(t)) = <<SetPending(On(t), Op(t))>>
            BY <4>1 DEF Mark, SetPending
          <5>2. SetPending(On(t), Op(t)) \in Calls /\ SetPending(On(t), Op(t)).call # "timer_end"
            BY <2>1, <4>1 DEF SetPending, Calls, Frame
          <5> QED
            BY <5>1, <5>2 DEF GoesAhead
        <4>2. CASE Op(t) \notin Tracked
          BY <4>2 DEF Mark, GoesAhead
        <4> QED
          BY <4>1, <4>2
      <3>3. ASSUME InCallback(t, "timer") PROVE Mark(On(t), Op(t)) \in Seq(TimerCallFrames)
        BY <2>2, <3>3, ProxyAssumption DEF Mark
      <3> QED
        BY <2>1, <3>1, <3>2, <3>3, ReplaceStays
    <2>4. ASSUME NEW r \in {"done", "error"}, AtOnce(t, r) PROVE TimerStays'
      <3> DEFINE f == Complete(On(t), Op(t), r)
      <3>1. Replace(t, <<f>>)
        BY <2>4 DEF AtOnce
      <3>2. f \in Calls /\ f.call # "timer_end"
        BY <2>1, <2>4, FramesAreCalls, FrameFields DEF Outcome
      <3>3. <<f>> \in Seq(Calls) /\ GoesAhead(<<f>>)
        BY <3>2 DEF GoesAhead
      <3>4. CASE ~InCallback(t, "timer")
        BY <2>1, <3>1, <3>3, <3>4, ReplaceStays
      <3>5. CASE InCallback(t, "timer") /\ Op(t) = "disconnect"
        <4>1. f \in TimerCallFrames
          BY <2>1, <2>4, <3>5, TimerFramesMade DEF Outcome
        <4> HIDE DEF f
        <4>2. <<f>> \in Seq(TimerCallFrames)
          BY <4>1
        <4> QED
          BY <2>1, <3>1, <3>3, <4>2, ReplaceStays
      <3>6. CASE InCallback(t, "timer") /\ On(t) = "server" /\ Op(t) = "accept"
        <4>1. Pending(t) \/ AtOnce(t, "error")
          BY <1>2, <2>2, <3>6, AcceptsAtOnce
        <4>2. CASE Pending(t)
          BY <2>3, <4>2
        <4>3. CASE AtOnce(t, "error")
          <5>1. Replace(t, <<Complete("server", "accept", "error")>>)
            BY <3>6, <4>3 DEF AtOnce
          <5>2. /\ Complete("server", "accept", "error") \in Calls
                /\ Complete("server", "accept", "error").call # "timer_end"
                /\ Complete("server", "accept", "error") \in TimerCallFrames
            BY FramesAreCalls, FrameFields, TimerFramesMade DEF Side, Operation, Outcome
          <5>3. /\ <<Complete("server", "accept", "error")>> \in Seq(Calls)
                /\ <<Complete("server", "accept", "error")>> \in Seq(TimerCallFrames)
                /\ GoesAhead(<<Complete("server", "accept", "error")>>)
            BY <5>2 DEF GoesAhead
          <5> QED
            BY <2>1, <5>1, <5>3, ReplaceStays
        <4> QED
          BY <4>1, <4>2, <4>3
      <3> QED
        BY <2>2, <3>4, <3>5, <3>6
    <2> QED
      BY <1>2, <2>3, <2>4, OperationTyped
  <1>3. CASE Cancel(t) \/ SetIoPending(t)
    <2>1. Replace(t, <<>>) /\ ~Idle(t)
      BY <1>3 DEF Cancel, SetIoPending, Return, Running
    <2>2. GoesAhead(<<>>) /\ <<>> \in Seq(Calls) /\ <<>> \in Seq(TimerCallFrames)
      BY DEF GoesAhead
    <2> QED
      BY <2>1, <2>2, ReplaceStays
  <1> QED
    BY <1>1, <1>2, <1>3 DEF Operate, StartsOperation

LEMMA TimeStays ==
  ASSUME Typed, TimerStays, NEW t \in Thread, Time(t)
  PROVE  TimerStays'
  <1>1. GoesAhead(<<>>) /\ <<>> \in Seq(Calls) /\ <<>> \in Seq(TimerCallFrames)
    BY DEF GoesAhead
  <1>2. CASE Disarm(t)
    <2>1. Head(stack[t]) \in Calls /\ Head(stack[t]).call = "stop_timer" /\ ~Idle(t)
      BY <1>2, HeadIsCall DEF Disarm, Running
    <2>2. Replace(t, <<AwaitTimer("timer")>>)
      BY <1>2, <2>1, CallNamed DEF Disarm, On
    <2>3. AwaitTimer("timer") \in Calls /\ AwaitTimer("timer").call = "await_timer"
      BY FramesAreCalls, FrameFields
    <2>4. <<AwaitTimer("timer")>> \in Seq(Calls) /\ GoesAhead(<<AwaitTimer("timer")>>)
      BY <2>3 DEF GoesAhead
    <2>5. ~InCallback(t, "timer")
      BY <2>1, TimerHead, TimerFrameKinds
    <2> QED
      BY <2>1, <2>2, <2>4, <2>5, ReplaceStays
  <1>3. CASE CallbacksAwaited(t) \/ CallbackEnds(t)
    <2>1. Replace(t, <<>>) /\ ~Idle(t)
      BY <1>3 DEF CallbacksAwaited, CallbackEnds, Return, Running
    <2> QED
      BY <1>1, <2>1, ReplaceStays
  <1> QED
    BY <1>2, <1>3 DEF Time

LEMMA TimerStaysStep ==
  ~LateCallbacks /\ TypedAndFinite /\ TimerStays /\ [Next]_vars => TimerStays'
  <1> SUFFICES ASSUME ~LateCallbacks, TypedAndFinite, TimerStays, [Next]_vars
               PROVE  TimerStays'
    OBVIOUS
  <1>1. Typed
    BY DEF TypedAndFinite
  <1>2. ASSUME NEW t \in Pool, NEW s \in Side, NEW op \in Operation, NEW r \in Outcome,
               Completion(t, s, op, r)
        PROVE  TimerStays'
    <2>1. Start(t, <<Complete(s, op, r)>>)
      BY <1>2 DEF Completion, Deliver
    <2>2. Complete(s, op, r) \in Calls /\ Complete(s, op, r).call = "complete"
      BY FramesAreCalls, FrameFields
    <2>3. <<Complete(s, op, r)>> \in Seq(Calls) /\ GoesAhead(<<Complete(s, op, r)>>)
      BY <2>2 DEF GoesAhead
    <2> QED
      BY <1>1, <2>1, <2>3, StartStays
  <1>3. ASSUME NEW t \in Pool, TimerExpires(t) PROVE TimerStays'
    <2> DEFINE c == <<Close("client", "keep_timer"), Close("server", "keep_timer"), TimerEnd("timer")>>
    <2>1. Start(t, c)
      <3>1. c = TimerCalls \o <<TimerEnd("timer")>>
        BY DEF TimerCalls, CloseConnections
      <3> QED
        BY <1>3, <3>1 DEF TimerExpires, Expire
    <2>2. /\ Close("client", "keep_timer") \in Calls \cap TimerCallFrames
          /\ Close("server", "keep_timer") \in Calls \cap TimerCallFrames
          /\ TimerEnd("timer") \in Calls \cap TimerCallFrames
      BY FramesAreCalls, TimerFramesMade DEF Side, Flag
    <2>3. c \in Seq(Calls) /\ c \in Seq(TimerCallFrames)
      BY <2>2
    <2> QED
      BY <1>1, <2>1, <2>3, StartStays
  <1>4. CASE UNCHANGED vars
    BY <1>4 DEF vars, TimerStays, InCallback, OnStack
  <1> QED
    BY <1>1, <1>2, <1>3, <1>4, CallbackStays, ClosingStays, OperateStays, TimeStays
       DEF Next, Execute, Undefined

LEMMA TimerStaysInit == Init => TimerStays
  <1> SUFFICES ASSUME Init, NEW t \in Thread PROVE ~InCallback(t, "timer")
    BY DEF TimerStays
  <1>1. stack[t] = <<>> \/ stack[t] = <<First>>
    BY DEF Init, First
  <1>2. First.call # TimerEnd("timer").call
    BY FrameFields DEF First
  <1> QED
    BY <1>1, <1>2 DEF InCallback, OnStack

\* Of timer() itself, and of what closing does as long as no accept succeeds
\* before the calls of the last connection have returned: nothing of it
\* cancels the timer.  With late callbacks this is not so.
LEMMA TimerNeverWaits ==
  ASSUME ~LateCallbacks
  PROVE  Spec => []TimerNeverAwaitsItself
  <1>1. Init => TimerStays
    BY TimerStaysInit
  <1>2. TypedAndFinite /\ TimerStays /\ [Next]_vars => TimerStays'
    BY TimerStaysStep
  <1>3. Typed /\ TimerStays => TimerNeverAwaitsItself
    BY TimerHead, TimerFrameKinds DEF TimerNeverAwaitsItself, Running
  <1>4. TypedAndFinite => Typed
    BY DEF TypedAndFinite
  <1> QED
    BY <1>1, <1>2, <1>3, <1>4, TypedHolds, PTL DEF Spec

=============================================================================

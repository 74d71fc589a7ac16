------------------------------- MODULE Proxy -------------------------------
(***************************************************************************)
(* One connection of the TCP proxy (net/tcp/proxy.cpp): the server side,   *)
(* which accepts from the listening socket, the client side, which         *)
(* connects to the remote host, the two directions data is transferred in, *)
(* the one timer they share and the way the connection is closed by        *)
(* whichever thread finds a reason to and returns to accepting.            *)
(*                                                                         *)
(* All of it runs on the threads of the pool, without a lock but for the   *)
(* two spin locks close() takes.                                           *)
(***************************************************************************)
EXTENDS StreamSocket, Timer, Naturals

CONSTANTS
  SlowConnect,    \* may the timer fire before the client is connected?
  LateCallbacks,  \* may a connection be accepted while calls of the last
                  \* one are still being executed or completed?
  MaxDepth,       \* bound: calls left on a stack that accepts at once
  Talkers,        \* the sides whose peer sends data
  CounterSize     \* the number of values of _M_nconnections

Side == {"server", "client"}

ASSUME ProxyAssumption ==
  /\ Sock = Side
  /\ Tracked = {"receive", "send"}
  /\ Timers = {"timer"}
  /\ Purpose = {"connect", "transfer"}
  /\ SlowConnect \in BOOLEAN
  /\ LateCallbacks \in BOOLEAN
  /\ MaxDepth \in Nat
  /\ Talkers \subseteq Side
  /\ CounterSize \in Nat /\ CounterSize > 2

VARIABLES
  open,           \* _M_open of each side
  mutex,          \* _M_mutex of each side
  nconnections    \* _M_nconnections of the server side

ownVars == <<armed, open, mutex, nconnections>>
vars == <<stack, socketVars, ownVars>>

\* close() of one side; the server side may have to cancel the timer.
Close(s, timer)       == Frame("close", s, "none", timer)
TestOpen(s, timer)    == Frame("test_open", s, "none", timer)
ClearOpen(s, timer)   == Frame("clear_open", s, "none", timer)

\* server::close_connections()
CloseConnections(timer) == <<Close("client", "keep_timer"), Close("server", timer)>>

Calls ==
  [call : {"begin"}, on : Side, op : Operation, arg : {"none"}]
  \cup [call : {"cancel", "io_pending"}, on : Side, op : Tracked, arg : {"none"}]
  \cup [call : {"complete"}, on : Side, op : Operation, arg : Outcome]
  \cup [call : {"close", "test_open", "clear_open"},
        on : Side, op : {"none"}, arg : {"cancel_timer", "keep_timer"}]
  \cup {StopTimer("timer"), AwaitTimer("timer"), TimerEnd("timer")}

\* While the timer fires only for a connection that has been established and
\* nothing late is left of the last one, _M_nconnections never wraps: no side
\* is disconnected that has not been counted.
TypeOK ==
  /\ SocketTypeOK
  /\ TimerTypeOK
  /\ stack \in [Thread -> Seq(Calls)]
  /\ open \in [Side -> BOOLEAN]
  /\ mutex \in [Side -> BOOLEAN]
  /\ nconnections \in 0 .. IF SlowConnect \/ LateCallbacks THEN CounterSize - 1 ELSE 2

-----------------------------------------------------------------------------
\* acceptor::listen(), run by main(), has created the connection and is about
\* to start its first accept, which may end at once, on the stack of main().
Init ==
  /\ stack = [t \in Thread |-> IF t = Main THEN <<Begin("server", "accept")>> ELSE <<>>]
  /\ SocketInit
  /\ TimerInit
  /\ open = [s \in Side |-> FALSE]
  /\ mutex = [s \in Side |-> FALSE]
  /\ nconnections = 0

\* complete() of one side: operation op ended with outcome r.
Told(t, s, op, r) ==
  /\ Running(t, "complete")
  /\ On(t) = s
  /\ Op(t) = op
  /\ Arg(t) = r

\* Mutant of Accepted: the first connection is not counted.
AcceptedNotCounted(t) ==
  /\ Told(t, "server", "accept", "done")
  /\ open' = [open EXCEPT !["server"] = TRUE]
  /\ ExpiresIn("timer", "connect")
  /\ Replace(t, <<Begin("client", "connect")>>)
  /\ UNCHANGED <<socketVars, mutex, nconnections>>

\* server::accepted() and server::connect()
Accepted(t) ==
  /\ Told(t, "server", "accept", "done")
  /\ nconnections' = 1
  /\ open' = [open EXCEPT !["server"] = TRUE]
  /\ ExpiresIn("timer", "connect")
  /\ Replace(t, <<Begin("client", "connect")>>)
  /\ UNCHANGED <<socketVars, mutex>>

\* Mutant of AcceptFailed: the accept is not started again.
AcceptNotRetried(t) ==
  /\ Told(t, "server", "accept", "error")
  /\ Return(t)
  /\ UNCHANGED <<socketVars, ownVars>>

AcceptFailed(t) ==
  /\ Told(t, "server", "accept", "error")
  /\ Replace(t, <<Begin("server", "accept")>>)
  /\ UNCHANGED <<socketVars, ownVars>>

\* Mutant of Connected: the second connection is not counted.
ConnectedNotCounted(t) ==
  /\ Told(t, "client", "connect", "done")
  /\ open' = [open EXCEPT !["client"] = TRUE]
  /\ Replace(t, <<StopTimer("timer"), Begin("server", "receive"), Begin("client", "receive")>>)
  /\ UNCHANGED <<socketVars, armed, mutex, nconnections>>

\* client::connected(), server::connected(), server::receive() and
\* client::receive()
Connected(t) ==
  /\ Told(t, "client", "connect", "done")
  /\ open' = [open EXCEPT !["client"] = TRUE]
  /\ nconnections' = 2
  /\ Replace(t, <<StopTimer("timer"), Begin("server", "receive"), Begin("client", "receive")>>)
  /\ UNCHANGED <<socketVars, armed, mutex>>

ConnectFailed(t) ==
  /\ Told(t, "client", "connect", "error")
  /\ Replace(t, <<Close("server", "cancel_timer")>>)
  /\ UNCHANGED <<socketVars, ownVars>>

\* server::received() of some data, which the client sends
ServerReceived(t) ==
  /\ Told(t, "server", "receive", "done")
  /\ "server" \in Talkers
  /\ ExpiresIn("timer", "transfer")
  /\ Replace(t, <<Begin("client", "send")>>)
  /\ UNCHANGED <<socketVars, open, mutex, nconnections>>

\* client::received() of some data, and server::send() of it
ClientReceived(t) ==
  /\ Told(t, "client", "receive", "done")
  /\ "client" \in Talkers
  /\ ExpiresIn("timer", "transfer")
  /\ Replace(t, <<Begin("server", "send")>>)
  /\ UNCHANGED <<socketVars, open, mutex, nconnections>>

\* received() of nothing: the peer has finished sending.
PeerClosed(t) ==
  /\ \E s \in Side : Told(t, s, "receive", "done")
  /\ Replace(t, CloseConnections("cancel_timer"))
  /\ UNCHANGED <<socketVars, ownVars>>

\* server::sent() of everything: stop the timer and read from the client
ServerSent(t) ==
  /\ Told(t, "server", "send", "done")
  /\ Replace(t, <<StopTimer("timer"), Begin("client", "receive")>>)
  /\ UNCHANGED <<socketVars, ownVars>>

\* client::sent() of everything, and server::receive(), which stops the timer
ClientSent(t) ==
  /\ Told(t, "client", "send", "done")
  /\ Replace(t, <<StopTimer("timer"), Begin("server", "receive")>>)
  /\ UNCHANGED <<socketVars, ownVars>>

\* sent() of less: send the rest; only server::send() starts the timer
ServerSentPart(t) ==
  /\ Told(t, "server", "send", "done")
  /\ ExpiresIn("timer", "transfer")
  /\ Replace(t, <<Begin("server", "send")>>)
  /\ UNCHANGED <<socketVars, open, mutex, nconnections>>

\* Mutant of ClientSentPart: the buffer is filled again before the rest is sent.
ReadsBeforeRest(t) ==
  /\ Told(t, "client", "send", "done")
  /\ Replace(t, <<Begin("client", "send"), StopTimer("timer"), Begin("server", "receive")>>)
  /\ UNCHANGED <<socketVars, ownVars>>

ClientSentPart(t) ==
  /\ Told(t, "client", "send", "done")
  /\ Replace(t, <<Begin("client", "send")>>)
  /\ UNCHANGED <<socketVars, ownVars>>

TransferFailed(t) ==
  /\ \E s \in Side, op \in {"receive", "send"} : Told(t, s, op, "error")
  /\ Replace(t, CloseConnections("cancel_timer"))
  /\ UNCHANGED <<socketVars, ownVars>>

\* A cancelled transfer is not reported: whoever cancelled it closes.
TransferAborted(t) ==
  /\ \E s \in Side, op \in {"receive", "send"} : Told(t, s, op, "aborted")
  /\ Return(t)
  /\ UNCHANGED <<socketVars, ownVars>>

\* Mutant of Disconnected: the first disconnect starts the next accept.
AcceptsAfterFirst(t) ==
  LET left == (nconnections + CounterSize - 1) % CounterSize
  IN /\ \E s \in Side, r \in Outcome : Told(t, s, "disconnect", r)
     /\ nconnections' = left
     /\ Replace(t, IF left <= 1 THEN <<Begin("server", "accept")>> ELSE <<>>)
     /\ UNCHANGED <<socketVars, armed, open, mutex>>

\* server::disconnected(), for either side and whatever the outcome: the
\* second of the two starts the next accept.
Disconnected(t) ==
  LET left == (nconnections + CounterSize - 1) % CounterSize
  IN /\ \E s \in Side, r \in Outcome : Told(t, s, "disconnect", r)
     /\ nconnections' = left
     /\ Replace(t, IF left = 0 THEN <<Begin("server", "accept")>> ELSE <<>>)
     /\ UNCHANGED <<socketVars, armed, open, mutex>>

Callback(t) ==
  \/ Accepted(t)
  \/ AcceptFailed(t)
  \/ Connected(t)
  \/ ConnectFailed(t)
  \/ ServerReceived(t)
  \/ ClientReceived(t)
  \/ PeerClosed(t)
  \/ ServerSent(t)
  \/ ClientSent(t)
  \/ ServerSentPart(t)
  \/ ClientSentPart(t)
  \/ TransferFailed(t)
  \/ TransferAborted(t)
  \/ Disconnected(t)

-----------------------------------------------------------------------------
(* server::close() and client::close().                                    *)

\* InterlockedCompareExchange(&_M_mutex, 1, 0), which spins while it is 1.
Lock(t) ==
  /\ Running(t, "close")
  /\ ~mutex[On(t)]
  /\ mutex' = [mutex EXCEPT ![On(t)] = TRUE]
  /\ Replace(t, <<TestOpen(On(t), Arg(t))>>)
  /\ UNCHANGED <<socketVars, armed, open, nconnections>>

\* Mutant of AlreadyClosed: close() tries again.
ClosesAgain(t) ==
  /\ Running(t, "test_open")
  /\ ~open[On(t)]
  /\ mutex' = [mutex EXCEPT ![On(t)] = FALSE]
  /\ Replace(t, <<Close(On(t), Arg(t))>>)
  /\ UNCHANGED <<socketVars, armed, open, nconnections>>

\* Somebody else closes this side: unlock.
AlreadyClosed(t) ==
  /\ Running(t, "test_open")
  /\ ~open[On(t)]
  /\ mutex' = [mutex EXCEPT ![On(t)] = FALSE]
  /\ Return(t)
  /\ UNCHANGED <<socketVars, armed, open, nconnections>>

FoundOpen(t) ==
  /\ Running(t, "test_open")
  /\ open[On(t)]
  /\ Replace(t, <<ClearOpen(On(t), Arg(t))>>)
  /\ UNCHANGED <<socketVars, ownVars>>

\* Mutant of CloseOpen: the lock is not released.
NotUnlocked(t) ==
  LET s == On(t)
      timer == IF Arg(t) = "cancel_timer" THEN <<StopTimer("timer")>> ELSE <<>>
  IN /\ Running(t, "clear_open")
     /\ open' = [open EXCEPT ![s] = FALSE]
     /\ Replace(t, timer \o <<CancelIo(s, "receive"), CancelIo(s, "send"),
                              Begin(s, "disconnect")>>)
     /\ UNCHANGED <<socketVars, armed, nconnections, mutex>>

\* Unlock, stop the timer, cancel the transfers and disconnect.
CloseOpen(t) ==
  LET s == On(t)
      timer == IF Arg(t) = "cancel_timer" THEN <<StopTimer("timer")>> ELSE <<>>
  IN /\ Running(t, "clear_open")
     /\ open' = [open EXCEPT ![s] = FALSE]
     /\ mutex' = [mutex EXCEPT ![s] = FALSE]
     /\ Replace(t, timer \o <<CancelIo(s, "receive"), CancelIo(s, "send"),
                              Begin(s, "disconnect")>>)
     /\ UNCHANGED <<socketVars, armed, nconnections>>

Closing(t) == Lock(t) \/ AlreadyClosed(t) \/ FoundOpen(t) \/ CloseOpen(t)

-----------------------------------------------------------------------------
\* Nothing of the last connection is left but, possibly, the head of t's
\* stack and the accept itself.
Settled(t) ==
  /\ \A u \in Thread \ {t} : Idle(u)
  /\ Len(stack[t]) <= 1
  /\ \A s \in Side, op \in Operation : InUse(s, op) => op = "accept"

\* When can an accept succeed?
MayAccept(t) == Settled(t) \/ (LateCallbacks /\ Len(stack[t]) <= MaxDepth)

AtOnceOutcomes(t) ==
  IF Op(t) = "accept" /\ ~MayAccept(t) THEN {"error"} ELSE {"done", "error"}

Operate(t) ==
  /\ \/ MisusedStart(t)
     \/ Establish(t, AtOnceOutcomes(t))
     \/ Transfer(t)
     \/ Disconnect(t)
     \/ Cancel(t)
     \/ SetIoPending(t)
  /\ UNCHANGED ownVars

\* timer::cancel() and the return of the timer callback.
Time(t) ==
  /\ Disarm(t) \/ CallbacksAwaited(t) \/ CallbackEnds(t)
  /\ UNCHANGED <<socketVars, open, mutex, nconnections>>

\* The thread that waits for the timer callbacks is woken up.
Awake(t) == fault = "none" /\ Running(t, "await_timer") /\ Time(t)

Execute(t) == fault = "none" /\ (Callback(t) \/ Closing(t) \/ Operate(t) \/ Time(t))

Completion(t, s, op, r) ==
  /\ fault = "none"
  /\ op = "accept" /\ r = "done" => MayAccept(t)
  /\ Deliver(t, s, op, r)
  /\ UNCHANGED ownVars

\* Mutant of TimerCalls: the timer is cancelled, as everywhere else.
TimerCallsCancel == CloseConnections("cancel_timer")

TimerCalls == CloseConnections("keep_timer")

\* server::timer(): "Do not cancel the timer".  A timer the last connection
\* has left set may expire while the next one is being accepted.
TimerExpires(t) ==
  /\ fault = "none"
  /\ armed["timer"] = "connect" => SlowConnect
  /\ LateCallbacks \/ \A u \in Thread : ~OnStack(u, Complete("server", "accept", "done"))
  /\ Expire(t, "timer", TimerCalls)
  /\ UNCHANGED <<socketVars, open, mutex, nconnections>>

\* After a breach anything may happen; the model stops.
Undefined == fault # "none" /\ UNCHANGED vars

Next ==
  \/ \E t \in Thread : Execute(t)
  \/ \E t \in Pool, s \in Side, op \in Operation, r \in Outcome :
       Completion(t, s, op, r)
  \/ \E t \in Pool : TimerExpires(t)
  \/ Undefined

Spec == Init /\ [][Next]_vars

\* Every thread is scheduled, and one that waits for the timer callbacks is
\* woken up between two of them: they are seconds apart.  Windows completes
\* what does not depend on the peer: connects and disconnects, and transfers
\* that have been cancelled.
Due(s, op) == op \in {"connect", "disconnect"} \/ inflight[s][op] = "doomed"

Fairness ==
  /\ \A t \in Thread : WF_vars(Execute(t)) /\ SF_vars(Awake(t))
  /\ \A s \in Side, op \in Operation \ {"accept"} :
       WF_vars(Due(s, op) /\ \E t \in Pool, r \in Outcome : Completion(t, s, op, r))

FairSpec == Spec /\ Fairness

-----------------------------------------------------------------------------
(* Properties.                                                             *)

\* A call on s for op that will start it, or tell what came of it.
HasCall(s, op) ==
  \E t \in Thread : \E i \in DOMAIN stack[t] :
    /\ stack[t][i].on = s
    /\ stack[t][i].op = op
    /\ stack[t][i].call \in {"begin", "complete"}

\* op is going on at side s: on a stack or in Windows.
Ongoing(s, op) == HasCall(s, op) \/ InUse(s, op)

Accepting == Ongoing("server", "accept")

\* _M_nconnections counts the sides that still have to be disconnected,
\* open or being closed, whoever closes them and in whatever order the two
\* disconnects end: so the last one, and it only, starts the next accept.
CountsOpenSides ==
  nconnections = Cardinality({s \in Side : open[s] \/ Ongoing(s, "disconnect")})

\* The connection is reused only when nothing of it is open: an accept
\* starts when both sides have been closed, nobody closes one still and the
\* client is not being connected.
AcceptsOnlyWhenClosed ==
  Accepting => \A s \in Side : /\ ~open[s]
                               /\ ~Ongoing(s, "disconnect")
                               /\ ~Ongoing(s, "connect")

\* What each side is to somebody who sees only the sessions.
SideSeen(s) ==
  IF open[s] THEN "open" ELSE IF Ongoing(s, "disconnect") THEN "closing" ELSE "idle"

Slot == INSTANCE ConnectionSlot WITH
  Server <- "server", Client <- "client",
  accepting <- Accepting,
  side <- [s \in Side |-> SideSeen(s)]

\* The flags, the counter, the locks and the threads of a proxy connection
\* implement a slot whose sessions do not overlap: however its closes meet,
\* each side is closed once and the last disconnect, not the first, is the
\* step that accepts again.
ImplementsSlot == Slot!SlotSpec

\* The receive buffer of a side belongs to one operation at a time: to the
\* receive that fills it or to the send of the other side that empties it.
Uses(s) ==
  LET to == IF s = "server" THEN "client" ELSE "server"
      users == {<<s, "receive">>, <<to, "send">>}
      calls == UNION {{t} \X {i \in DOMAIN stack[t] :
                                /\ stack[t][i].call \in {"begin", "complete"}
                                /\ <<stack[t][i].on, stack[t][i].op>> \in users} :
                      t \in Thread}
  IN Cardinality(calls) + Cardinality({u \in users : InUse(u[1], u[2])})

BufferHasOneUser == \A s \in Side : Uses(s) <= 1

\* No OVERLAPPED is handed to Windows while it is in use, and no handle is
\* overwritten while it is open.
NoReuse == fault \notin {"overlapped_reuse", "handle_leak"}

\* close() never waits for the timer with its lock taken, so that a timer
\* callback that wants the lock can end: who holds a lock is running.
LockHolderRuns ==
  \A s \in Side : mutex[s] => \E t \in Thread : /\ Running(t, "test_open") \/ Running(t, "clear_open")
                                                /\ On(t) = s

\* "Do not cancel the timer, otherwise this function won't be further
\* executed": no callback of the timer waits for itself.
TimerNeverAwaitsItself ==
  \A t \in Thread : ~(Running(t, "await_timer") /\ InCallback(t, "timer"))

\* No StartThreadpoolIo() with an I/O completion object that is released.
NeverUsesClosedSocket == fault # "null_io"

\* The connection is never lost: something goes on at any time, a call, an
\* operation in Windows or the timer.
NeverLost ==
  \/ \E t \in Thread : ~Idle(t)
  \/ \E s \in Side, op \in Operation : InUse(s, op)

\* A connection one thread has begun to close is closed on both sides and
\* goes back to accepting.
ClosedConnectionAccepts ==
  (\E t \in Thread : Running(t, "clear_open")) ~> (Accepting \/ fault # "none")

=============================================================================

------------------------------ MODULE Connector ------------------------------
(***************************************************************************)
(* test-connector (test-connector.cpp): class connection opens a           *)
(* connection, sends the data a number of times, disconnects and starts    *)
(* again; class connections starts all of them and counts the ones that    *)
(* are still running, and the last one to finish sets the event main()     *)
(* waits for.  A connection is identified with its socket.                 *)
(***************************************************************************)
EXTENDS StreamSocket, Naturals

CONSTANTS Transfers,   \* number_transfers_per_connection()
          Loops,       \* number_loops()
          Length       \* length(): the size of the data of one transfer

ASSUME ConnectorAssumption ==
  /\ Transfers \in Nat \ {0}
  /\ Loops \in Nat \ {0}
  /\ Length \in Nat \ {0}
  /\ IsFiniteSet(Sock)
  /\ Sock = 1 .. Cardinality(Sock)        \* in the order they are created
  /\ "send" \in Tracked    \* close() looks at its flag; nobody looks at
  /\ Tracked \subseteq {"connect", "send", "disconnect"}  \* the others

VARIABLES
  ntransfers,    \* _M_ntransfers of each connection
  nloops,        \* _M_nloops of each connection
  left,          \* _M_sendbuf.length: what is still to be sent
  nrunning,      \* connections::_M_nrunning
  stop_event     \* is the event set?

ownVars == <<ntransfers, nloops, left, nrunning, stop_event>>
vars == <<stack, socketVars, ownVars>>

Calls == [call : {"begin", "cancel", "complete", "io_pending"},
          on : Sock, op : Operation, arg : Outcome \cup {"none"}]

TypeOK ==
  /\ SocketTypeOK
  /\ stack \in [Thread -> Seq(Calls)]
  /\ ntransfers \in [Sock -> 0 .. Transfers]
  /\ nloops \in [Sock -> 0 .. Loops]
  /\ left \in [Sock -> 0 .. Length]
  /\ nrunning \in 0 .. Cardinality(Sock)
  /\ stop_event \in BOOLEAN

-----------------------------------------------------------------------------
\* connections::create(): main() connects one connection after the other,
\* while the pool already runs the callbacks of the first ones.
Init ==
  /\ SocketInit
  /\ stack = [t \in Thread |->
                IF t = Main THEN [c \in Sock |-> Begin(c, "connect")] ELSE <<>>]
  /\ ntransfers = [c \in Sock |-> 0]
  /\ nloops = [c \in Sock |-> 0]
  /\ left = [c \in Sock |-> 0]
  /\ nrunning = Cardinality(Sock)
  /\ stop_event = FALSE

\* connection::complete(): thread t is told that operation op of the
\* connection ended with one of the outcomes.
Told(t, op, outcomes) ==
  /\ Running(t, "complete")
  /\ Op(t) = op
  /\ Arg(t) \in outcomes

\* Is there another transfer to do on this connection, after n of them?
TransferTooMany(n) == n <= Transfers    \* mutant: off by one

TransfersAgain(n) == n < Transfers

\* Is there another loop to do, after n of them?
LoopTooMany(n) == n <= Loops            \* mutant: off by one

LoopsAgain(n) == n < Loops

\* Has the last running connection ended, when n are left?
LastButOne(n) == n <= 1                 \* mutant: the event is set too early

LastOne(n) == n = 0

\* connection::close()
CloseCalls(c) == <<CancelIo(c, "send"), Begin(c, "disconnect")>>

\* Mutant of Connected: the transfers are not counted from 0 again.
CountedOn(t) ==
  /\ Told(t, "connect", {"done"})
  /\ left' = [left EXCEPT ![On(t)] = Length]
  /\ Replace(t, <<Begin(On(t), "send")>>)
  /\ UNCHANGED <<socketVars, ntransfers, nloops, nrunning, stop_event>>

\* connection::connected()
Connected(t) ==
  LET c == On(t)
  IN /\ Told(t, "connect", {"done"})
     /\ ntransfers' = [ntransfers EXCEPT ![c] = 0]
     /\ left' = [left EXCEPT ![c] = Length]
     /\ Replace(t, <<Begin(c, "send")>>)
     /\ UNCHANGED <<socketVars, nloops, nrunning, stop_event>>

\* connection::sent(), not everything: send the rest.
SentPart(t) ==
  LET c == On(t)
  IN /\ Told(t, "send", {"done"})
     /\ \E count \in 1 .. left[c] - 1 : left' = [left EXCEPT ![c] = @ - count]
     /\ Replace(t, <<Begin(c, "send")>>)
     /\ UNCHANGED <<socketVars, ntransfers, nloops, nrunning, stop_event>>

\* Mutants of SentAll: the close is not the alternative to the next transfer,
\* and ntransfers is not incremented.
SendsAndCloses(t) ==
  /\ Told(t, "send", {"done"})
  /\ ntransfers' = ntransfers
  /\ left' = [left EXCEPT ![On(t)] = Length]
  /\ Replace(t, <<Begin(On(t), "send")>> \o CloseCalls(On(t)))
  /\ UNCHANGED <<socketVars, nloops, nrunning, stop_event>>

TransferNotCounted(t) ==
  LET c == On(t)
      again == TransfersAgain(ntransfers[c] + 1)
  IN /\ Told(t, "send", {"done"})
     /\ left' = IF again THEN [left EXCEPT ![c] = Length] ELSE left
     /\ Replace(t, IF again THEN <<Begin(c, "send")>> ELSE CloseCalls(c))
     /\ UNCHANGED <<socketVars, ntransfers, nloops, nrunning, stop_event>>

\* connection::sent(), everything: the next transfer, or close().
SentAll(t) ==
  LET c == On(t)
      again == TransfersAgain(ntransfers[c] + 1)
  IN /\ Told(t, "send", {"done"})
     /\ ntransfers' = [ntransfers EXCEPT ![c] = @ + 1]
     /\ left' = IF again THEN [left EXCEPT ![c] = Length] ELSE left
     /\ Replace(t, IF again THEN <<Begin(c, "send")>> ELSE CloseCalls(c))
     /\ UNCHANGED <<socketVars, nloops, nrunning, stop_event>>

\* Mutant of SendFailed: reconnect without closing.
ReconnectsUnclosed(t) ==
  /\ Told(t, "send", {"error"})
  /\ Replace(t, <<Begin(On(t), "connect")>>)
  /\ UNCHANGED <<socketVars, ownVars>>

\* Mutant of SendFailed: the connection is dropped.
DroppedSilently(t) ==
  /\ Told(t, "send", {"error"})
  /\ Return(t)
  /\ UNCHANGED <<socketVars, ownVars>>

SendFailed(t) ==
  /\ Told(t, "send", {"error"})
  /\ Replace(t, CloseCalls(On(t)))
  /\ UNCHANGED <<socketVars, ownVars>>

\* connection::disconnected(), whether or not the disconnect succeeded.
Disconnected(t) ==
  LET c == On(t)
  IN /\ Told(t, "disconnect", {"done", "error"})
     /\ nloops' = [nloops EXCEPT ![c] = @ + 1]
     /\ IF LoopsAgain(nloops'[c])
        THEN /\ Replace(t, <<Begin(c, "connect")>>)
             /\ UNCHANGED <<nrunning, stop_event>>
        ELSE /\ Return(t)
             /\ nrunning' = nrunning - 1
             /\ stop_event' = (stop_event \/ LastOne(nrunning'))
     /\ UNCHANGED <<socketVars, ntransfers, left>>

\* complete() does nothing when the connection cannot be established, nor
\* when a send has been cancelled.
Ignored(t) ==
  /\ Running(t, "complete")
  /\ <<Op(t), Arg(t)>> \in {<<"connect", "error">>, <<"send", "aborted">>}
  /\ Return(t)
  /\ UNCHANGED <<socketVars, ownVars>>

Callback(t) ==
  \/ Connected(t)
  \/ SentPart(t)
  \/ SentAll(t)
  \/ SendFailed(t)
  \/ Disconnected(t)
  \/ Ignored(t)

Operate(t) ==
  /\ \/ MisusedStart(t)
     \/ Establish(t, {"done", "error"})
     \/ Transfer(t)
     \/ Disconnect(t)
     \/ Cancel(t)
     \/ SetIoPending(t)
  /\ UNCHANGED ownVars

Execute(t) == fault = "none" /\ (Callback(t) \/ Operate(t))

Completion(t, s, op, r) ==
  /\ fault = "none"
  /\ Deliver(t, s, op, r)
  /\ UNCHANGED ownVars

Next ==
  \/ \E t \in Thread : Execute(t)
  \/ \E t \in Pool, s \in Sock, op \in Operation, r \in Outcome :
       Completion(t, s, op, r)

Spec == Init /\ [][Next]_vars

\* As long as something can be done, something is done: a thread that is
\* ready runs and Windows completes what it has, a connect and a disconnect
\* by themselves, a send because the peer of the test keeps reading.
Fairness == WF_vars(Next)

FairSpec == Spec /\ Fairness

-----------------------------------------------------------------------------
(* Properties.                                                             *)

\* The calls that carry a connection forward; the late write of io_pending
\* and the cancellation of a send do not.
Carries(t, i, c) ==
  /\ stack[t][i].on = c
  /\ stack[t][i].call \in {"begin", "complete"}

OnCpu(c) == \E t \in Thread : \E i \in DOMAIN stack[t] : Carries(t, i, c)

InWindows(c) == \E op \in Operation : InUse(c, op)

Active(c) == OnCpu(c) \/ InWindows(c)

\* A connection is driven by one activity at a time, although every thread
\* of the pool runs callbacks without a lock: at most one call of it is on a
\* stack, or one operation of it is in flight, never both.
OneActivity ==
  \A c \in Sock :
    /\ \A t, u \in Thread :
         \A i \in DOMAIN stack[t], j \in DOMAIN stack[u] :
           Carries(t, i, c) /\ Carries(u, j, c) => t = u /\ i = j
    /\ OnCpu(c) => ~InWindows(c)
    /\ \A o, p \in Operation : InUse(c, o) /\ InUse(c, p) => o = p

\* No operation is started on a socket whose handle has been released, no
\* OVERLAPPED is handed to Windows twice and no handle is overwritten:
\* the sockets need no lock in this program.
NoBreach == fault = "none"

\* The handle of a connection that is about to execute the call f, and of one
\* that waits for Windows to complete op.
HandleAt(f) ==
  IF f.call = "begin"
  THEN IF f.op = "connect" THEN "closed" ELSE "up"
  ELSE IF f.op = "disconnect" \/ (f.op = "connect" /\ f.arg = "error")
       THEN "closed" ELSE "up"

HandleDuring(op) ==
  CASE op = "connect" -> "fresh" [] op = "send" -> "up" [] OTHER -> "down"

\* The connection c has a reason to do op.
HasToDo(c, op) ==
  /\ op \in {"connect", "send", "disconnect"}
  /\ nloops[c] < Loops
  /\ op = "send" => ntransfers[c] < Transfers

\* A connection that does something has a loop to do and, when it sends, a
\* transfer; and its handle is the one that call or operation needs, no other
\* thread having opened or closed it in the meantime.
InStep ==
  /\ \A t \in Thread : \A i \in DOMAIN stack[t] :
       Carries(t, i, stack[t][i].on) =>
         /\ HasToDo(stack[t][i].on, stack[t][i].op)
         /\ sock[stack[t][i].on] = HandleAt(stack[t][i])
  /\ \A c \in Sock, op \in Operation :
       InUse(c, op) => HasToDo(c, op) /\ sock[c] = HandleDuring(op)

\* InterlockedDecrement() happens once for each connection, when its last
\* loop ends: nrunning counts the connections with loops to go.
RunningCounted == nrunning = Cardinality({c \in Sock : nloops[c] < Loops})

\* The event main() waits for is never set before the last connection has
\* gone through all its loops: no callback is left to run, no operation to
\* start or to cancel, and Windows has nothing to complete.  What a thread of
\* the pool may still have to do is the write of io_pending(true) after an
\* operation that others have completed and gone on from; main(), which then
\* destroys the connections, does not wait for that.
EventMeansFinished ==
  stop_event =>
    /\ \A c \in Sock : nloops[c] = Loops /\ ~InWindows(c)
    /\ \A t \in Thread : \A i \in DOMAIN stack[t] : stack[t][i].call = "io_pending"

\* connection::complete() is told that connection c cannot be established.
CannotConnect(c) == \E t \in Thread : Told(t, "connect", {"error"}) /\ On(t) = c

\* Every connection comes to its end, by going through all its loops or by
\* failing to connect and in no other way: a send that fails, a disconnect
\* that fails or a part of the data that is left does not make it stop
\* half-way, and no loop goes on for ever.
EveryConnectionEnds ==
  \A c \in Sock : <>(nloops[c] = Loops \/ CannotConnect(c))

\* main(): "Wait for signal to arrive or tests to finish."  When nothing is
\* going on any more the tests are over and the event is set.
TestsFinish == stop_event \/ \E c \in Sock : Active(c)

=============================================================================

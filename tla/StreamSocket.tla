---------------------------- MODULE StreamSocket ----------------------------
(***************************************************************************)
(* net::async::stream::socket (net/async/stream/socket.cpp): overlapped    *)
(* stream sockets whose operations complete either at once, on the stack   *)
(* of the caller, or later, on a thread of the pool.  The operations and   *)
(* the completion callback are actions here; what the owner's callback     *)
(* does with a "complete" call is the owner's module.                      *)
(*                                                                         *)
(* The socket handle and the I/O completion object are created and         *)
(* released together and are one variable.  The first use of the Windows   *)
(* API outside its contract is recorded in fault, after which nothing      *)
(* happens any more: what the process does then is not defined.            *)
(***************************************************************************)
EXTENDS ThreadPool, FiniteSets

CONSTANTS Sock,      \* the sockets
          Tracked    \* the operations whose io_pending flag is modelled

Operation == {"accept", "connect", "receive", "send", "disconnect"}

\* accept and connect share one OVERLAPPED structure, _M_overlapped.
Establishing == {"accept", "connect"}

ASSUME TrackedAssumption == Tracked \subseteq Operation

VARIABLES
  sock,        \* closed: no handle; fresh: init() done; up: connected;
               \* down: a disconnect is pending
  io_pending,  \* the I/O pending flag of each OVERLAPPED
  inflight,    \* what Windows still has to complete
  fault        \* the first breach of the contract of the Windows API

socketVars == <<sock, io_pending, inflight, fault>>

Handle == {"closed", "fresh", "up", "down"}
Outcome == {"done", "error", "aborted"}
Flight == {"none", "active", "doomed"}
Fault == {"none", "null_io", "overlapped_reuse", "handle_leak"}

SocketTypeOK ==
  /\ sock \in [Sock -> Handle]
  /\ io_pending \in [Sock -> [Tracked -> BOOLEAN]]
  /\ inflight \in [Sock -> [Operation -> Flight]]
  /\ fault \in Fault

SocketInit ==
  /\ sock = [s \in Sock |-> "closed"]
  /\ io_pending = [s \in Sock |-> [op \in Tracked |-> FALSE]]
  /\ inflight = [s \in Sock |-> [op \in Operation |-> "none"]]
  /\ fault = "none"

-----------------------------------------------------------------------------
(* The calls.                                                              *)

Begin(s, op)       == Frame("begin", s, op, "none")
CancelIo(s, op)    == Frame("cancel", s, op, "none")
Complete(s, op, r) == Frame("complete", s, op, r)

\* `_M_overlapped.io_pending(true)' after WSA_IO_PENDING has been returned:
\* a step of its own, the operation may complete on another thread first.
Mark(s, op) ==
  IF op \in Tracked THEN <<Frame("io_pending", s, op, "none")>> ELSE <<>>

-----------------------------------------------------------------------------
(* Operations, executed by thread t.                                       *)

InUse(s, op) == inflight[s][op] # "none"

\* What is wrong with starting op on s: init() overwrites a handle that is
\* still open, StartThreadpoolIo() is given an I/O completion object that
\* has been released, or Windows still uses the OVERLAPPED.
Misuse(s, op) ==
  CASE op \in Establishing /\ sock[s] # "closed" -> "handle_leak"
    [] op \notin Establishing /\ sock[s] = "closed" -> "null_io"
    [] OTHER -> IF \E o \in IF op \in Establishing THEN Establishing ELSE {op} : InUse(s, o)
                THEN "overlapped_reuse"
                ELSE "none"

Breach(f) == /\ fault' = f
             /\ UNCHANGED <<stack, sock, io_pending, inflight>>

MisusedStart(t) ==
  /\ Running(t, "begin")
  /\ Misuse(On(t), Op(t)) # "none"
  /\ Breach(Misuse(On(t), Op(t)))

\* Thread t starts one of the operations ops, correctly.
Starts(t, ops) ==
  /\ Running(t, "begin")
  /\ Op(t) \in ops
  /\ Misuse(On(t), Op(t)) = "none"
  /\ UNCHANGED <<io_pending, fault>>

\* The operation ends at once: the callback runs on this stack.
AtOnce(t, r) == Replace(t, <<Complete(On(t), Op(t), r)>>)

\* WSA_IO_PENDING: Windows has the operation.
Pending(t) ==
  /\ inflight' = [inflight EXCEPT ![On(t)][Op(t)] = "active"]
  /\ Replace(t, Mark(On(t), Op(t)))

\* Closing the handle makes Windows abort what is in flight on it.
Doom(flights) ==
  [op \in Operation |-> IF flights[op] = "active" THEN "doomed" ELSE flights[op]]

\* Mutant of Shut: the handle is not closed.
HandleKept(s) == /\ UNCHANGED sock
                 /\ inflight' = [inflight EXCEPT ![s] = Doom(@)]

Shut(s) == /\ sock' = [sock EXCEPT ![s] = "closed"]
           /\ inflight' = [inflight EXCEPT ![s] = Doom(@)]

\* socket::accept() on the accept socket and socket::connect(): init()
\* (create the handle and the I/O completion object), bind(), AcceptEx() or
\* ConnectEx(), and the update of the context when they succeed at once.
\* Whatever fails on the way, the handle is closed when the callback runs.
\* atonce: the outcomes the environment allows at once.
Establish(t, atonce) ==
  /\ Starts(t, Establishing)
  /\ \/ /\ "done" \in atonce
        /\ sock' = [sock EXCEPT ![On(t)] = "up"]
        /\ AtOnce(t, "done")
        /\ UNCHANGED inflight
     \/ /\ "error" \in atonce
        /\ AtOnce(t, "error")
        /\ UNCHANGED <<sock, inflight>>
     \/ /\ sock' = [sock EXCEPT ![On(t)] = "fresh"]
        /\ Pending(t)

\* socket::receive() and socket::send(); what is not connected fails at once.
Transfer(t) ==
  /\ Starts(t, {"receive", "send"})
  /\ \/ /\ AtOnce(t, "error")
        /\ UNCHANGED inflight
     \/ /\ sock[On(t)] = "up"
        /\ AtOnce(t, "done")
        /\ UNCHANGED inflight
     \/ /\ sock[On(t)] = "up"
        /\ Pending(t)
  /\ UNCHANGED sock

\* socket::disconnect(): the handle is closed when DisconnectEx() completes
\* at once, with or without success.
Disconnect(t) ==
  /\ Starts(t, {"disconnect"})
  /\ \/ /\ AtOnce(t, "error")
        /\ Shut(On(t))
     \/ /\ sock[On(t)] = "up"
        /\ AtOnce(t, "done")
        /\ Shut(On(t))
     \/ /\ sock[On(t)] = "up"
        /\ sock' = [sock EXCEPT ![On(t)] = "down"]
        /\ Pending(t)

\* socket::cancel(op): nothing is cancelled unless the flag says that the
\* operation is outstanding, and CancelIoEx() dooms what is in flight.
Cancel(t) ==
  LET s == On(t)
      op == Op(t)
      cancels == sock[s] # "closed" /\ io_pending[s][op]
  IN /\ Running(t, "cancel")
     /\ inflight' = IF cancels /\ inflight[s][op] = "active"
                    THEN [inflight EXCEPT ![s][op] = "doomed"]
                    ELSE inflight
     /\ Return(t)
     /\ UNCHANGED <<sock, io_pending, fault>>

SetIoPending(t) ==
  /\ Running(t, "io_pending")
  /\ io_pending' = [io_pending EXCEPT ![On(t)][Op(t)] = TRUE]
  /\ Return(t)
  /\ UNCHANGED <<sock, inflight, fault>>

-----------------------------------------------------------------------------
(* io_completion_callback(), run by the idle thread t of the pool when     *)
(* Windows completes operation op of socket s with outcome r.              *)

\* The outcomes Windows may report.  Only the handle the accept or connect
\* was started on can have its context updated.
Outcomes(s, op) ==
  CASE op \in Establishing -> IF sock[s] = "fresh" THEN {"done", "error"} ELSE {"error"}
    [] op \in {"receive", "send"} ->
         IF inflight[s][op] = "doomed" THEN Outcome ELSE {"done", "error"}
    [] op = "disconnect" -> {"done", "error"}

\* A failed accept or connect, and every disconnect, closes the handle; only
\* disconnect looks first whether there is one to close.
Deliver(t, s, op, r) ==
  LET establishes == op \in Establishing
      closes == op = "disconnect" \/ (establishes /\ r = "error")
      landed == [inflight[s] EXCEPT ![op] = "none"]
  IN /\ InUse(s, op)
     /\ r \in Outcomes(s, op)
     /\ sock' = [sock EXCEPT ![s] = IF closes THEN "closed"
                                    ELSE IF establishes THEN "up" ELSE @]
     /\ inflight' = [inflight EXCEPT ![s] = IF closes THEN Doom(landed) ELSE landed]
     /\ io_pending' = [io_pending EXCEPT ![s] =
                         [o \in Tracked |-> IF o = op THEN FALSE ELSE @[o]]]
     /\ fault' = IF establishes /\ sock[s] = "closed" THEN "null_io" ELSE fault
     /\ Start(t, <<Complete(s, op, r)>>)

=============================================================================

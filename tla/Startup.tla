------------------------------- MODULE Startup -------------------------------
(***************************************************************************)
(* The start and the end of the two servers, tcp-proxy and tcp-receiver:   *)
(* main(), the signal handler, and the classes acceptors and acceptor,     *)
(* which are the same in net/tcp/proxy.cpp and net/tcp/receiver.cpp but    *)
(* for the numbers the receiver gives its connections.  Every allocation   *)
(* and every call of Windows may fail.  What a connection does once it has *)
(* accepted is in Proxy and Receiver.                                      *)
(***************************************************************************)
EXTENDS Naturals, Sequences

CONSTANTS
  Listens,          \* the addresses the owner of the acceptors listens on: the
                    \* programs have one, the classes allow more
  NConnections,     \* nconnections, the connections of an acceptor
  Allocation        \* acceptors::allocation

ASSUME StartupAssumption ==
  Listens \in Nat \ {0} /\ NConnections \in Nat \ {0} /\ Allocation \in Nat \ {0}

\* The objects: acceptors in the order in which they are created, connections
\* by their acceptor and their place in it.
Acceptor == 1 .. Listens
Connection == Acceptor \X (0 .. NConnections - 1)

\* Mutant of Resources: the handler is installed before its event exists.
HandlerFirst == <<"library", "handler", "event", "pool">>

\* What main() acquires, in this order.
Resources == <<"library", "event", "handler", "pool">>
Resource == {Resources[n] : n \in DOMAIN Resources}

VARIABLES
  stage,        \* of main(): starting, listening, adding (an acceptor creates
                \* its connections), waiting, ending, exited
  held,         \* the resources main() has to release
  asked,        \* the user has asked the program to stop, and the handler ran
  signalled,    \* stop_event
  attempts,     \* acceptors that have been begun
  array, size,  \* _M_acceptors, of which _M_used are used, and _M_size
  created,      \* _M_nconnections of the acceptor that is being added
  life,         \* of each connection
  number        \* _M_nconnection, a part of the names of the files

acceptorVars == <<attempts, array, size, created, life, number>>
vars == <<stage, held, asked, signalled, acceptorVars>>

used == Len(array)

Init ==
  /\ stage = "starting"
  /\ held = {}
  /\ asked = FALSE /\ signalled = FALSE
  /\ attempts = 0
  /\ array = <<>> /\ size = 0
  /\ created = 0
  /\ life = [c \in Connection |-> "none"]
  /\ number = [c \in Connection |-> 0]

-----------------------------------------------------------------------------
(* main(), up to the server.                                               *)

\* One step after the other succeeds; those that acquire nothing, like the
\* parsing of the addresses, are left out.
Acquire ==
  /\ stage = "starting"
  /\ \E n \in DOMAIN Resources :
       /\ held = {Resources[k] : k \in 1 .. n - 1}
       /\ held' = held \cup {Resources[n]}
       /\ stage' = IF n = Len(Resources) THEN "listening" ELSE "starting"
  /\ UNCHANGED <<asked, signalled, acceptorVars>>

CannotStart ==
  /\ stage = "starting"
  /\ stage' = "ending"
  /\ UNCHANGED <<held, asked, signalled, acceptorVars>>

\* signal_handler(), on a thread of its own.  It is never uninstalled: main()
\* closes the event without clearing stop_event, and what SetEvent() does with
\* a handle that has been closed, and that nothing else has got, is to fail.
Signal ==
  /\ "handler" \in held
  /\ asked' = TRUE
  /\ signalled' = (signalled \/ "event" \in held)
  /\ UNCHANGED <<stage, held, acceptorVars>>

-----------------------------------------------------------------------------
(* acceptors::listen()                                                     *)

\* Mutant of HasSpace: off by one.
HasSpaceAtEnd == used <= size

HasSpace == used < size

\* Mutant of Grown: the array begins anew.
AllocatedAgain == Allocation

\* The size realloc() is asked for.
Grown == IF size > 0 THEN size * 2 ELSE Allocation

\* allocate(), new acceptor, listen() of its socket and malloc() succeed.
AddAcceptor ==
  /\ stage = "listening"
  /\ attempts < Listens
  /\ stage' = "adding"
  /\ attempts' = attempts + 1
  /\ size' = IF HasSpace THEN size ELSE Grown
  /\ created' = 0
  /\ UNCHANGED <<held, asked, signalled, array, life, number>>

\* Where main() goes on after n acceptors have been begun, when the last one
\* succeeded and when it did not: the programs listen once and give up when
\* they cannot, but the classes may be asked again.
Again(n) == IF n < Listens THEN {"listening"} ELSE {}
AfterSuccess(n) == {"waiting"} \cup Again(n)
AfterFailure(n) == {"ending"} \cup Again(n)

\* One of them fails.  The array may have grown.
CannotAdd ==
  /\ stage = "listening"
  /\ attempts < Listens
  /\ attempts' = attempts + 1
  /\ size' \in IF HasSpace THEN {size} ELSE {size, Grown}
  /\ stage' \in AfterFailure(attempts + 1)
  /\ UNCHANGED <<held, asked, signalled, array, created, life, number>>

\* Mutants of NumberOf: the acceptors all number their connections from 0, or
\* the number is taken after the acceptor has been counted.
NumberInAcceptor(k) == k
NumberAfter(k) == attempts * NConnections + k

\* acceptor::listen() is given the place of the acceptor in the array.
NumberOf(k) == used * NConnections + k

\* acceptor::listen(): create a connection, start its accept, with which
\* Proxy and Receiver begin, and save it.
AddConnection ==
  LET c == <<attempts, created>>
  IN /\ stage = "adding"
     /\ created < NConnections
     /\ life' = [life EXCEPT ![c] = "alive"]
     /\ number' = [number EXCEPT ![c] = NumberOf(created)]
     /\ created' = created + 1
     /\ UNCHANGED <<stage, held, asked, signalled, attempts, array, size>>

\* The connections the destructor of the acceptor a deletes, of which n have
\* been saved, and the mutant that forgets the last.
SavedButLast(a, n) == {a} \X (0 .. n - 2)
Saved(a, n) == {a} \X (0 .. n - 1)

Deleted(cs) ==
  life' = [c \in Connection |-> IF c \in cs THEN "deleted" ELSE life[c]]

\* A connection or its timers cannot be created, and the acceptor is deleted.
CannotAddConnection ==
  /\ stage = "adding"
  /\ created < NConnections
  /\ Deleted(Saved(attempts, created))
  /\ stage' \in AfterFailure(attempts)
  /\ UNCHANGED <<held, asked, signalled, attempts, array, size, created, number>>

\* The acceptor is complete and is saved.
SaveAcceptor ==
  /\ stage = "adding"
  /\ created = NConnections
  /\ array' = Append(array, attempts)
  /\ stage' \in AfterSuccess(attempts)
  /\ UNCHANGED <<held, asked, signalled, attempts, size, created, life, number>>

Listen ==
  \/ AddAcceptor
  \/ CannotAdd
  \/ AddConnection
  \/ CannotAddConnection
  \/ SaveAcceptor

-----------------------------------------------------------------------------
(* main(), from the signal or a failure to the end.                        *)

\* WaitForSingleObject() returns, and the event is closed before the server
\* is destroyed.
Stop ==
  /\ stage = "waiting"
  /\ signalled
  /\ held' = held \ {"event"}
  /\ stage' = "ending"
  /\ UNCHANGED <<asked, signalled, acceptorVars>>

\* ~acceptors(), and with it every acceptor that has been saved.
DestroyAcceptors ==
  /\ stage = "ending"
  /\ size > 0
  /\ Deleted(UNION {Saved(array[n], NConnections) : n \in DOMAIN array})
  /\ array' = <<>> /\ size' = 0
  /\ UNCHANGED <<stage, held, asked, signalled, attempts, created, number>>

\* Mutants of NextReleased: the pool goes with the other members, the
\* acceptors last; the event is not closed when main() fails.
AnyReleased(r) == r \in held \ {"handler"}
EventForgotten(r) == size = 0 /\ r = IF "pool" \in held THEN "pool" ELSE "library"

\* The thread pool is destroyed after the acceptors, then the event is closed
\* (when there was no signal), then ~library() cleans up.
NextReleased(r) ==
  /\ size = 0
  /\ r = IF "pool" \in held THEN "pool" ELSE IF "event" \in held THEN "event" ELSE "library"

Release ==
  /\ stage = "ending"
  /\ \E r \in held : NextReleased(r) /\ held' = held \ {r}
  /\ UNCHANGED <<stage, asked, signalled, acceptorVars>>

\* main() returns, and the handler goes with the process.
Exit ==
  /\ stage = "ending"
  /\ size = 0
  /\ ~ \E r \in held : NextReleased(r)
  /\ stage' = "exited"
  /\ held' = held \ {"handler"}
  /\ UNCHANGED <<asked, signalled, acceptorVars>>

\* The thread of main().
Main ==
  \/ Acquire
  \/ CannotStart
  \/ Listen
  \/ Stop
  \/ DestroyAcceptors
  \/ Release
  \/ Exit

Next == Main \/ Signal

\* main() runs on; nobody has to ask it to stop.
Spec == Init /\ [][Next]_vars /\ WF_vars(Main)

-----------------------------------------------------------------------------
(* Properties.                                                             *)

\* Type correctness; the connections are numbered from 0 on up to their number.
TypeOK ==
  /\ stage \in {"starting", "listening", "adding", "waiting", "ending", "exited"}
  /\ held \subseteq Resource
  /\ asked \in BOOLEAN /\ signalled \in BOOLEAN
  /\ attempts \in 0 .. Listens
  /\ array \in Seq(Acceptor)
  /\ size \in Nat
  /\ created \in 0 .. NConnections
  /\ life \in [Connection -> {"none", "alive", "deleted"}]
  /\ number \in [Connection -> 0 .. Listens * NConnections - 1]

Alive == {c \in Connection : life[c] = "alive"}

\* The array of acceptors is never written past its end, however often it has
\* grown and whatever failed before (acceptors::allocate() and listen()).
ArrayFits == used <= size

\* Every connection that exists is deleted by an acceptor that is in the array
\* or still being completed, and those hold no connection that has been
\* deleted: an error of listen() leaks nothing and leaves nothing dangling.
EverythingOwned ==
  Alive = {c \in Connection :
             \/ \E n \in DOMAIN array : array[n] = c[1]
             \/ stage = "adding" /\ c[1] = attempts /\ c[2] < created}

\* No two connections have the same number, even after a listen() that failed
\* half-way: the number and a count of its files are all that distinguishes the
\* names of the files of the receiver.
NumbersUnique == \A c, d \in Alive : number[c] = number[d] => c = d

\* A connection is never left without Winsock or the thread pool that runs
\* its callbacks, on any way out of main().
PoolOutlives == Alive # {} => {"library", "pool"} \subseteq held

\* On every way out of main() all it acquired has been released.
NothingLeft == stage = "exited" => held = {} /\ Alive = {}

\* Whoever is told by the handler that the signal was taken sees the program
\* end, although the signal may come before main() waits for it or after it
\* has closed the event.
InterruptEnds == asked ~> stage = "exited"

=============================================================================

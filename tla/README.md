# winasync in TLA+

TLA+ modules, TLC configurations and TLAPS proofs for winasync: Windows IOCP
classes (sockets, timers, files on a thread pool) and three programs made of
them, `tcp-proxy`, `tcp-receiver` and `test-connector`.

There is hardly a lock in this code. What keeps it correct is an order of
events: one callback starts the next operation, and whichever thread completes
that operation goes on. Unit tests do not reach what can go wrong with it; the
models are about that order.

## 1. The system

| component | source | state | operations | interacts with |
|---|---|---|---|---|
| stream socket | `net/async/stream/socket.*` | handle, I/O completion object, four `OVERLAPPED`s each with an I/O pending flag | listen, accept, connect, receive, send, disconnect, cancel; completion callback | calls its owner's callback on the caller's stack (completed at once) or on a pool thread |
| timer | `util/timer.*` | armed or not | create, expires_in, cancel (waits for a running callback) | calls its owner's callback on a pool thread |
| file | `filesystem/async/file.*` | handle, I/O completion object, one `OVERLAPPED` | open, close, write; completion callback | as the socket |
| thread pool | `net/async/thread_pool.*` | the pool and its callback environment | create, stop | runs all callbacks |
| test connector | `test-connector.cpp` | per connection: transfers, loops, what is left to send; number of running connections; stop event | connect, connected, sent, close, disconnected | socket; `main()` waits for the event |
| TCP proxy | `net/tcp/proxy.*` | per connection: two sides with socket, buffer, open flag, spin lock; open connections counter; one timer | accepted, connected, received, sent, timer, close, disconnected | two sockets, timer, acceptor |
| TCP receiver | `net/tcp/receiver.*` | per connection: socket, file, two timers, two try-locks, file number, size and age | accepted, received, written, the two timers, close, move file | socket, file, timers, acceptor |
| acceptors | `net/tcp/proxy.cpp`, `receiver.cpp` | array of acceptors, array of connections, listening socket | listen, allocate, destructors | create the connections and start their accepts |
| programs | `tcp-proxy.cpp`, `tcp-receiver.cpp`, `test-connector.cpp` | stop event | main, signal handler | create and destroy everything |
| addresses, command line | `net/socket/address.*`, `test-connector.cpp` | none | build, to_string, parse | pure |

What is hard about it:

* **Completion at once or later.** An operation that completes at once runs
  its callback before the call returns, on the same stack; otherwise a pool
  thread runs it, possibly before the caller has written the flag that says
  the operation is pending.
* **Everybody may close.** Both directions of the proxy and its timer may
  find a reason to close at the same time; each side has to be disconnected
  once, and the second disconnect has to start the next accept.
* **Sockets are reused.** A closed connection goes back to accepting with the
  same objects, so that whatever is late from the last session meets the next.
* **Waiting.** `timer::cancel()` waits for the timer callback, which may want
  a lock the caller holds, or be the caller.
* **Errors.** Every operation may fail, at once or later.

What makes each component correct: for the socket, that no operation is
started on a released I/O completion object, no `OVERLAPPED` used twice at a
time and no open handle overwritten; for the timer, that nobody waits for
itself; for the connector, that a connection is driven by one activity at a
time and the event is set exactly when all have finished; for the proxy, that
its counter counts the open sides, that it accepts only when both are closed,
that a buffer has one user and that it always gets back to accepting; for the
receiver, that no received data is lost, that a file is moved once and never
written after; for acceptors and programs, that nothing is destroyed while it
is used. `PROJECT.json` lists the hazards line by line.

## 2. The modules

    ThreadPool ---- StreamSocket ---- Connector ---- MCConnector
       |                 |    \            \------ ConnectorProofs
       |                 |     \
       |---- Timer ------+---- Proxy ---- MCProxy
       |       \         |       |\------ implements ConnectionSlot
       |        \        |        \------ ProxyCalls ---- ProxyProofs
       \---- File +------+---- Receiver ---- MCReceiver
                                  \------ ReceiverCalls ---- ReceiverProofs

    CallCounts ---- ProxyCalls, ReceiverCalls

    Startup ---- StartupProofs          Address ---- CommandLine ---- MCCommandLine
                                                          \---- CommandLineProofs

**ThreadPool.** A thread is the sequence of calls it still has to execute
(`stack[t]`). A step of a thread executes the call at the head and puts the
calls that one makes, in order, in its place; this is how continuation-passing
code looks when the C++ frames that only return are left out. A callback of
Windows starts on an idle thread. What is between two calls of a handler (the
cancel and the disconnect of `close()`, say) is where other threads come in.

**StreamSocket.** `sock` stands for the handle and the I/O completion object,
which are created and released together; `inflight` is what Windows has still
to complete, `doomed` when it has been cancelled or its handle closed;
`io_pending` are the flags, for the operations somebody cancels (`Tracked`).
`Establish`, `Transfer`, `Disconnect`, `Cancel` and `Deliver` are the
operations and the completion callback. The write of an I/O pending flag after
`WSA_IO_PENDING` is a call of its own, because the operation may have
completed by then; this write may even come when nothing else of the connection
is left. The first use of the Windows API against its contract is
recorded in `fault` and ends the behaviour: `null_io` (a released or null
`PTP_IO`), `overlapped_reuse`, `handle_leak` (`init()` over an open handle).

**Timer.** `armed` is what each of the owner's timers is set for. `cancel()` has two halves,
`SetThreadpoolTimer(nullptr)` and the wait, which lasts while any thread, the
caller's included, executes the callback.

**Connector.** `class connection` and `class connections` of the test
connector; a connection is its socket. One action per handler and outcome:
`Connected`, `SentPart`, `SentAll`, `SendFailed`, `Disconnected` and `Ignored`
(what `complete()` does nothing for). Data is the number of bytes left. `Tracked`
are the operations of which the flag is modelled: that of `send`, at which
`close()` looks, and those of connect and disconnect, which are written and never
read.

**Proxy.** One connection of the proxy; connections share nothing but the
listening socket. It begins with `main()` about to start the first accept, which
may end at once on the stack of `main()`. The two sides are the sockets `"server"` and `"client"`. The
handlers of `complete()` are one action each; `close()` is `Lock`, then
`AlreadyClosed`, or `FoundOpen` and `CloseOpen`, so that another thread may
come between the test of the flag and its reset. Data is not represented, only
whether a transfer was of everything, of a part, or of nothing. Writes of one
handler to variables no other thread uses at that time are one step.

**ConnectionSlot.** What the proxy connection promises, without threads,
locks, counters and timers: a slot that begins a session with an accept, opens
and closes each side once, and accepts again with the step that ends the last
side. `Proxy!Slot` maps the proxy to it: a slot accepts when an accept is on a
stack or in Windows, and a side is open as its `_M_open` says and closing as
long as its disconnect has not been handled.

**File.** `class file` as far as it is used, for writing: `handle` is the
file and its I/O completion object, which `open()` may leave apart when it fails
half-way (`bare`); `writing` is the write Windows has. There is one `OVERLAPPED`
and no flag says whether it is in use, so its misuse is recorded as for sockets.

**Receiver.** One connection of the receiver, from its first accept on the stack
of `main()`. `disk` is what the file system knows of its files: directory and
size; a name is its number. A write appends `count` bytes, any number up to the
size of the buffer, so that a file may outgrow its maximum size. The
handlers are one action each; what they call (`close_file()`, `move_file()`,
the unlocking, `receive()`) goes onto the stack in the order of the code, so
that other threads come between. A mutex is a number that is decremented
modulo `MutexSize`. Two variables are not the program's. `timely` is chosen at
the start and never changes. In a timely behaviour the connection timer fires
when nothing else goes on, as its period of seconds suggests (`InTime`), and the
look at the age of the file agrees with the file timer: when that has fired,
`time()` says that the file is old (`Aged`). In the others it fires at any time
and `time()` says anything. The file timer fires at any time in both. `missed` is
history: the file timer has fired in vain since the age of the file was last
looked at.

**Address.** The parsers and the printer of addresses are operators on texts,
sequences of characters; `PortDigit` is one turn of the loop of `parse_port()`,
folded over the text. `Meanings` says what a text may mean without parsing it,
by its readings as "ip:port" or "[ip]:port". `inet_pton()` and `inet_ntop()` are
constants.

**CommandLine.** `configuration::parse()`, one action per option, the number
parser in the arithmetic of `uint64_t`, and the loop that reads a file of which
the size has been asked before. `WellFormed` and the `Asked...` operators say
what a command line means as a whole.

**Startup.** `main()` and the signal handler of the two servers with
`acceptors` and `acceptor`, which they share: every acquisition, allocation and
creation may fail. The programs listen once; the classes allow several times,
and so does the module. A connection is only created and deleted here.

**CallCounts, ProxyCalls, ReceiverCalls.** Lemmas only, for `ProxyProofs` and
`ReceiverProofs`: how many calls of a kind there are on all stacks, and what
each action does to those numbers (section 5).

Modules that hold mutants: an operator with a comment "Mutant of X" is X with
a plausible bug, and is used by nothing but the mutation of the checks.

## 3. What TLC checks

| run | expected | instance | properties |
|---|---|---|---|
| `connector` | pass, 276 841 states | 2 connections, 1 pool thread and main, 2 transfers, 2 loops, 2 units of data, the flags of connect, send and disconnect | `TypeOK` `OneActivity` `InStep` `NoBreach` `RunningCounted` `EventMeansFinished` `EveryConnectionEnds` |
| `connector_forgotten` | violation | 1 loop | `TestsFinish` |
| `proxy` | pass, 39 713 states | 1 connection, both peers send, 1 pool thread and main | `TypeOK` `CountsOpenSides` `AcceptsOnlyWhenClosed` `BufferHasOneUser` `NoReuse` `LockHolderRuns` `TimerNeverAwaitsItself` `NeverLost` `ImplementsSlot` `ClosedConnectionAccepts` |
| `proxy_closed_socket` | violation | both peers send, 2 pool threads | `NeverUsesClosedSocket` |
| `proxy_slow_connect` | violation | the timer may fire while the client connects | `CountsOpenSides` |
| `proxy_timer_self` | violation | 1 pool thread, sessions may overlap | `TimerNeverAwaitsItself` |
| `receiver` | pass, 107 886 states | 1 connection, 1 pool thread and main, 2 files of at most 2 bytes, a buffer of 2, timely or not | `TypeOK` `FileMutexGuards` `FinalFilesKept` `FinalFilesHaveData` `SizeTracked` `FileIsTimed` `NobodyWaitsForItself` `ConnectionTimerNeverAwaitsItself` `NeverLost` |
| `receiver_dropped` | violation | timely | `ReceivedDataIsTaken` |
| `receiver_file_untimed` | violation | timely | `OldFileIsClosed` |
| `receiver_timer_self` | violation | timely, sessions may overlap | `ConnectionTimerNeverAwaitsItself` |
| `command_line` | pass, 427 398 states | all lines of up to 6 of 7 arguments, all addresses of up to 6 of 5 characters, all numbers of up to 4 of 6 characters | `TypeOK` `TakenAsAsked` `AddressesAsWritten` `NumbersAsWritten` `PrintedAddressReadsBack` `ParsingEnds` |
| `startup` | pass, 774 states | 3 acceptors of 2 connections, an array that grows 1, 2, 4 | `TypeOK` `ArrayFits` `EverythingOwned` `NumbersUnique` `PoolOutlives` `NothingLeft` `InterruptEnds` |

The connector runs start with `main()` still creating the connections. Deadlock
is not checked there because the program does stop, nor in `command_line` and
`startup`, for the same reason, nor in `receiver`, where the only thread of the pool
may spin on the file mutex until the end of a write, which it would have to tell
itself (`receiver.cpp:173`). It is checked in the proxy runs.
`ImplementsSlot` is the refinement: every step of the proxy is a step of the
slot or leaves it as it is.

**Bounds.** Two connections are enough for what one connection does to the
counter and the event of the others; two transfers, loops and units give
every comparison both outcomes. The passing runs have two threads, one of the
pool and `main()`: what completes at once goes on where it was started, so that
`main()` may run sessions for as long as they do, while the thread of the pool meets
it with a timer or with what completes later. Two callbacks that meet after the
stack of `main()` has ended need a second thread in the pool. With
`Pool = {p1, p2}` the `receiver` run, the safety properties of `proxy` and, with the
flag of send alone, the `connector` run pass, too; they take minutes and are not
kept. All that is proved holds for any pool. The violations have two threads where the counterexample needs
or is shorter with them.

The flags of connect and disconnect are written in the connector and never read;
they are modelled there because their write may be the last thing a thread does.

In the proxy:

* `SlowConnect = FALSE`: the timer does not fire before the client is
  connected. `proxy_slow_connect` shows what happens otherwise.
* `LateCallbacks = FALSE`: a connection is not accepted while a callback of
  its last session is still running. With an accept that takes milliseconds
  this is the normal case; `proxy_timer_self` shows one that is not. A timer that
  the last session has left set may expire while the next is being accepted, but
  not in the instant in which the accept is being told, since it would be set
  anew in the next.
* `MaxDepth` bounds the calls left on a stack that accepts at once, when
  sessions may overlap; without it the stack of the real program grows too.
* `Talkers` are the peers that send data; `CounterSize` stands for 2^32.
* A breach of the API contract ends a behaviour, so the properties of `proxy`
  speak of what happens before it.

In the receiver:

* `FileIsTimed`, `OldFileIsClosed` and `NeverLost` are about timely behaviours, the
  other properties about all of them. The violations have only the timely ones
  (`TimelySpec`), so that nobody can blame the clock.
* A timely connection timer fires when all threads are idle and no write is in
  flight, since it is set for at least 5 seconds by every receive.
* `MayAccept`: as in the proxy, a session begins when the callbacks of the last
  one have returned; the disk may still be writing. `receiver_timer_self` shows
  what an accept that succeeds deeper in a stack leads to.
* `MaxFiles` bounds the files of a connection; two are enough for the next one to
  meet the last one.
  `MaxFileSize` and `BufferSize` are in bytes: with 2 and 2 a file may be full,
  exactly or by one byte more, after one write or after two.
* One thread of a pool of one, or all threads of connections of one pool, may
  spin on the file mutex (`receiver.cpp:173`) while the end of the write that
  holds it waits for a thread. The first is in `receiver`, as a behaviour that
  stops; the programs have larger pools.
* A misuse of a socket or a file ends the behaviour (`Sound`): writing to a file
  that has been opened half-way (`file.cpp:44`), and what an early connection
  timer leads to when it disconnects under a running write.

The command line has small numbers in place of large ones: ports up to 10,
hosts of 3 characters, paths of 5, numbers up to 24 in words of 256 values; what
matters is that texts of the checked lengths lie on both sides of each bound,
and that ten times the largest number is still a word. Two options that take a
number stand for the three, which differ in their ranges only.

`startup` gives the array three sizes, makes each of the acceptors fail
before and after its first connection, and the next one follow it.

**Fairness.** The pool and `main()` are preemptive threads, and Windows
completes what it has. In the connector, where every operation completes (the
peer reads), something always happens as long as something can: weak fairness
of `Next`. In the proxy every thread is weakly fair, and of the operations only
connects, disconnects and cancelled transfers, since a peer may be silent for
ever. The command line and `main()` are sequential programs: weak fairness of their steps,
none of a failure or of the signal. A thread that waits in
`timer::cancel()` is woken between two callbacks of the timer (strong
fairness): they are at least the timeout, seconds, apart.

## 4. What the violations show

1. `connector_forgotten`: `complete()` ignores a failed connect
   (`test-connector.cpp:690`), so the counter never gets to 0 and `main()`
   never leaves its "Wait for signal to arrive or tests to finish."
2. `proxy_closed_socket`: a handler that is about to send or receive on the
   other side does not notice that another thread has closed it
   (`proxy.cpp:332`, `347`, `561`): `StartThreadpoolIo(nullptr)`.
3. `proxy_slow_connect`: the timer closes the server side during the connect;
   the late connect then counts two open connections where there is one, and
   the counter never agrees again (`proxy.cpp:361`, `133`).
4. `proxy_timer_self`: when everything after the timer callback completes at
   once, the callback stops its own timer (`proxy.cpp:145`) and waits for
   itself, which the comment at `proxy.cpp:361` wants to avoid.
5. `receiver_dropped`: the receive started by `written()` completes while the
   callback of the receive before it, deeper in the same stack or on another
   thread, still has the connection mutex: the data is dropped and nothing is
   received until the connection timer closes the connection
   (`receiver.cpp:261`). `NeverLost` shows that this timer is always set.
6. `receiver_file_untimed`: the file timer fires between the look at the age of
   the file (`receiver.cpp:400`) and the unlocking of its mutex (`411`) and is
   lost. `README.md:16` promises that the file is closed after 5 minutes; it is
   only when something more is received. `FileIsTimed` says that this is the
   only way to lose the timer.
7. `receiver_timer_self`: connection timer, disconnect and accept at once, and the
   first receive of the new connection fails: `close_connection()`
   (`receiver.cpp:296`, `213`) stops the timer it runs in, which the comment at
   `receiver.cpp:460` wants to avoid.

Two flaws no run is about: the event is set, and `main()` destroys the sockets, when
a thread may still have its `io_pending(true)` to write (`EventMeansFinished` allows
just this; `socket.cpp:433`), and the one timer of a proxy connection, which the
progress of one direction stops while the send of the other is stalled
(`proxy.cpp:145`, `344`).

`ParsingEnds` has an exception that is a flaw as well: when the file becomes
shorter after its size was asked, `load_file()` reads nothing for ever
(`test-connector.cpp:374`).

## 5. What is proved

`ConnectorProofs` proves, for any finite number of connections, any set of pool
threads and any number of transfers, loops and bytes (`ConnectorAssumption`,
`ThreadAssumption`, `TrackedAssumption`):

| theorem | property |
|---|---|
| `TypeCorrect` | `TypeOK` |
| `OneActivityAlways` | `OneActivity`: callbacks and operations of a connection never overlap |
| `InStepAlways` | `InStep`: the handle is in the state the operation needs |
| `ContractKept` | `NoBreach`: the socket is never misused |
| `CountCorrect` | `RunningCounted` |
| `EventIsLast` | `EventMeansFinished`: nothing is left but, perhaps, a write of `io_pending` |

The argument. `NoBreach` is not inductive: that a socket is open when it is
sent on follows from where its connection is, which is what `InStep` says; and
that the handle is still in that state when the call is executed follows from
there being one activity at a time, `OneActivity`. `OneActivity` in turn needs
`NoBreach`, since an operation in flight twice would complete twice. `TypeOK`
(the counters stay in range) needs `InStep`, and the count needs
`RunningCounted`; `EventAtZero` links the event to the counter. `IInv` is their
conjunction.

`Placed` is the one lemma about stacks: a thread that takes the only activity
of a connection and puts calls of the same connection that are in order in its
place preserves `OneActivity` and `InStep` for all connections. `Moved` is its
form for a call at the head of a stack, `MovedOn` for one call instead of
another, `Dropped` is for the calls that carry nothing on (the cancellation and
the late write of the flag, whose harmlessness is a part of the theorem). Then
there is one lemma per action, and `NextKeeps` puts them together.

`StartupProofs` proves, for any number of acceptors and connections and any
initial size of the array (`StartupAssumption`):

| theorem | property |
|---|---|
| `TypeCorrect` | `TypeOK`, with the range of the numbers |
| `ArrayFitsAlways` | `ArrayFits`: the array is never written past its end |
| `OwnershipKept` | `EverythingOwned`: what exists is what will be deleted |
| `NumbersAreUnique` | `NumbersUnique`: no two connections share their files |
| `PoolOutlivesAlways` | `PoolOutlives` |
| `NothingIsLeft` | `NothingLeft` |

`EverythingOwned` is nearly inductive; it needs `Room`, by which an acceptor that
is being added is not yet in the array, so that deleting it does not
delete the connections of another. Uniqueness is no step property: `Numbered`
says what every number is, place times connections plus index, and
`NumbersDiffer` that such numbers differ; this is the division of integers,
`Blocks` its only lemma with a product. `Holding` ties the resources to the
stages of `main()`.

`CommandLineProofs` proves, for any command lines, any options and ranges of
the numbers, any size of a word (`CommandLineAssumption`), any largest port, any
sizes of the buffers and any `inet_pton()` and `inet_ntop()` that agree
(`AddressAssumption`):

| theorem | property |
|---|---|
| `Typing` | `TypeOK`: numbers in their ranges, no more bytes than the buffer has |
| `Numbers` | `NumbersAsWritten`: a number is taken for what is written |
| `NumberDigitExact` | one turn of the loop of the number parser |
| `Addresses` | `AddressesAsWritten`: an address is taken for the one thing it means |
| `Taken` | `TakenAsAsked`: the well-formed lines are taken, for what they ask |
| `Printed` | `PrintedAddressReadsBack`: a printed address is read as the same one |

The assumptions. An option has one meaning, the least number of bytes is more than
0 (`test-connector.cpp:86`; otherwise `--data 0` could be given several times), and
ten times a maximum is a word. Of the two functions of the system: no text is a
host of both families, and `inet_ntop()` writes a host as a text that
`inet_pton()` takes for the same host, that fits in `INET6_ADDRSTRLEN` with its
`'\0'` and that does not begin with a bracket. TLC evaluates them on the constants
of `command_line`.

The argument. With the ranges `CommandLineAssumption` allows, the program's among
them, a turn of the loop wraps around for no digit, so that its incomplete test
of the overflow (`test-connector.cpp:476`) accepts exactly the numbers up to the
maximum. The loop is a fold over the text and the number written is a sum over the
places of its digits, neither of which has a length in the proof, so that both
are unfolded: `NumberInduction` and `Recursion` come from the least element
of a set of numbers, `SetRecursion` says that a fold is a function on the sets of
places, `Loop` that it holds one value after each character, and
`SumInAnyOrder` that the sum does not depend on an order. `NumberRead` relates the two: as long
as the loop has not failed it holds the number so far, and once it has, the number
is too large whatever follows. `Typing` needs `Reading`: an option that reads a
file has an argument, and when none is read nothing is due, by which the data of
a file is never added to other data.

`parse_port()` is the same loop with another bound, so `NumberRead` serves for it, too.
`AddressBuilt` compares `build()`, which looks for the last colon, with the
readings of a text, which know nothing of it: a text that can be split there has
that reading (`SplitReads`), and it has no other (`ReadsSplit`), since a port has
no colon (`NoColon`), whatever colons and brackets there are in the host.

`TakenAsAsked` speaks of the command line as a whole and only of the end of the
parser; its inductive invariant is `TakenSoFar`, which says of every member what
it owes to the arguments read so far: the address to the only `--address`
(`AddressRead`), each number to the last option of its name (`LastRead`), the length
to the only one of `--file` and `--data` (`DataRead`), and of a file that is
being read the rest is due (`FileRead`). That the members know what has been given is needed for
rejecting: `address` and `length` are all the parser remembers of it. `Passed` and
`Stays` are the two ways a step changes the arguments read, and there is one lemma
per option.

For `Printed`, `Decimals` shows that the recursion of `Decimal` defines a
function, and `DecimalRead`, by induction over the number, that the loop of
`parse_port()` has read `n / 10` before the last digit of `n`. The printed text
then has the reading it was written for (`PrintedReads`), and by `AddressBuilt`
no other.

`ProxyProofs` proves, for any set of pool threads, any `Talkers` and any
`CounterSize` (`ProxyAssumption` and those of the modules below it):

| theorem | property |
|---|---|
| `TypesKept` | `TypeOK`: the counter never wraps |
| `LockHoldersRun` | `LockHolderRuns`: whoever holds a lock is running |
| `CounterCounts` | `CountsOpenSides` |
| `AcceptsWhenClosed` | `AcceptsOnlyWhenClosed` |
| `ConnectionIsSlot` | `ImplementsSlot`: the refinement of `ConnectionSlot` |
| `BuffersHaveOneUser` | `BufferHasOneUser` |
| `NothingIsReused` | `NoReuse`: no handle is overwritten, no `OVERLAPPED` used twice |
| `NothingIsLost` | `NeverLost` |

`TypesKept` and `LockHoldersRun` hold for every value of the constants (with
`SlowConnect` or `LateCallbacks` the type allows the counter every value). The others
are stated under `Punctual`, which is `~SlowConnect /\ ~LateCallbacks`, the
constants of the `proxy` run: without it they are false, as
`proxy_slow_connect` and `proxy_timer_self` show.

The argument. Where an operation is, whether it is about to be started, is in
Windows, or its end is being told, does not matter to the sessions; `Load`
counts all three, calls by `Count` over all stacks. A side has a `Share` in the counter as
long as it is open or its disconnect is on the way (`SharesCounted`: each share
is at most 1 and the counter is their sum, which is more than `CountsOpenSides`
says); there is one accept exactly when there is no share (`AcceptCounted`).
That a connect meets the session it belongs to follows from there being nothing
else: whoever handles an accept finds no other call and nothing in Windows
(`AcceptedAlone`), and nothing else happens until the connect has ended
(`ConnectsAlone`); here `Punctual` is needed. `Locked` says that the locks count their
holders and that a side is closed by at most one of them. `Sound` is the
conjunction of these and inductive. On it rest the rest: the refinement (`View`: what
the slot sees of a sound state; `SlotStep`, one case per action), one transfer
per direction (`BuffersUsed`), a handle that is open as long as somebody will
close it (`HandlesHeld`), and for `NeverLost` the three facts the code relies on
without saying so: only what is closed is cancelled (`CancelsClosed`), so that an
aborted transfer may be passed over; who closes one side closes the other
(`CloseSpreads`); an open side is connecting, being closed, or has a transfer
(`GoesOn`).

`ReceiverProofs` proves, for any set of pool threads and any `MaxFileSize`,
`BufferSize`, `MaxFiles` and `MutexSize` (`ReceiverAssumption`), timely or not, and
with any `LateCallbacks` and `MaxDepth`:

| theorem | property |
|---|---|
| `Typing` | `TypeOK`: a file outgrows its maximum size by less than a buffer |
| `FileMutex` | `FileMutexGuards` |
| `FinalFiles` | `FinalFilesHaveData` |
| `FinalFilesStay` | `FinalFilesKept`, an action property |
| `Size` | `SizeTracked` |
| `FileTimer` | `FileIsTimed`: the timer is lost in one way only |
| `Carried` | `NeverLost` |
| `NoSelfWait` | `NobodyWaitsForItself`: on account of the file |

The argument. Work on the file is a sequence of calls, and a thread is in it
where the head of its stack says (`Phase`); `Ordered` says that the calls below
the head are those that phase asks for and that nothing further down touches
the file. Every step of the connection is then one of the seventeen of `Turn`
(a thread takes the mutex, writes, gives up, closes, ...), and one of the few
of `Beat` for what carries the connection on. `Filed` is the inductive invariant about the
file: one thread is busy or Windows is writing (`FileHeld`), the open file is the
last one (`InPlace`), the size lags by a write that is being told (`SizeLags`), a
full file is about to be closed (`SizeActedOn`), what is to be moved has data
(`MovesData`), and the timer is set, firing, or somebody deals with the file in
its place or has `missed` it (`TimedWhenOpen`, `Attended`). `FinalFilesHaveData` alone would be preserved
by nothing: that the file a move finds has data goes back to the `filesize` that
chose between moving and deleting it, several calls earlier on the same stack.
`Locked` counts the calls that will give the connection mutex back;
`CarriedOn` adds to `NeverLost` the moment in which the timer has fired and not yet
got the mutex. `RInv` is their conjunction. `KeepToOwn` says what the
callback of the file timer may have on its stack, which never accepts. Nothing of
the kind holds of the connection timer, whose callback does.

Both modules rest on `CallCounts`: a step that takes a call from the head of a
stack and puts others in its place changes the number of calls of each kind by
just those (`Replaced`, `Started`), and where there is a call there is a
place that holds it.

Only model-checked: the liveness properties, which the provers do not deal with
(`EveryConnectionEnds`, `ClosedConnectionAccepts`, `InterruptEnds`,
`ParsingEnds`), and that no callback of the proxy's timer or of the connection
timer awaits itself as long as sessions do not overlap (`TimerNeverAwaitsItself`,
`ConnectionTimerNeverAwaitsItself`), which is false otherwise. Every other
property of a passing run is proved.

## 6. Not modelled, and the plan

In this order:

1. **Teardown**: completions that arrive while an acceptor is deleted or
   `main()` has returned, `~socket()` and `~timer()` while callbacks run, and the
   remote address the proxy saves after it has started its accepts
   (`proxy.cpp:645`). It needs `Startup` and a connection composed.
2. **Late callbacks**: a session number in the calls of the proxy, for what a
   suspended thread sends to the peer of the next session (`proxy.cpp:332`).
3. **The depth of the stack**, as a variable, for what completes at once and
   nests without end (`proxy.cpp:273`, `receiver.cpp:414`).
4. **Several connections of the receiver in one pool**, for threads that all spin
   on file mutexes (`receiver.cpp:173`).

Not checked for the receiver: that an open file is closed in the end. With
fairness of the threads and the timers its check takes longer than all others
together; `FileIsTimed` is the safety property it rests on.

Left out for good: the text of messages, the contents of the data, reading of
files (nothing does), the Makefiles, `listen()` of a socket (one call before
anything runs), `load_functions()`, and the buffers of `to_string()`, which its
callers make large enough.

A restart of the receiver is not in the models: the numbers of its files begin
at 1 again, and `MoveFileEx()` with `MOVEFILE_REPLACE_EXISTING`
(`receiver.cpp:448`) then replaces the files of the last run. Nor are a file the
last run has left in the temporary directory, to which the next one appends, and
the files of connections that a failed `listen()` has deleted. In `Startup` a
signal that comes after `main()` has closed the event has no effect, where the
handler calls `SetEvent()` with a handle that is no longer valid
(`tcp-proxy.cpp:44`, `85`).

------------------------------ MODULE Receiver ------------------------------
(***************************************************************************)
(* One connection of the TCP receiver (net/tcp/receiver.cpp): what it      *)
(* receives is appended to a file in the temporary directory; a file that  *)
(* is big or old enough is closed and moved to the final directory.        *)
(* Connections share nothing: the number of the connection is a part of    *)
(* the name of its files.                                                  *)
(*                                                                         *)
(* Two mutexes are all there is: the callback of a receive and the         *)
(* connection timer only try to take the connection mutex; the file mutex  *)
(* is taken by the thread that starts a write and given back by the one    *)
(* that learns of its end, and the file timer only tries to take it.       *)
(***************************************************************************)
EXTENDS StreamSocket, Timer, File, Naturals

CONSTANTS
  MaxFileSize,    \* maxfilesize
  BufferSize,     \* the size of _M_buf: what one receive may bring
  MaxFiles,       \* bound: files a connection opens, after which every open
                  \* fails
  MutexSize,      \* the number of values of a mutex
  LateCallbacks,  \* may a connection be accepted while calls of the last
                  \* one are still being executed or completed?
  MaxDepth        \* bound: calls left on a stack that accepts at once

File_Timer == "file_timer"
Connection_Timer == "connection_timer"

ASSUME ReceiverAssumption ==
  /\ Sock = {"conn"}
  /\ Tracked = {"receive"}        \* what close_connection() cancels
  /\ Timers = {File_Timer, Connection_Timer}
  /\ Purpose = {"set"}
  /\ MaxFileSize \in Nat \ {0}
  /\ BufferSize \in Nat \ {0}
  /\ MaxFiles \in Nat \ {0}
  /\ MutexSize \in Nat /\ MutexSize > 2
  /\ LateCallbacks \in BOOLEAN
  /\ MaxDepth \in Nat

VARIABLES
  connection_mutex,   \* _M_connection_mutex
  file_mutex,         \* _M_file_mutex
  nfile,              \* _M_nfile: the number of the file opened last
  filesize,           \* _M_filesize
  count,              \* the bytes of the write under way, 0 when there is none
  disk,               \* the files of this connection, by number
  missed,             \* history: has the file timer fired in vain since the
                      \* age of the file has last been looked at?
  timely              \* is this a behaviour whose connection timer fires only
                      \* when nothing else goes on, and whose clock agrees
                      \* with the file timer?  See InTime and Aged.

mutexVars == <<connection_mutex, file_mutex>>
fileNotes == <<nfile, filesize, count, missed>>
vars == <<stack, socketVars, armed, fileVars, mutexVars, fileNotes, disk, timely>>

\* A file on the disk: the directory it is in and its size.
FileOnDisk == [place : {"none", "tmpdir", "finaldir", "deleted"}, size : Nat]

NoFile == [place |-> "none", size |-> 0]
NewFile == [place |-> "tmpdir", size |-> 0]

-----------------------------------------------------------------------------
(* The calls of the receiver's own code.                                   *)

Call(name) == Frame(name, "conn", "none", "none")

LockFile         == Call("lock_file")          \* write_file(): the spin
TryLockFile      == Call("try_lock_file")      \* file_timer()
UnlockFile       == Call("unlock_file")
MoveFile         == Call("move_file")          \* move_file()
DeleteFile       == Call("delete_file")
Receive          == Call("receive")            \* receive()
TryLockConn      == Call("try_lock_conn")      \* connection_timer()
UnlockConn       == Call("unlock_conn")

\* close_connection(), which has no flag that says it has been called.
Disconnects == <<CancelIo("conn", "receive"), Begin("conn", "disconnect")>>

CloseConnection == <<StopTimer(Connection_Timer)>> \o Disconnects

\* close_file(), move_file()
CloseAndMove == <<StopTimer(File_Timer), CloseCall, MoveFile>>

Calls ==
  [call : {"begin"}, on : Sock, op : Operation, arg : {"none"}]
  \cup [call : {"cancel", "io_pending"}, on : Sock, op : Tracked, arg : {"none"}]
  \cup [call : {"complete"}, on : Sock, op : Operation, arg : Outcome]
  \cup {WriteCall, CloseCall, Written("done"), Written("error")}
  \cup {LockFile, TryLockFile, UnlockFile, MoveFile, DeleteFile, Receive,
        TryLockConn, UnlockConn}
  \cup UNION {{StopTimer(x), AwaitTimer(x), TimerEnd(x)} : x \in Timers}

\* Type correctness.  A file outgrows its maximum size by less than a buffer:
\* its size is compared when a write has ended, not before it starts.
TypeOK ==
  /\ SocketTypeOK
  /\ TimerTypeOK
  /\ FileTypeOK
  /\ stack \in [Thread -> Seq(Calls)]
  /\ connection_mutex \in 0 .. 1
  /\ file_mutex \in 0 .. 1
  /\ nfile \in 0 .. MaxFiles
  /\ filesize \in 0 .. MaxFileSize + BufferSize - 1
  /\ count \in 0 .. BufferSize
  /\ disk \in [1 .. MaxFiles -> FileOnDisk]
  /\ missed \in BOOLEAN
  /\ timely \in BOOLEAN

\* acceptor::listen(), run by main(), has created the connection and its two
\* timers and is about to start its first accept, which may end at once, on
\* the stack of main().
Init ==
  /\ stack = [t \in Thread |-> IF t = Main THEN <<Begin("conn", "accept")>> ELSE <<>>]
  /\ SocketInit
  /\ TimerInit
  /\ FileInit
  /\ connection_mutex = 0
  /\ file_mutex = 0
  /\ nfile = 0
  /\ filesize = 0
  /\ count = 0
  /\ missed = FALSE
  /\ disk = [n \in 1 .. MaxFiles |-> NoFile]
  /\ timely \in BOOLEAN

-----------------------------------------------------------------------------
(* The socket calls back: connection::complete(operation, ...).            *)

Told(t, op, r) ==
  /\ Running(t, "complete")
  /\ Op(t) = op
  /\ Arg(t) = r

\* accepted() and receive()
Accepted(t) ==
  /\ Told(t, "accept", "done")
  /\ Replace(t, <<Receive>>)
  /\ UNCHANGED <<socketVars, armed, fileVars, mutexVars, fileNotes, disk>>

AcceptFailed(t) ==
  /\ Told(t, "accept", "error")
  /\ Replace(t, <<Begin("conn", "accept")>>)
  /\ UNCHANGED <<socketVars, armed, fileVars, mutexVars, fileNotes, disk>>

\* Mutant of StartReceive: the connection timer is not set.
ReceivesUntimed(t) ==
  /\ Running(t, "receive")
  /\ UNCHANGED armed
  /\ Replace(t, <<Begin("conn", "receive")>>)
  /\ UNCHANGED <<socketVars, fileVars, mutexVars, fileNotes, disk>>

\* receive(): set the connection timer and start the next receive.
StartReceive(t) ==
  /\ Running(t, "receive")
  /\ ExpiresIn(Connection_Timer, "set")
  /\ Replace(t, <<Begin("conn", "receive")>>)
  /\ UNCHANGED <<socketVars, fileVars, mutexVars, fileNotes, disk>>

\* Some data, or the end of the stream, has been received and the connection
\* mutex is free: received(), and then the mutex is unlocked.
Received(t) ==
  /\ Told(t, "receive", "done")
  /\ connection_mutex = 0
  /\ connection_mutex' = 1
  /\ \/ Replace(t, <<LockFile, UnlockConn>>)
     \/ Replace(t, Append(CloseConnection, UnlockConn))
  /\ UNCHANGED <<socketVars, armed, fileVars, file_mutex, fileNotes, disk>>

\* The connection mutex is taken: nothing is done with what was received.
ReceivedInVain(t) ==
  /\ Told(t, "receive", "done")
  /\ connection_mutex # 0
  /\ Return(t)
  /\ UNCHANGED <<socketVars, armed, fileVars, mutexVars, fileNotes, disk>>

ReceiveFailed(t) ==
  /\ Told(t, "receive", "error")
  /\ Replace(t, CloseConnection)
  /\ UNCHANGED <<socketVars, armed, fileVars, mutexVars, fileNotes, disk>>

ReceiveAborted(t) ==
  /\ Told(t, "receive", "aborted")
  /\ Return(t)
  /\ UNCHANGED <<socketVars, armed, fileVars, mutexVars, fileNotes, disk>>

\* disconnected(), whether or not the disconnect succeeded.
Disconnected(t) ==
  /\ \E r \in Outcome : Told(t, "disconnect", r)
  /\ Replace(t, <<Begin("conn", "accept")>>)
  /\ UNCHANGED <<socketVars, armed, fileVars, mutexVars, fileNotes, disk>>

\* InterlockedDecrement() of a mutex.
Unlocked(mutex) == (mutex + MutexSize - 1) % MutexSize

UnlockConnection(t) ==
  /\ Running(t, "unlock_conn")
  /\ connection_mutex' = Unlocked(connection_mutex)
  /\ Return(t)
  /\ UNCHANGED <<socketVars, armed, fileVars, file_mutex, fileNotes, disk>>

Callback(t) ==
  \/ Accepted(t)
  \/ AcceptFailed(t)
  \/ StartReceive(t)
  \/ Received(t)
  \/ ReceivedInVain(t)
  \/ ReceiveFailed(t)
  \/ ReceiveAborted(t)
  \/ Disconnected(t)
  \/ UnlockConnection(t)

-----------------------------------------------------------------------------
(* The file: write_file(), written(), error_writing_file().                *)

\* The spin on the file mutex, and the write of what has been received to the
\* file that is open.
WriteToOpen(t) ==
  /\ Running(t, "lock_file")
  /\ file_mutex = 0
  /\ IsOpen
  /\ file_mutex' = 1
  /\ count' \in 1 .. BufferSize
  /\ Replace(t, <<WriteCall>>)
  /\ UNCHANGED <<socketVars, armed, fileVars, connection_mutex, nfile, filesize, missed, disk>>

\* Mutant of NextNumber: the number of the last file is used again.
SameNumber(n) == IF n = 0 THEN 1 ELSE n

NextNumber(n) == n + 1

\* open_file(): a new number, a new file, a new timer.
WriteToNew(t) ==
  /\ Running(t, "lock_file")
  /\ file_mutex = 0
  /\ ~IsOpen
  /\ nfile < MaxFiles
  /\ file_mutex' = 1
  /\ nfile' = NextNumber(nfile)
  /\ filesize' = 0
  /\ count' \in 1 .. BufferSize
  /\ missed' = FALSE
  /\ Opens("open")
  /\ disk' = [disk EXCEPT ![nfile'] = NewFile]
  /\ ExpiresIn(File_Timer, "set")
  /\ Replace(t, <<WriteCall>>)
  /\ UNCHANGED <<socketVars, connection_mutex>>

\* open_file() fails, before or after the file has been created: unlock the
\* mutex and close the connection.  The number is used up.
CannotOpen(t) ==
  /\ Running(t, "lock_file")
  /\ file_mutex = 0
  /\ ~IsOpen
  /\ file_mutex' = 1
  /\ \/ /\ Opens("closed")
        /\ nfile' = IF nfile < MaxFiles THEN NextNumber(nfile) ELSE nfile
        /\ UNCHANGED disk
     \/ /\ nfile < MaxFiles
        /\ Opens("bare")
        /\ nfile' = NextNumber(nfile)
        /\ disk' = [disk EXCEPT ![nfile'] = NewFile]
  /\ Replace(t, <<UnlockFile>> \o CloseConnection)
  /\ UNCHANGED <<socketVars, armed, connection_mutex, filesize, count, missed>>

\* Windows appends to the file that is open, which has the last number.
Appended(r) ==
  disk' = IF r = "done" THEN [disk EXCEPT ![nfile].size = @ + count] ELSE disk

WriteFile(t) ==
  /\ \/ \E r \in {"done", "error"} : WriteAtOnce(t, r) /\ Appended(r)
     \/ (WritePending(t) \/ WriteMisused(t)) /\ UNCHANGED disk
  /\ UNCHANGED <<socketVars, armed, mutexVars, fileNotes>>

\* The age of the file is looked at when a write ends.  When its timer has
\* fired it is old, unless the clock of time(), which counts whole seconds
\* and may be set, says otherwise; and it may be old up to a second earlier.
Aged == IF armed[File_Timer] = "off" /\ timely THEN {TRUE} ELSE BOOLEAN

\* Mutant of SizeAfter: the size is set, not incremented.
SizeOfWrite(n, c) == c

SizeAfter(n, c) == n + c

\* Mutants of Finished: a file of exactly the maximum size is kept; the age is
\* left to the timer.
FinishedLate(n, old) == n > MaxFileSize \/ old
FinishedBySize(n, old) == n >= MaxFileSize

\* written(): is the file, of n bytes, to be closed and moved?
Finished(n, old) == n >= MaxFileSize \/ old

DataWritten(t) ==
  /\ Running(t, "written")
  /\ Arg(t) = "done"
  /\ filesize' = SizeAfter(filesize, count)
  /\ count' = 0
  /\ missed' = FALSE
  /\ \E old \in Aged :
       Replace(t, (IF Finished(filesize', old) THEN CloseAndMove ELSE <<>>)
                  \o <<UnlockFile, Receive>>)
  /\ UNCHANGED <<socketVars, armed, fileVars, mutexVars, nfile, disk>>

\* Mutant of WhatIsLeft: the file is moved whatever is in it.
AlwaysMoved == MoveFile

\* error_writing_file(): what is done with the file of a failed write.
WhatIsLeft == IF filesize > 0 THEN MoveFile ELSE DeleteFile

WriteFailed(t) ==
  /\ Running(t, "written")
  /\ Arg(t) = "error"
  /\ Replace(t, <<StopTimer(File_Timer), CloseCall, WhatIsLeft, UnlockFile>>
                \o CloseConnection)
  /\ count' = 0
  /\ UNCHANGED <<socketVars, armed, fileVars, mutexVars, nfile, filesize, missed, disk>>

CloseFile(t) ==
  /\ FileClose(t)
  /\ UNCHANGED <<socketVars, armed, mutexVars, fileNotes, disk>>

\* MoveFileEx() or DeleteFile(), whose failure nobody looks at.  They fail
\* when the file is not there or still open.
Relocate(t) ==
  /\ Running(t, "move_file") \/ Running(t, "delete_file")
  /\ \/ /\ ~IsOpen
        /\ disk[nfile].place = "tmpdir"
        /\ disk' = [disk EXCEPT ![nfile].place =
                      IF Running(t, "move_file") THEN "finaldir" ELSE "deleted"]
     \/ UNCHANGED disk
  /\ Return(t)
  /\ UNCHANGED <<socketVars, armed, fileVars, mutexVars, fileNotes>>

UnlockFileMutex(t) ==
  /\ Running(t, "unlock_file")
  /\ file_mutex' = Unlocked(file_mutex)
  /\ Return(t)
  /\ UNCHANGED <<socketVars, armed, fileVars, connection_mutex, fileNotes, disk>>

Filing(t) ==
  \/ WriteToOpen(t)
  \/ WriteToNew(t)
  \/ CannotOpen(t)
  \/ WriteFile(t)
  \/ DataWritten(t)
  \/ WriteFailed(t)
  \/ CloseFile(t)
  \/ Relocate(t)
  \/ UnlockFileMutex(t)

-----------------------------------------------------------------------------
(* The timers.                                                             *)

\* Mutant of CloseIdleCalls: the timer is cancelled, as everywhere else.
CloseIdleAndCancel == Append(CloseConnection, UnlockConn)

CloseIdleCalls == Append(Disconnects, UnlockConn)

\* connection_timer(): "Do not cancel the connection timer".
CloseIdle(t) ==
  /\ Running(t, "try_lock_conn")
  /\ connection_mutex = 0
  /\ connection_mutex' = 1
  /\ Replace(t, CloseIdleCalls)
  /\ UNCHANGED <<socketVars, armed, fileVars, file_mutex, fileNotes, disk>>

\* Mutants of CloseOldCalls: the timer is cancelled, as everywhere else; the
\* file mutex is given back before the file is moved.
CloseAndCancel == CloseAndMove \o <<UnlockFile>>
MovesUnlocked == <<CloseCall, UnlockFile, MoveFile>>

CloseOldCalls == <<CloseCall, MoveFile, UnlockFile>>

\* file_timer(): "Do not cancel the file timer".
CloseOld(t) ==
  /\ Running(t, "try_lock_file")
  /\ file_mutex = 0
  /\ file_mutex' = 1
  /\ Replace(t, CloseOldCalls)
  /\ UNCHANGED <<socketVars, armed, fileVars, connection_mutex, fileNotes, disk>>

\* The mutex is taken: the timer has fired in vain.
TimerInVain(t) ==
  /\ \/ Running(t, "try_lock_conn") /\ connection_mutex # 0
     \/ Running(t, "try_lock_file") /\ file_mutex # 0
  /\ missed' = (missed \/ Running(t, "try_lock_file"))
  /\ Return(t)
  /\ UNCHANGED <<socketVars, armed, fileVars, mutexVars, nfile, filesize, count, disk>>

\* timer::cancel() and the return of a timer callback.
Time(t) ==
  /\ Disarm(t) \/ CallbacksAwaited(t) \/ CallbackEnds(t)
  /\ UNCHANGED <<socketVars, fileVars, mutexVars, fileNotes, disk>>

Timing(t) == CloseIdle(t) \/ CloseOld(t) \/ TimerInVain(t) \/ Time(t)

Sound == fault = "none" /\ ~misused

\* Threads and the disk are seconds faster than the connection timer.
InTime == (\A t \in Thread : Idle(t)) /\ writing = "none"

ConnectionTimerExpires(t) ==
  /\ Sound
  /\ timely => InTime
  /\ Expire(t, Connection_Timer, <<TryLockConn>>)
  /\ UNCHANGED <<socketVars, fileVars, mutexVars, fileNotes, disk, timely>>

FileTimerExpires(t) ==
  /\ Sound
  /\ Expire(t, File_Timer, <<TryLockFile>>)
  /\ UNCHANGED <<socketVars, fileVars, mutexVars, fileNotes, disk, timely>>

-----------------------------------------------------------------------------
\* Nothing of the last connection is left but, possibly, the head of t's
\* stack and the accept itself; the disk may still be writing.
Settled(t) ==
  /\ \A u \in Thread \ {t} : Idle(u)
  /\ Len(stack[t]) <= 1
  /\ \A op \in Operation : InUse("conn", op) => op = "accept"

\* When can an accept succeed?
MayAccept(t) == Settled(t) \/ (LateCallbacks /\ Len(stack[t]) <= MaxDepth)

AtOnceOutcomes(t) ==
  IF Op(t) = "accept" /\ ~MayAccept(t) THEN {"error"} ELSE {"done", "error"}

Operate(t) ==
  /\ \/ MisusedStart(t)
     \/ Establish(t, AtOnceOutcomes(t))
     \/ Transfer(t)
     \/ Disconnect(t)
     \/ Cancel(t)
     \/ SetIoPending(t)
  /\ UNCHANGED <<armed, fileVars, mutexVars, fileNotes, disk>>

Execute(t) ==
  /\ Sound
  /\ Callback(t) \/ Filing(t) \/ Timing(t) \/ Operate(t)
  /\ UNCHANGED timely

Completion(t, s, op, r) ==
  /\ Sound
  /\ op = "accept" /\ r = "done" => MayAccept(t)
  /\ Deliver(t, s, op, r)
  /\ UNCHANGED <<armed, fileVars, mutexVars, fileNotes, disk, timely>>

WriteCompletion(t, r) ==
  /\ Sound
  /\ WriteEnds(t, r)
  /\ Appended(r)
  /\ UNCHANGED <<socketVars, armed, mutexVars, fileNotes, timely>>

\* Nothing will ever happen to the connection again.
Abandoned ==
  /\ \A t \in Thread : Idle(t)
  /\ \A s \in Sock, op \in Operation : ~InUse(s, op)
  /\ writing = "none"
  /\ \A x \in Timers : armed[x] = "off"

\* After a breach anything may happen, and a connection whose timer has fired
\* too early may be lost; the model stops.
Undefined == (~Sound \/ (~timely /\ Abandoned)) /\ UNCHANGED vars

Next ==
  \/ \E t \in Thread : Execute(t)
  \/ \E t \in Pool, s \in Sock, op \in Operation, r \in Outcome :
       Completion(t, s, op, r)
  \/ \E t \in Pool, r \in {"done", "error"} : WriteCompletion(t, r)
  \/ \E t \in Pool : ConnectionTimerExpires(t) \/ FileTimerExpires(t)
  \/ Undefined

Spec == Init /\ [][Next]_vars

-----------------------------------------------------------------------------
(* Properties.                                                             *)

\* The threads that work on the file: from the time they have the file mutex
\* until they give it back or leave the file to Windows.
Filers ==
  {t \in Thread : \E i \in DOMAIN stack[t] :
                    stack[t][i].call \in {"write", "written", "close_file", "move_file",
                                          "delete_file", "unlock_file"}}

\* The file mutex has no owner: it is handed from the thread that starts a
\* write over Windows to the thread that learns of its end.  Whoever ends the
\* work on the file, written(), the error path or the file timer, it is taken
\* when and only when the file has its one user, and nobody closes a file
\* Windows is still writing.
FileMutexGuards ==
  /\ Cardinality(Filers) + (IF writing = "none" THEN 0 ELSE 1) = file_mutex
  /\ writing # "none" => handle = "open"

\* A file of the final directory is complete: nothing is appended to it, and
\* it is never moved again or replaced by a later file.
FinalFilesKept ==
  [][\A n \in 1 .. MaxFiles : disk[n].place = "finaldir" => disk'[n] = disk[n]]_vars

\* No file without data gets to the final directory, whichever of a write
\* error, the size, the age and the timer ends it.
FinalFilesHaveData ==
  \A n \in 1 .. MaxFiles : disk[n].place = "finaldir" => disk[n].size > 0

\* _M_filesize is what has been appended to the open file, but for a write
\* whose callback has still to run.
SizeTracked ==
  handle = "open" =>
    disk[nfile].size =
      filesize + IF \E t \in Thread : OnStack(t, Written("done")) THEN count ELSE 0

\* An open file nobody works on has its timer set, or calling back, unless the
\* timer has fired in vain: after written() had looked at the age of the file,
\* but before it had given the file mutex back.  A timer that fires in vain
\* earlier, during the write, is made up for by that look.
FileIsTimed ==
  timely /\ handle = "open" /\ file_mutex = 0 =>
    \/ armed[File_Timer] # "off"
    \/ \E t \in Thread : InCallback(t, File_Timer)
    \/ missed

\* "after 5 minutes, the file is closed and moved to the final directory": when
\* nobody works on a file that is open its timer is set, so that it will be
\* closed even if nothing is ever received again.
OldFileIsClosed ==
  timely /\ handle = "open" /\ writing = "none" /\ (\A t \in Thread : Idle(t)) =>
    armed[File_Timer] # "off"

\* Nobody waits for itself on account of the file: the callback of the file
\* timer never awaits its own end ("Do not cancel the file timer, otherwise
\* this function won't be further executed"), and no thread spins on the file
\* mutex it has: written() unlocks before it receives again, and what follows
\* may lead, on the same stack, to the next write.
NobodyWaitsForItself ==
  \A t \in Thread :
    /\ Running(t, "await_timer") /\ On(t) = File_Timer => ~InCallback(t, File_Timer)
    /\ Running(t, "lock_file") => t \notin Filers

\* "Do not cancel the connection timer, otherwise this function won't be
\* further executed": its callback does not wait for its own end.
ConnectionTimerNeverAwaitsItself ==
  \A t \in Thread :
    Running(t, "await_timer") /\ On(t) = Connection_Timer => ~InCallback(t, Connection_Timer)

\* The connection is never lost, even when what it has received is dropped: a
\* call, an operation in Windows, a write or the connection timer, which every
\* receive sets anew, will carry on with it.
NeverLost ==
  \/ ~timely
  \/ \E t \in Thread : ~Idle(t)
  \/ \E s \in Sock, op \in Operation : InUse(s, op)
  \/ writing # "none"
  \/ armed[Connection_Timer] # "off"

\* "saves the received data on files": what a receive has got is handled,
\* unless the connection timer is closing the connection.
ReceivedDataIsTaken ==
  \A t \in Thread :
    Told(t, "receive", "done") /\ connection_mutex # 0 =>
      \E u \in Thread : OnStack(u, UnlockConn) /\ InCallback(u, Connection_Timer)

=============================================================================

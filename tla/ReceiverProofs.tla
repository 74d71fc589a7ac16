--------------------------- MODULE ReceiverProofs ---------------------------
(***************************************************************************)
(* The receiver connection keeps its invariants, for every number of       *)
(* threads of the pool, every maximum size and number of files and every   *)
(* width of a mutex.                                                       *)
(*                                                                         *)
(* A step is reduced to what it does with the file (Turn), by the phases   *)
(* of ReceiverCalls, and with the connection; the invariants are about     *)
(* phases, the numbers of calls and the variables, and never look into a   *)
(* stack.                                                                  *)
(***************************************************************************)
EXTENDS ReceiverCalls

\* The phases of a thread that has the file mutex.
Busy == {"write", "done", "failed", "stop", "await", "close", "move", "unlock"}

\* The phases in which the file is about to be closed.
Ending == {"stop", "await", "close"}

InPhase(phases) == \E t \in Thread : Phase(t) \in phases

-----------------------------------------------------------------------------
(* What a step of thread t does with the file and its timer.               *)

SameFile == UNCHANGED <<handle, writing, nfile, filesize, count, disk>>

\* Nothing is done to the file timer, nor the age of the file looked at.
SameTimer == armed'[File_Timer] = armed[File_Timer] /\ (missed => missed')

Rests(t) ==
  /\ PhaseGoes(t, "none", "none") /\ MovesOnly(t, FALSE)
  /\ UNCHANGED file_mutex /\ SameFile /\ SameTimer

Takes(t) ==
  /\ PhaseGoes(t, "none", "write") /\ MovesOnly(t, FALSE) /\ file_mutex = 0 /\ file_mutex' = 1
  /\ count' \in 1 .. BufferSize

TakesOpen(t) ==
  /\ Takes(t) /\ handle # "closed" /\ SameTimer
  /\ UNCHANGED <<handle, writing, nfile, filesize, disk>>

TakesNew(t) ==
  /\ Takes(t) /\ handle = "closed" /\ handle' = "open" /\ UNCHANGED writing
  /\ nfile < MaxFiles /\ nfile' = nfile + 1 /\ filesize' = 0
  /\ disk' = [disk EXCEPT ![nfile + 1] = NewFile]
  /\ armed'[File_Timer] # "off"

TakesNone(t) ==
  /\ PhaseGoes(t, "none", "unlock") /\ MovesOnly(t, FALSE) /\ file_mutex = 0 /\ file_mutex' = 1
  /\ handle = "closed" /\ handle' \in {"closed", "bare"}
  /\ UNCHANGED <<writing, filesize, count>> /\ SameTimer
  /\ \/ nfile' \in {nfile, nfile + 1} /\ nfile' <= MaxFiles /\ UNCHANGED disk
     \/ /\ nfile < MaxFiles /\ nfile' = nfile + 1
        /\ disk' = [disk EXCEPT ![nfile + 1] = NewFile]

Ended(r) == IF r = "done" THEN "done" ELSE "failed"

Writes(t, r) ==
  /\ PhaseGoes(t, "write", Ended(r)) /\ MovesOnly(t, FALSE)
  /\ handle = "open" /\ writing = "none"
  /\ UNCHANGED <<file_mutex, handle, writing, nfile, filesize, count>> /\ Appended(r) /\ SameTimer

WritesLater(t) ==
  /\ PhaseGoes(t, "write", "none") /\ MovesOnly(t, FALSE)
  /\ handle = "open" /\ writing = "none" /\ writing' = "active"
  /\ UNCHANGED <<file_mutex, handle, nfile, filesize, count, disk>> /\ SameTimer

Learns(t, r) ==
  /\ PhaseGoes(t, "none", Ended(r)) /\ MovesOnly(t, FALSE)
  /\ writing # "none" /\ writing' = "none"
  /\ UNCHANGED <<file_mutex, handle, nfile, filesize, count>> /\ Appended(r) /\ SameTimer

Tallies(t, old) ==
  /\ IF filesize' >= MaxFileSize \/ old
     THEN PhaseGoes(t, "done", "stop") /\ MovesOnly(t, TRUE)
     ELSE PhaseGoes(t, "done", "unlock") /\ MovesOnly(t, FALSE)
  /\ timely /\ armed[File_Timer] = "off" => old
  /\ filesize' = filesize + count /\ count' = 0
  /\ UNCHANGED <<file_mutex, handle, writing, nfile, disk>>
  /\ armed'[File_Timer] = armed[File_Timer]

GivesUp(t) ==
  /\ PhaseGoes(t, "failed", "stop") /\ MovesOnly(t, filesize > 0)
  /\ UNCHANGED <<file_mutex, handle, writing, nfile, filesize, disk>> /\ count' = 0 /\ SameTimer

Stops(t) ==
  /\ PhaseGoes(t, "stop", "await") /\ MovesOnly(t, FALSE)
  /\ UNCHANGED <<file_mutex, missed>> /\ SameFile /\ armed'[File_Timer] = "off"

Awaits(t) ==
  /\ PhaseGoes(t, "await", "close") /\ MovesOnly(t, FALSE)
  /\ \A u \in Thread : ~InCallback(u, File_Timer)
  /\ UNCHANGED file_mutex /\ SameFile /\ SameTimer

Closes(t) ==
  /\ PhaseGoes(t, "close", "move") /\ MovesOnly(t, FALSE)
  /\ handle' = "closed" /\ writing' = IF writing = "active" THEN "doomed" ELSE writing
  /\ UNCHANGED <<file_mutex, nfile, filesize, count, disk>> /\ SameTimer

Relocates(t) ==
  /\ PhaseGoes(t, "move", "unlock") /\ MovesOnly(t, FALSE)
  /\ UNCHANGED <<file_mutex, handle, writing, nfile, filesize, count>> /\ SameTimer
  /\ \/ UNCHANGED disk
     \/ /\ handle = "closed" /\ disk[nfile].place = "tmpdir"
        /\ \E place \in {"finaldir", "deleted"} :
             /\ disk' = [disk EXCEPT ![nfile].place = place]
             /\ place = "finaldir" => OnStack(t, MoveFile)

Unlocks(t) ==
  /\ PhaseGoes(t, "unlock", "none") /\ MovesOnly(t, FALSE)
  /\ file_mutex' = Unlocked(file_mutex) /\ SameFile /\ SameTimer

Wakes(t) ==
  /\ PhaseGoes(t, "none", "try") /\ InCallback(t, File_Timer)'
  /\ MovesOnly(t, FALSE) /\ UNCHANGED <<file_mutex, missed>> /\ SameFile
  /\ armed[File_Timer] # "off" /\ armed'[File_Timer] = "off"

ClosesOld(t) ==
  /\ PhaseGoes(t, "try", "close") /\ MovesOnly(t, TRUE) /\ file_mutex = 0 /\ file_mutex' = 1
  /\ SameFile /\ SameTimer

InVain(t) ==
  /\ PhaseGoes(t, "try", "none") /\ MovesOnly(t, FALSE) /\ file_mutex # 0
  /\ UNCHANGED file_mutex /\ SameFile /\ SameTimer /\ missed'

Turn(t) ==
  \/ Rests(t) \/ TakesOpen(t) \/ TakesNew(t) \/ TakesNone(t)
  \/ \E r \in {"done", "error"} : Writes(t, r) \/ Learns(t, r)
  \/ WritesLater(t)
  \/ \E old \in BOOLEAN : Tallies(t, old)
  \/ GivesUp(t) \/ Stops(t) \/ Awaits(t) \/ Closes(t) \/ Relocates(t) \/ Unlocks(t)
  \/ Wakes(t) \/ ClosesOld(t) \/ InVain(t)

\* A breach of the contract of the Windows API, after which nothing happens.
Halts ==
  UNCHANGED <<stack, armed, file_mutex, connection_mutex, handle, writing, nfile, filesize, count,
              missed, disk, sock, io_pending, inflight>>

Typed == TypeOK /\ Finite

LEMMA TypedStacks ==
  ASSUME Typed
  PROVE  /\ StackTyped /\ armed \in [Timers -> Purpose \cup {"off"}]
         /\ Timers = {File_Timer, Connection_Timer} /\ File_Timer # Connection_Timer
         /\ Purpose = {"set"}
  BY ReceiverAssumption DEF Typed, TypeOK, TimerTypeOK, StackTyped, File_Timer, Connection_Timer

LEMMA CallbackTurns ==
  ASSUME Typed, Ordered, NEW t \in Thread, Callback(t)
  PROVE  StackTyped' /\ Ordered' /\ Rests(t)
  <1>1. PICK u1, k1, w1, u2, k2 : Effect(t, "none", "none", u1, k1, w1, u2, k2, FALSE)
    BY TypedStacks, AcceptsEffect, StartReceiveEffect, ReceivedEffect, UnlockConnectionEffect
       DEF Callback
  <1>2. UNCHANGED file_mutex /\ SameFile
    BY DEF Callback, Accepted, AcceptFailed, StartReceive, Received, ReceivedInVain, ReceiveFailed,
           ReceiveAborted, Disconnected, UnlockConnection, fileVars, mutexVars, fileNotes, SameFile
  <1>3. SameTimer
    <2>1. CASE StartReceive(t)
      BY <2>1, TypedStacks DEF StartReceive, ExpiresIn, SameTimer, fileNotes
    <2>2. CASE ~StartReceive(t)
      BY <2>2 DEF Callback, Accepted, AcceptFailed, Received, ReceivedInVain, ReceiveFailed,
                  ReceiveAborted, Disconnected, UnlockConnection, SameTimer, fileNotes
    <2> QED
      BY <2>1, <2>2
  <1> QED
    BY <1>1, <1>2, <1>3 DEF Effect, Keeps, Rests

LEMMA WriteTurns ==
  ASSUME Typed, Ordered, NEW t \in Thread
  PROVE  /\ WriteToOpen(t) => StackTyped' /\ Ordered' /\ TakesOpen(t)
         /\ WriteToNew(t) => StackTyped' /\ Ordered' /\ TakesNew(t)
         /\ CannotOpen(t) => StackTyped' /\ Ordered' /\ TakesNone(t)
  <1>1. ASSUME WriteToOpen(t) PROVE StackTyped' /\ Ordered' /\ TakesOpen(t)
    <2>1. Effect(t, "none", "write", 0, 1, 0, 0, 1, FALSE)
      BY <1>1, TypedStacks, WriteEffect
    <2> QED
      BY <1>1, <2>1 DEF Effect, Keeps, WriteToOpen, TakesOpen, Takes, SameTimer, fileVars, IsOpen
  <1>2. ASSUME WriteToNew(t) PROVE StackTyped' /\ Ordered' /\ TakesNew(t)
    <2>1. Effect(t, "none", "write", 0, 1, 0, 0, 1, FALSE)
      BY <1>2, TypedStacks, WriteEffect
    <2>2. armed'[File_Timer] # "off"
      BY <1>2, TypedStacks DEF WriteToNew, ExpiresIn
    <2> QED
      BY <1>2, <2>1, <2>2 DEF Effect, Keeps, WriteToNew, TakesNew, Takes, Opens, IsOpen, NextNumber
  <1>3. ASSUME CannotOpen(t) PROVE StackTyped' /\ Ordered' /\ TakesNone(t)
    <2>1. Effect(t, "none", "unlock", 0, 1, 0, 0, 1, FALSE)
      BY <1>3, TypedStacks, WriteEffect
    <2>2. nfile \in 0 .. MaxFiles /\ MaxFiles \in Nat
      BY ReceiverAssumption DEF Typed, TypeOK
    <2>3. /\ handle = "closed" /\ handle' \in {"closed", "bare"} /\ UNCHANGED writing
          /\ \/ nfile' \in {nfile, nfile + 1} /\ nfile' <= MaxFiles /\ UNCHANGED disk
             \/ /\ nfile < MaxFiles /\ nfile' = nfile + 1
                /\ disk' = [disk EXCEPT ![nfile + 1] = NewFile]
      BY <1>3, <2>2 DEF CannotOpen, Opens, IsOpen, NextNumber
    <2> QED
      BY <1>3, <2>1, <2>3 DEF Effect, Keeps, CannotOpen, TakesNone, SameTimer
  <1> QED
    BY <1>1, <1>2, <1>3

LEMMA WriteFileTurns ==
  ASSUME Typed, Ordered, NEW t \in Thread, WriteFile(t)
  PROVE  \/ Halts
         \/ /\ StackTyped' /\ Ordered'
            /\ WritesLater(t) \/ \E r \in {"done", "error"} : Writes(t, r)
  <1>1. ASSUME NEW r \in {"done", "error"}, WriteAtOnce(t, r), Appended(r)
        PROVE  StackTyped' /\ Ordered' /\ Writes(t, r)
    <2>1. Effect(t, "write", Ended(r), 0, 1, 0, 0, 1, FALSE)
      BY <1>1, TypedStacks, WriteFileEffect DEF Ended
    <2> QED
      BY <1>1, <2>1 DEF Effect, Keeps, Writes, WriteFile, WriteAtOnce, mutexVars, fileNotes, fileVars,
                        SameTimer
  <1>2. ASSUME WritePending(t), UNCHANGED disk PROVE StackTyped' /\ Ordered' /\ WritesLater(t)
    <2>1. Effect(t, "write", "none", 0, 1, 0, 0, 0, FALSE)
      BY <1>2, TypedStacks, WriteFileEffect
    <2> QED
      BY <1>2, <2>1 DEF Effect, Keeps, WritesLater, WriteFile, WritePending, mutexVars, fileNotes, SameTimer
  <1>3. ASSUME WriteMisused(t), UNCHANGED disk PROVE Halts
    BY <1>3 DEF WriteFile, WriteMisused, mutexVars, fileNotes, socketVars, Halts
  <1> QED
    BY <1>1, <1>2, <1>3 DEF WriteFile

LEMMA WrittenTurns ==
  ASSUME Typed, Ordered, NEW t \in Thread
  PROVE  /\ DataWritten(t) => StackTyped' /\ Ordered' /\ \E old \in BOOLEAN : Tallies(t, old)
         /\ WriteFailed(t) => StackTyped' /\ Ordered' /\ GivesUp(t)
  <1>1. ASSUME DataWritten(t)
        PROVE  StackTyped' /\ Ordered' /\ \E old \in BOOLEAN : Tallies(t, old)
    <2>1. PICK old \in Aged :
            IF Finished(filesize', old)
            THEN Effect(t, "done", "stop", 0, 1, 0, 0, 1, TRUE)
            ELSE Effect(t, "done", "unlock", 0, 1, 0, 0, 1, FALSE)
      BY <1>1, TypedStacks, DataWrittenEffect
    <2>2. old \in BOOLEAN /\ (timely /\ armed[File_Timer] = "off" => old)
      BY DEF Aged
    <2>3. /\ filesize' = filesize + count /\ count' = 0
          /\ UNCHANGED <<file_mutex, handle, writing, nfile, disk>>
          /\ armed'[File_Timer] = armed[File_Timer]
      BY <1>1 DEF DataWritten, SizeAfter, mutexVars, fileVars
    <2>4. StackTyped' /\ Ordered'
      BY <2>1 DEF Effect, Keeps
    <2>5. IF filesize' >= MaxFileSize \/ old
          THEN PhaseGoes(t, "done", "stop") /\ MovesOnly(t, TRUE)
          ELSE PhaseGoes(t, "done", "unlock") /\ MovesOnly(t, FALSE)
      BY <2>1 DEF Effect, Keeps, Finished
    <2> QED
      BY <2>2, <2>3, <2>4, <2>5 DEF Tallies
  <1>2. ASSUME WriteFailed(t) PROVE StackTyped' /\ Ordered' /\ GivesUp(t)
    <2>1. Effect(t, "failed", "stop", 0, 1, 0, 0, 1, WhatIsLeft = MoveFile)
      BY <1>2, TypedStacks, WriteFailedEffect
    <2>2. (WhatIsLeft = MoveFile) = (filesize > 0)
      BY FrameFields DEF WhatIsLeft
    <2> QED
      BY <1>2, <2>1, <2>2
         DEF Effect, Keeps, WriteFailed, GivesUp, mutexVars, fileVars, SameTimer
  <1> QED
    BY <1>1, <1>2

LEMMA CloseTurns ==
  ASSUME Typed, Ordered, NEW t \in Thread
  PROVE  /\ CloseFile(t) => StackTyped' /\ Ordered' /\ Closes(t)
         /\ Relocate(t) => StackTyped' /\ Ordered' /\ Relocates(t)
         /\ UnlockFileMutex(t) => StackTyped' /\ Ordered' /\ Unlocks(t)
  <1>1. ASSUME CloseFile(t) PROVE StackTyped' /\ Ordered' /\ Closes(t)
    <2>1. Effect(t, "close", "move", 0, 0, 0, 0, 0, FALSE)
      BY <1>1, TypedStacks, FiledReturns
    <2> QED
      BY <1>1, <2>1 DEF Effect, Keeps, CloseFile, FileClose, Closes, mutexVars, fileNotes, SameTimer
  <1>2. ASSUME Relocate(t) PROVE StackTyped' /\ Ordered' /\ Relocates(t)
    <2>1. Effect(t, "move", "unlock", 0, 0, 0, 0, 0, FALSE)
      BY <1>2, TypedStacks, FiledReturns
    <2>2. Running(t, "move_file") => OnStack(t, MoveFile)
      <3>1. ASSUME Running(t, "move_file") PROVE OnStack(t, MoveFile)
        <4>1. Head(stack[t]) \in Calls /\ Head(stack[t]) = MoveFile
          BY <3>1, TypedStacks, Executing, CallNamed
        <4>2. stack[t] \in Seq(Calls) /\ stack[t] # <<>>
          BY <3>1, TypedStacks DEF StackTyped, Running, Idle
        <4>3. 1 \in DOMAIN stack[t] /\ stack[t][1] = Head(stack[t])
          BY <4>2, EmptySeq, LenProperties
        <4> QED
          BY <4>1, <4>3 DEF OnStack
      <3> QED
        BY <3>1
    <2>3. \/ UNCHANGED disk
          \/ /\ handle = "closed" /\ disk[nfile].place = "tmpdir"
             /\ \E place \in {"finaldir", "deleted"} :
                  /\ disk' = [disk EXCEPT ![nfile].place = place]
                  /\ place = "finaldir" => OnStack(t, MoveFile)
      BY <1>2, <2>2 DEF Relocate, IsOpen
    <2> QED
      BY <1>2, <2>1, <2>3 DEF Effect, Keeps, Relocate, Relocates, mutexVars, fileNotes, fileVars, SameTimer
  <1>3. ASSUME UnlockFileMutex(t) PROVE StackTyped' /\ Ordered' /\ Unlocks(t)
    <2>1. Effect(t, "unlock", "none", 0, 0, 0, 0, 0, FALSE)
      BY <1>3, TypedStacks, FiledReturns
    <2> QED
      BY <1>3, <2>1 DEF Effect, Keeps, UnlockFileMutex, Unlocks, fileNotes, fileVars, SameTimer, SameFile
  <1> QED
    BY <1>1, <1>2, <1>3

LEMMA TimingTurns ==
  ASSUME Typed, Ordered, NEW t \in Thread, Timing(t)
  PROVE  /\ StackTyped' /\ Ordered'
         /\ Rests(t) \/ Stops(t) \/ Awaits(t) \/ ClosesOld(t) \/ InVain(t)
  <1>1. CASE CloseIdle(t)
    <2>1. Effect(t, "none", "none", 0, 0, 1, 1, 1, FALSE)
      BY <1>1, TypedStacks, TimerActsEffect
    <2> QED
      BY <1>1, <2>1 DEF Effect, Keeps, CloseIdle, Rests, fileVars, fileNotes, SameFile, SameTimer
  <1>2. CASE CloseOld(t)
    <2>1. Effect(t, "try", "close", 0, 0, 0, 0, 0, TRUE)
      BY <1>2, TypedStacks, TimerActsEffect
    <2> QED
      BY <1>2, <2>1 DEF Effect, Keeps, CloseOld, ClosesOld, fileVars, fileNotes, SameFile, SameTimer
  <1>3. CASE TimerInVain(t)
    <2>1. \/ Effect(t, "none", "none", 0, 0, 1, 0, 0, FALSE)
          \/ /\ Running(t, "try_lock_file") /\ file_mutex # 0
             /\ Effect(t, "try", "none", 0, 0, 0, 0, 0, FALSE)
      BY <1>3, TypedStacks, TimerActsEffect
    <2>2. /\ UNCHANGED file_mutex /\ SameFile /\ SameTimer
          /\ Running(t, "try_lock_file") => missed'
      BY <1>3 DEF TimerInVain, mutexVars, fileVars, SameFile, SameTimer
    <2> QED
      BY <2>1, <2>2 DEF Effect, Keeps, Rests, InVain
  <1>4. CASE Time(t)
    <2>1. UNCHANGED file_mutex /\ SameFile
      BY <1>4 DEF Time, mutexVars, fileVars, fileNotes, SameFile
    <2>2. CASE Disarm(t)
      <3>1. \/ On(t) = File_Timer /\ Effect(t, "stop", "await", 0, 0, 0, 0, 0, FALSE)
            \/ On(t) = Connection_Timer /\ Effect(t, "none", "none", 0, 0, 0, 0, 0, FALSE)
        BY <2>2, TypedStacks, DisarmEffect
      <3>2. /\ On(t) = File_Timer => armed'[File_Timer] = "off"
            /\ On(t) = Connection_Timer => SameTimer
            /\ UNCHANGED missed
        BY <1>4, <2>2, TypedStacks DEF Disarm, SameTimer, Time, fileNotes
      <3> QED
        BY <2>1, <3>1, <3>2 DEF Effect, Keeps, Rests, Stops
    <2>3. CASE CallbacksAwaited(t)
      <3>1. \/ On(t) = File_Timer /\ Effect(t, "await", "close", 0, 0, 0, 0, 0, FALSE)
            \/ On(t) = Connection_Timer /\ Effect(t, "none", "none", 0, 0, 0, 0, 0, FALSE)
        BY <2>3, TypedStacks, AwaitedEffect
      <3> QED
        BY <1>4, <2>1, <2>3, <3>1
           DEF Effect, Keeps, Rests, Awaits, CallbacksAwaited, SameTimer, Time, fileNotes
    <2>4. CASE CallbackEnds(t)
      <3>1. Effect(t, "none", "none", 0, 0, 0, 0, 0, FALSE)
        BY <2>4, TypedStacks, AwaitedEffect
      <3> QED
        BY <1>4, <2>1, <2>4, <3>1
           DEF Effect, Keeps, Rests, CallbackEnds, SameTimer, Time, fileNotes
    <2> QED
      BY <1>4, <2>2, <2>3, <2>4 DEF Time
  <1> QED
    BY <1>1, <1>2, <1>3, <1>4 DEF Timing

\* What a step of the socket does with the stack.
LEMMA StartedHow ==
  ASSUME Typed, NEW t \in Thread, Running(t, "begin"),
         Establish(t, AtOnceOutcomes(t)) \/ Transfer(t) \/ Disconnect(t)
  PROVE  (\E r \in Outcome : AtOnce(t, r)) \/ Pending(t)
  BY DEF Establish, Transfer, Disconnect, Outcome

LEMMA OperateTurns ==
  ASSUME Typed, Ordered, NEW t \in Thread, Operate(t)
  PROVE  Halts \/ (StackTyped' /\ Ordered' /\ Rests(t))
  <1>1. UNCHANGED file_mutex /\ SameFile /\ SameTimer
    BY DEF Operate, mutexVars, fileVars, fileNotes, SameFile, SameTimer
  <1>2. CASE MisusedStart(t)
    BY <1>2 DEF Operate, MisusedStart, Breach, mutexVars, fileVars, fileNotes, Halts
  <1>3. CASE Establish(t, AtOnceOutcomes(t)) \/ Transfer(t) \/ Disconnect(t)
    <2>1. Running(t, "begin")
      BY <1>3 DEF Establish, Transfer, Disconnect, Starts
    <2>2. (\E r \in Outcome : AtOnce(t, r)) \/ Pending(t)
      BY <1>3, <2>1, StartedHow
    <2>3. PICK k2 : Effect(t, "none", "none", 0, Carries(Op(t)), 0, 0, k2, FALSE)
      BY <2>1, <2>2, TypedStacks, StartsEffect
    <2> QED
      BY <1>1, <2>3 DEF Effect, Keeps, Rests
  <1>4. CASE Cancel(t) \/ SetIoPending(t)
    <2>1. Effect(t, "none", "none", 0, 0, 0, 0, 0, FALSE)
      BY <1>4, TypedStacks, CancelEffect
    <2> QED
      BY <1>1, <2>1 DEF Effect, Keeps, Rests
  <1> QED
    BY <1>2, <1>3, <1>4 DEF Operate

LEMMA CompletionTurns ==
  ASSUME Typed, Ordered, NEW t \in Pool
  PROVE  /\ \A s \in Sock, op \in Operation, r \in Outcome :
              Completion(t, s, op, r) => StackTyped' /\ Ordered' /\ Rests(t)
         /\ \A r \in {"done", "error"} :
              WriteCompletion(t, r) => StackTyped' /\ Ordered' /\ Learns(t, r)
  <1>1. ASSUME NEW s \in Sock, NEW op \in Operation, NEW r \in Outcome, Completion(t, s, op, r)
        PROVE  StackTyped' /\ Ordered' /\ Rests(t)
    <2>1. Effect(t, "none", "none", 0, 0, 0, 0, Carries(op), FALSE)
      BY <1>1, TypedStacks, CompletionEffect
    <2>2. UNCHANGED file_mutex /\ SameFile /\ SameTimer
      BY <1>1 DEF Completion, mutexVars, fileVars, fileNotes, SameFile, SameTimer
    <2> QED
      BY <2>1, <2>2 DEF Effect, Keeps, Rests
  <1>2. ASSUME NEW r \in {"done", "error"}, WriteCompletion(t, r)
        PROVE  StackTyped' /\ Ordered' /\ Learns(t, r)
    <2>1. Effect(t, "none", Ended(r), 0, 0, 0, 0, 1, FALSE)
      BY <1>2, TypedStacks, WriteCompletionEffect DEF Ended
    <2> QED
      BY <1>2, <2>1 DEF Effect, Keeps, Learns, WriteCompletion, WriteEnds, mutexVars, fileNotes, SameTimer
  <1> QED
    BY <1>1, <1>2

\* A thread that starts a callback of a timer.
LEMMA FiredStack ==
  ASSUME NEW t, NEW x, NEW f, NEW y, NEW tries, Fires(t, x, f, y, tries), f.call # "move_file",
         f.call # "timer_end"
  PROVE  /\ InCallback(t, x)'
         /\ MovesOnly(t, FALSE)
         /\ \A u \in Thread : \A z : InCallback(u, z)' => InCallback(u, z) \/ (u = t /\ z = x)
  <1>1. /\ stack'[t] = <<f, TimerEnd(x)>> /\ t \in Thread
        /\ \A u \in Thread \ {t} : stack'[u] = stack[u]
    BY DEF Fires, Goes
  <1> DEFINE c == <<f, TimerEnd(x)>>
  <1>2. DOMAIN c = 1 .. 2 /\ c[1] = f /\ c[2] = TimerEnd(x)
    OBVIOUS
  <1> HIDE DEF c
  <1>3. stack'[t] = c
    BY <1>1 DEF c
  <1>4. \A z : TimerEnd(z) # MoveFile /\ f # MoveFile /\ f # TimerEnd(z) /\ (TimerEnd(z) = TimerEnd(x) => z = x)
    BY FrameFields
  <1>5. InCallback(t, x)'
    BY <1>2, <1>3 DEF InCallback, OnStack
  <1>6. ~OnStack(t, MoveFile)'
    BY <1>2, <1>3, <1>4 DEF OnStack
  <1>7. \A z : InCallback(t, z)' => z = x
    BY <1>2, <1>3, <1>4 DEF InCallback, OnStack
  <1>8. \A u \in Thread \ {t} : OnStack(u, MoveFile)' => OnStack(u, MoveFile)
    BY <1>1 DEF OnStack
  <1>9. \A u \in Thread \ {t} : \A z : InCallback(u, z)' => InCallback(u, z)
    BY <1>1 DEF InCallback, OnStack
  <1> QED
    BY <1>5, <1>6, <1>7, <1>8, <1>9 DEF MovesOnly

LEMMA FireTurns ==
  ASSUME Typed, Ordered, NEW t \in Pool
  PROVE  /\ ConnectionTimerExpires(t) => StackTyped' /\ Ordered' /\ Rests(t)
         /\ FileTimerExpires(t) => StackTyped' /\ Ordered' /\ Wakes(t)
  <1>1. ASSUME ConnectionTimerExpires(t) PROVE StackTyped' /\ Ordered' /\ Rests(t)
    <2>1. Fires(t, Connection_Timer, TryLockConn, "none", 1)
      BY <1>1, TypedStacks, FireEffect
    <2>2. MovesOnly(t, FALSE)
      BY <2>1, FiredStack, FrameFields
    <2>3. SameTimer
      BY <1>1, TypedStacks DEF ConnectionTimerExpires, Expire, SameTimer, fileNotes
    <2> QED
      BY <1>1, <2>1, <2>2, <2>3
         DEF Fires, Rests, ConnectionTimerExpires, mutexVars, fileVars, fileNotes, SameFile
  <1>2. ASSUME FileTimerExpires(t) PROVE StackTyped' /\ Ordered' /\ Wakes(t)
    <2>1. Fires(t, File_Timer, TryLockFile, "try", 0)
      BY <1>2, TypedStacks, FireEffect
    <2>2. /\ InCallback(t, File_Timer)'
          /\ MovesOnly(t, FALSE)
      BY <2>1, FiredStack, FrameFields
    <2>3. armed[File_Timer] # "off" /\ armed'[File_Timer] = "off"
      BY <1>2, TypedStacks DEF FileTimerExpires, Expire
    <2> QED
      BY <1>2, <2>1, <2>2, <2>3
         DEF Fires, Wakes, FileTimerExpires, mutexVars, fileVars, fileNotes, SameFile
  <1> QED
    BY <1>1, <1>2

LEMMA Turns ==
  ASSUME Typed, Ordered, Next
  PROVE  /\ timely' = timely
         /\ Halts \/ (StackTyped' /\ Ordered' /\ \E t \in Thread : Turn(t))
  <1>1. CASE \E t \in Thread : Execute(t)
    <2>1. PICK t \in Thread : Execute(t)
      BY <1>1
    <2>2. timely' = timely /\ (Callback(t) \/ Filing(t) \/ Timing(t) \/ Operate(t))
      BY <2>1 DEF Execute
    <2>3. Filing(t) => Halts \/ (StackTyped' /\ Ordered' /\ Turn(t))
      BY WriteTurns, WriteFileTurns, WrittenTurns, CloseTurns DEF Filing, Turn
    <2> QED
      BY <2>2, <2>3, CallbackTurns, TimingTurns, OperateTurns DEF Turn
  <1>2. CASE \E t \in Pool, s \in Sock, op \in Operation, r \in Outcome : Completion(t, s, op, r)
    BY <1>2, CompletionTurns DEF Completion, Turn, Thread
  <1>3. CASE \E t \in Pool, r \in {"done", "error"} : WriteCompletion(t, r)
    BY <1>3, CompletionTurns DEF WriteCompletion, Turn, Thread
  <1>4. CASE \E t \in Pool : ConnectionTimerExpires(t) \/ FileTimerExpires(t)
    BY <1>4, FireTurns DEF ConnectionTimerExpires, FileTimerExpires, Turn, Thread
  <1>5. CASE Undefined
    BY <1>5 DEF Undefined, vars, socketVars, fileVars, mutexVars, fileNotes, Halts
  <1> QED
    BY <1>1, <1>2, <1>3, <1>4, <1>5 DEF Next

-----------------------------------------------------------------------------
(* The file.                                                               *)

\* The file mutex is taken when and only when one thread works on the file
\* or Windows writes to it, and never both.
FileHeld ==
  /\ \A t, u \in Thread : Phase(t) \in Busy /\ Phase(u) \in Busy => t = u
  /\ InPhase(Busy) => file_mutex = 1 /\ writing = "none"
  /\ writing # "none" => file_mutex = 1
  /\ file_mutex # 0 => writing # "none" \/ InPhase(Busy)

\* What has been written to is open, what is moved is not.
OpenAsNeeded ==
  /\ writing # "none" \/ InPhase({"done", "failed"}) => handle = "open"
  /\ InPhase({"move"}) => handle # "open"

\* An open file has the last number and is in the temporary directory; later
\* numbers are not in use.
InPlace ==
  /\ \A n \in 1 .. MaxFiles : n > nfile => disk[n] = NoFile
  /\ handle = "open" => nfile >= 1 /\ disk[nfile].place = "tmpdir"

\* What is being written, or has been, is not empty.
CountHeld == writing # "none" \/ InPhase({"write", "done"}) => count \in 1 .. BufferSize

\* _M_filesize lags behind by the write whose end is told.
SizeLags ==
  handle = "open" =>
    /\ InPhase({"done"}) => disk[nfile].size = filesize + count
    /\ ~InPhase({"done"}) => disk[nfile].size = filesize

\* A file of the maximum size, or bigger by less than a buffer, is about to be
\* closed; a file nobody works on has data.
SizeActedOn ==
  /\ filesize < MaxFileSize + BufferSize
  /\ handle = "open" /\ filesize >= MaxFileSize => InPhase(Ending)
  /\ handle = "open" /\ file_mutex = 0 => filesize > 0
  /\ handle = "open" /\ InPhase({"unlock"}) => filesize > 0

\* Whatever is to be moved has data.
MovesData ==
  \A t \in Thread :
    OnStack(t, MoveFile) /\ nfile >= 1 /\ disk[nfile].place = "tmpdir" => disk[nfile].size > 0

DataInPlace == \A n \in 1 .. MaxFiles : disk[n].place = "finaldir" => disk[n].size > 0

\* The file timer is set, or calls back, for an open file only, and not both;
\* when the file is closed it does neither.
TimedWhenOpen ==
  /\ armed[File_Timer] # "off" \/ InPhase({"try"}) => handle = "open"
  /\ InPhase({"try", "await", "close"}) => armed[File_Timer] = "off"
  /\ \A t, u \in Thread : Phase(t) = "try" /\ Phase(u) = "try" => t = u
  /\ InPhase({"close"}) => ~InPhase({"try"})
  /\ \A t \in Thread : Phase(t) = "try" => InCallback(t, File_Timer)

\* When the clock agrees with the file timer and that has not fired in vain,
\* whoever finds it off deals with the file.
Attended ==
  timely /\ handle = "open" /\ armed[File_Timer] = "off" /\ ~missed =>
    writing # "none" \/ InPhase(Ending \cup {"try", "write", "done", "failed"})

Filed ==
  /\ FileHeld /\ OpenAsNeeded /\ InPlace /\ CountHeld /\ SizeLags /\ SizeActedOn /\ MovesData
  /\ DataInPlace /\ TimedWhenOpen /\ Attended

LEMMA UnlockedOne == Unlocked(1) = 0
  <1>1. 1 + MutexSize - 1 = MutexSize /\ MutexSize % MutexSize = 0
    BY ReceiverAssumption
  <1> QED
    BY <1>1 DEF Unlocked

LEMMA HeldStep ==
  ASSUME Typed, Filed, NEW t \in Thread, Turn(t)
  PROVE  FileHeld'
  <1>1. Unlocked(1) = 0 /\ file_mutex \in 0 .. 1
    BY UnlockedOne DEF Typed, TypeOK
  <1>2. FileHeld /\ OpenAsNeeded
    BY DEF Filed
  <1>3. CASE Rests(t) \/ Wakes(t) \/ InVain(t)
    BY <1>2, <1>3 DEF Rests, Wakes, InVain, FileHeld, Busy, PhaseGoes, InPhase, SameFile
  <1>4. CASE TakesOpen(t) \/ TakesNew(t) \/ TakesNone(t) \/ ClosesOld(t)
    <2>1. PICK x \in {"none", "try"}, y \in Busy : PhaseGoes(t, x, y)
      BY <1>4 DEF TakesOpen, TakesNew, TakesNone, ClosesOld, Takes, Busy
    <2>2. file_mutex = 0 /\ file_mutex' = 1 /\ writing' = writing
      BY <1>4 DEF TakesOpen, TakesNew, TakesNone, ClosesOld, Takes, SameFile
    <2>3. writing = "none" /\ \A u \in Thread : Phase(u) \notin Busy
      BY <1>2, <2>2 DEF FileHeld, InPhase
    <2>4. Phase(t)' \in Busy /\ \A u \in Thread \ {t} : Phase(u)' \notin Busy
      BY <2>1, <2>3 DEF PhaseGoes
    <2> QED
      BY <2>2, <2>3, <2>4 DEF FileHeld, InPhase
  <1>5. CASE \/ \E r \in {"done", "error"} : Writes(t, r)
             \/ \E old \in BOOLEAN : Tallies(t, old)
             \/ GivesUp(t) \/ Stops(t) \/ Awaits(t) \/ Closes(t) \/ Relocates(t)
    <2>1. PICK x \in Busy, y \in Busy : PhaseGoes(t, x, y)
      <3>1. CASE \E r \in {"done", "error"} : Writes(t, r)
        BY <3>1 DEF Writes, Ended, Busy
      <3>2. CASE \E old \in BOOLEAN : Tallies(t, old)
        BY <3>2 DEF Tallies, Busy
      <3>3. CASE GivesUp(t) \/ Stops(t) \/ Awaits(t) \/ Closes(t) \/ Relocates(t)
        BY <3>3 DEF GivesUp, Stops, Awaits, Closes, Relocates, Busy
      <3> QED
        BY <1>5, <3>1, <3>2, <3>3
    <2>2. file_mutex' = file_mutex /\ writing' = writing
      <3>1. CASE \E r \in {"done", "error"} : Writes(t, r)
        BY <3>1 DEF Writes, SameFile
      <3>2. CASE \E old \in BOOLEAN : Tallies(t, old)
        BY <3>2 DEF Tallies, SameFile
      <3>3. CASE GivesUp(t) \/ Stops(t) \/ Awaits(t) \/ Closes(t) \/ Relocates(t)
        <4>1. writing = "none"
          BY <1>2, <2>1 DEF FileHeld, InPhase, PhaseGoes
        <4> QED
          BY <3>3, <4>1 DEF GivesUp, Stops, Awaits, Closes, Relocates, SameFile
      <3> QED
        BY <1>5, <3>1, <3>2, <3>3
    <2> QED
      BY <1>2, <2>1, <2>2 DEF FileHeld, PhaseGoes, InPhase
  <1>6. CASE WritesLater(t) \/ \E r \in {"done", "error"} : Learns(t, r)
    BY <1>2, <1>6 DEF WritesLater, Learns, Ended, FileHeld, Busy, PhaseGoes, InPhase
  <1>7. CASE Unlocks(t)
    BY <1>1, <1>2, <1>7 DEF Unlocks, FileHeld, Busy, PhaseGoes, InPhase, SameFile
  <1> QED
    BY <1>3, <1>4, <1>5, <1>6, <1>7 DEF Turn

\* A thread of a busy phase is alone; a step that takes the mutex finds nobody.
LEMMA BusyAlone ==
  ASSUME FileHeld, NEW t \in Thread
  PROVE  /\ Phase(t) \in Busy =>
              /\ file_mutex = 1 /\ writing = "none"
              /\ \A u \in Thread \ {t} : Phase(u) \notin Busy
         /\ file_mutex = 0 => writing = "none" /\ \A u \in Thread : Phase(u) \notin Busy
         /\ writing # "none" => \A u \in Thread : Phase(u) \notin Busy
  BY DEF FileHeld, InPhase

LEMMA OpenStep ==
  ASSUME Typed, Filed, NEW t \in Thread, Turn(t)
  PROVE  OpenAsNeeded'
  <1>1. FileHeld /\ OpenAsNeeded /\ TimedWhenOpen
    BY DEF Filed
  <1>2. CASE Rests(t) \/ Wakes(t) \/ InVain(t) \/ TakesOpen(t) \/ Stops(t) \/ Awaits(t)
             \/ ClosesOld(t) \/ GivesUp(t) \/ Unlocks(t)
    BY <1>1, <1>2 DEF Rests, Wakes, InVain, TakesOpen, Takes, Stops, Awaits, ClosesOld, GivesUp,
                      Unlocks, OpenAsNeeded, PhaseGoes, InPhase, SameFile
  <1>3. CASE TakesNew(t) \/ TakesNone(t)
    <2>1. writing = "none" /\ \A u \in Thread : Phase(u) \notin Busy
      BY <1>1, <1>3, BusyAlone DEF TakesNew, TakesNone, Takes
    <2>2. PhaseGoes(t, "none", "write") \/ PhaseGoes(t, "none", "unlock")
      BY <1>3 DEF TakesNew, TakesNone, Takes
    <2>3. writing' = writing
      BY <1>3 DEF TakesNew, TakesNone, Takes
    <2> QED
      BY <2>1, <2>2, <2>3 DEF OpenAsNeeded, PhaseGoes, InPhase, Busy
  <1>4. CASE \/ \E r \in {"done", "error"} : Writes(t, r) \/ Learns(t, r)
             \/ WritesLater(t) \/ Relocates(t) \/ \E old \in BOOLEAN : Tallies(t, old)
    <2>1. handle' = handle /\ (writing' # "none" => handle = "open")
      BY <1>1, <1>4 DEF Writes, Learns, WritesLater, Relocates, Tallies, OpenAsNeeded
    <2>2. /\ Phase(t)' # "move" /\ (Phase(t)' \in {"done", "failed"} => handle = "open")
          /\ \A u \in Thread \ {t} : Phase(u)' = Phase(u)
      BY <1>1, <1>4 DEF Writes, Learns, WritesLater, Relocates, Tallies, Ended, OpenAsNeeded,
                        PhaseGoes
    <2> QED
      BY <1>1, <2>1, <2>2 DEF OpenAsNeeded, InPhase
  <1>5. CASE Closes(t)
    <2>1. PhaseGoes(t, "close", "move") /\ handle' = "closed"
      BY <1>5 DEF Closes
    <2>2. writing = "none" /\ \A u \in Thread \ {t} : Phase(u) \notin Busy
      BY <1>1, <2>1, BusyAlone DEF PhaseGoes, Busy
    <2>3. writing' = "none"
      BY <1>5, <2>2 DEF Closes
    <2> QED
      BY <2>1, <2>2, <2>3 DEF OpenAsNeeded, PhaseGoes, InPhase, Busy
  <1> QED
    BY <1>2, <1>3, <1>4, <1>5 DEF Turn

\* What happens to the disk: nothing, an append to the open file, a new file,
\* or a move of the file opened last, which is not open.
DiskTurn ==
  \/ UNCHANGED <<nfile, disk>>
  \/ /\ handle = "open" /\ UNCHANGED nfile
     /\ disk' = [disk EXCEPT ![nfile].size = @ + count]
  \/ /\ nfile < MaxFiles /\ nfile' = nfile + 1
     /\ UNCHANGED disk \/ disk' = [disk EXCEPT ![nfile + 1] = NewFile]
  \/ /\ handle # "open" /\ UNCHANGED nfile /\ disk[nfile].place = "tmpdir"
     /\ \E place \in {"finaldir", "deleted"} :
          /\ disk' = [disk EXCEPT ![nfile].place = place]
          /\ place = "finaldir" => \E t \in Thread : OnStack(t, MoveFile)

LEMMA DiskTurns ==
  ASSUME Typed, Filed, NEW t \in Thread, Turn(t)
  PROVE  /\ DiskTurn
         /\ nfile \in 0 .. MaxFiles /\ nfile' \in 0 .. MaxFiles /\ MaxFiles \in Nat
         /\ disk \in [1 .. MaxFiles -> FileOnDisk] /\ count \in Nat
         /\ handle' = "open" => (handle = "open" /\ nfile' = nfile) \/ TakesNew(t)
  <1>1. /\ nfile \in 0 .. MaxFiles /\ MaxFiles \in Nat /\ count \in Nat
        /\ disk \in [1 .. MaxFiles -> FileOnDisk] /\ OpenAsNeeded
    BY ReceiverAssumption DEF Typed, TypeOK, Filed
  <1>2. CASE UNCHANGED <<handle, nfile, disk>>
    BY <1>1, <1>2 DEF DiskTurn
  <1>3. CASE \E r \in {"done", "error"} : Writes(t, r) \/ Learns(t, r)
    BY <1>1, <1>3 DEF DiskTurn, Writes, Learns, Appended, OpenAsNeeded
  <1>4. CASE TakesNew(t)
    BY <1>1, <1>4 DEF DiskTurn, TakesNew
  <1>5. CASE TakesNone(t)
    BY <1>1, <1>5 DEF DiskTurn, TakesNone
  <1>6. CASE Closes(t)
    BY <1>1, <1>6 DEF DiskTurn, Closes
  <1>7. CASE Relocates(t)
    BY <1>1, <1>7 DEF DiskTurn, Relocates
  <1>8. \/ UNCHANGED <<handle, nfile, disk>>
        \/ \E r \in {"done", "error"} : Writes(t, r) \/ Learns(t, r)
        \/ TakesNew(t) \/ TakesNone(t) \/ Closes(t) \/ Relocates(t)
    BY DEF Turn, Rests, TakesOpen, WritesLater, Tallies, GivesUp, Stops, Awaits, Unlocks, Wakes,
           ClosesOld, InVain, SameFile
  <1> QED
    BY <1>2, <1>3, <1>4, <1>5, <1>6, <1>7, <1>8

LEMMA PlaceStep ==
  ASSUME Typed, Filed, NEW t \in Thread, Turn(t)
  PROVE  InPlace' /\ DataInPlace' /\ disk' \in [1 .. MaxFiles -> FileOnDisk]
  <1>1. /\ DiskTurn /\ InPlace /\ DataInPlace /\ MovesData
        /\ nfile \in 0 .. MaxFiles /\ nfile' \in 0 .. MaxFiles /\ MaxFiles \in Nat
        /\ disk \in [1 .. MaxFiles -> FileOnDisk] /\ count \in Nat
    BY DiskTurns DEF Filed
  <1>2. /\ NewFile \in FileOnDisk /\ NoFile \in FileOnDisk /\ NoFile.place = "none"
        /\ NewFile.place = "tmpdir" /\ NewFile.size = 0
    BY DEF NewFile, NoFile, FileOnDisk
  <1>3. /\ disk' \in [1 .. MaxFiles -> FileOnDisk]
        /\ \A n \in 1 .. MaxFiles : n > nfile' => disk'[n] = NoFile
    <2>1. CASE UNCHANGED <<nfile, disk>>
      BY <1>1, <2>1 DEF InPlace
    <2>2. CASE handle = "open" /\ UNCHANGED nfile /\ disk' = [disk EXCEPT ![nfile].size = @ + count]
      <3>1. nfile \in 1 .. MaxFiles
        BY <1>1, <2>2 DEF InPlace
      <3>2. [disk[nfile] EXCEPT !.size = @ + count] \in FileOnDisk
        BY <1>1, <3>1 DEF FileOnDisk
      <3> QED
        BY <1>1, <2>2, <3>1, <3>2 DEF InPlace
    <2>3. CASE /\ nfile < MaxFiles /\ nfile' = nfile + 1
               /\ UNCHANGED disk \/ disk' = [disk EXCEPT ![nfile + 1] = NewFile]
      BY <1>1, <1>2, <2>3 DEF InPlace
    <2>4. CASE \E place \in {"finaldir", "deleted"} :
                 UNCHANGED nfile /\ disk[nfile].place = "tmpdir"
                 /\ disk' = [disk EXCEPT ![nfile].place = place]
      <3>1. \A n \in 1 .. MaxFiles : n > nfile => disk'[n] = NoFile
        BY <1>1, <2>4 DEF InPlace
      <3>2. disk' \in [1 .. MaxFiles -> FileOnDisk]
        BY <1>1, <2>4 DEF FileOnDisk
      <3> QED
        BY <2>4, <3>1, <3>2
    <2> QED
      BY <1>1, <2>1, <2>2, <2>3, <2>4 DEF DiskTurn
  <1>4. DataInPlace'
    <2>1. CASE UNCHANGED <<nfile, disk>>
      BY <1>1, <2>1 DEF DataInPlace
    <2>2. CASE handle = "open" /\ UNCHANGED nfile /\ disk' = [disk EXCEPT ![nfile].size = @ + count]
      BY <1>1, <2>2 DEF DataInPlace, InPlace, FileOnDisk
    <2>3. CASE disk' = [disk EXCEPT ![nfile + 1] = NewFile]
      BY <1>1, <1>2, <2>3 DEF DataInPlace
    <2>4. CASE /\ handle # "open" /\ disk[nfile].place = "tmpdir"
               /\ \E place \in {"finaldir", "deleted"} :
                    /\ disk' = [disk EXCEPT ![nfile].place = place]
                    /\ place = "finaldir" => \E u \in Thread : OnStack(u, MoveFile)
      BY <1>1, <2>4 DEF DataInPlace, MovesData, FileOnDisk
    <2> QED
      BY <1>1, <2>1, <2>2, <2>3, <2>4 DEF DiskTurn, DataInPlace
  <1>5. ASSUME handle' = "open" PROVE nfile' >= 1 /\ disk'[nfile'].place = "tmpdir"
    <2>1. CASE TakesNew(t)
      BY <1>1, <1>2, <2>1 DEF TakesNew
    <2>2. CASE handle = "open" /\ nfile' = nfile
      BY <1>1, <2>2 DEF DiskTurn, InPlace, FileOnDisk
    <2> QED
      BY <1>5, <2>1, <2>2, DiskTurns
  <1> QED
    BY <1>3, <1>4, <1>5 DEF InPlace

LEMMA CountStep ==
  ASSUME Typed, Filed, NEW t \in Thread, Turn(t)
  PROVE  CountHeld'
  <1>1. FileHeld /\ CountHeld
    BY DEF Filed
  <1>2. CASE TakesOpen(t) \/ TakesNew(t)
    BY <1>2 DEF TakesOpen, TakesNew, Takes, CountHeld
  <1>3. CASE GivesUp(t) \/ \E old \in BOOLEAN : Tallies(t, old)
    <2>1. /\ Phase(t) \in Busy /\ Phase(t)' \notin {"write", "done"} /\ writing' = writing
          /\ \A u \in Thread \ {t} : Phase(u)' = Phase(u)
      BY <1>3 DEF GivesUp, Tallies, PhaseGoes, Busy
    <2>2. writing = "none" /\ \A u \in Thread \ {t} : Phase(u) \notin Busy
      BY <1>1, <2>1, BusyAlone
    <2> QED
      BY <2>1, <2>2 DEF CountHeld, InPhase, Busy
  <1>4. CASE \/ \E r \in {"done", "error"} : Writes(t, r) \/ Learns(t, r)
             \/ WritesLater(t)
    <2>1. count' = count /\ (writing # "none" \/ Phase(t) = "write")
      BY <1>4 DEF Writes, Learns, WritesLater, PhaseGoes
    <2>2. count \in 1 .. BufferSize
      BY <1>1, <2>1 DEF CountHeld, InPhase
    <2> QED
      BY <2>1, <2>2 DEF CountHeld
  <1>5. CASE Closes(t)
    <2>1. /\ Phase(t) \in Busy /\ Phase(t)' = "move" /\ count' = count
          /\ \A u \in Thread \ {t} : Phase(u)' = Phase(u)
      BY <1>5 DEF Closes, PhaseGoes, Busy
    <2>2. writing = "none"
      BY <1>1, <2>1, BusyAlone
    <2>3. writing' = "none"
      BY <1>5, <2>2 DEF Closes
    <2> QED
      BY <1>1, <2>1, <2>3 DEF CountHeld, InPhase
  <1>6. CASE \/ Rests(t) \/ TakesNone(t) \/ Stops(t) \/ Awaits(t) \/ Relocates(t) \/ Unlocks(t)
             \/ Wakes(t) \/ ClosesOld(t) \/ InVain(t)
    <2>1. UNCHANGED <<writing, count>>
      BY <1>6 DEF Rests, TakesNone, Stops, Awaits, Relocates, Unlocks, Wakes, ClosesOld, InVain,
                  SameFile
    <2>2. Phase(t)' \notin {"write", "done"} /\ \A u \in Thread \ {t} : Phase(u)' = Phase(u)
      BY <1>6 DEF Rests, TakesNone, Stops, Awaits, Relocates, Unlocks, Wakes, ClosesOld, InVain,
                  PhaseGoes
    <2> QED
      BY <1>1, <2>1, <2>2 DEF CountHeld, InPhase
  <1> QED
    BY <1>2, <1>3, <1>4, <1>5, <1>6 DEF Turn

\* Who is telling that a write is done, before and after a step.
LEMMA SizeStep ==
  ASSUME Typed, Filed, NEW t \in Thread, Turn(t)
  PROVE  SizeLags'
  <1>1. /\ FileHeld /\ OpenAsNeeded /\ SizeLags /\ InPlace
        /\ nfile \in 0 .. MaxFiles /\ MaxFiles \in Nat
        /\ disk \in [1 .. MaxFiles -> FileOnDisk] /\ filesize \in Nat /\ count \in Nat
    BY ReceiverAssumption DEF Typed, TypeOK, Filed
  <1>2. CASE /\ UNCHANGED <<handle, nfile, filesize, disk>>
             /\ \E x, y : PhaseGoes(t, x, y) /\ x # "done" /\ y # "done"
             /\ count' = count \/ ~InPhase({"done"})
    BY <1>1, <1>2 DEF SizeLags, PhaseGoes, InPhase
  <1>3. CASE handle' # "open"
    BY <1>3 DEF SizeLags
  <1>4. CASE TakesNew(t)
    <2>1. \A u \in Thread : Phase(u) \notin Busy
      BY <1>1, <1>4, BusyAlone DEF TakesNew, Takes
    <2>2. ~InPhase({"done"})'
      BY <1>4, <2>1 DEF TakesNew, Takes, PhaseGoes, InPhase, Busy
    <2>3. nfile' \in 1 .. MaxFiles /\ disk'[nfile'] = NewFile /\ filesize' = 0
      BY <1>1, <1>4 DEF TakesNew
    <2> QED
      BY <2>2, <2>3 DEF SizeLags, NewFile
  <1>5. ASSUME NEW r \in {"done", "error"}, Writes(t, r) \/ Learns(t, r)
        PROVE  SizeLags'
    <2>1. handle = "open" /\ UNCHANGED <<handle, nfile, filesize, count>> /\ Appended(r)
      BY <1>1, <1>5 DEF Writes, Learns, OpenAsNeeded
    <2>2. ~InPhase({"done"})
      BY <1>1, <1>5, BusyAlone DEF Writes, Learns, PhaseGoes, InPhase, Busy
    <2>3. InPhase({"done"})' <=> r = "done"
      BY <1>5, <2>2 DEF Writes, Learns, PhaseGoes, InPhase, Ended
    <2>4. nfile \in 1 .. MaxFiles /\ disk[nfile].size = filesize
      BY <1>1, <2>1, <2>2 DEF InPlace, SizeLags
    <2>5. disk'[nfile].size = IF r = "done" THEN filesize + count ELSE filesize
      BY <1>1, <2>1, <2>4 DEF Appended, FileOnDisk
    <2> QED
      BY <2>1, <2>3, <2>5 DEF SizeLags
  <1>6. ASSUME NEW old \in BOOLEAN, Tallies(t, old)
        PROVE  SizeLags'
    <2>1. Phase(t) = "done" /\ Phase(t)' # "done" /\ \A u \in Thread \ {t} : Phase(u)' = Phase(u)
      BY <1>6 DEF Tallies, PhaseGoes
    <2>2. \A u \in Thread \ {t} : Phase(u) \notin Busy
      BY <1>1, <2>1, BusyAlone DEF Busy
    <2>3. ~InPhase({"done"})' /\ InPhase({"done"})
      BY <2>1, <2>2 DEF InPhase, Busy
    <2> QED
      BY <1>1, <1>6, <2>3 DEF Tallies, SizeLags
  <1>7. \/ /\ UNCHANGED <<handle, nfile, filesize, disk>>
           /\ \E x, y : PhaseGoes(t, x, y) /\ x # "done" /\ y # "done"
           /\ count' = count \/ ~InPhase({"done"})
        \/ handle' # "open" \/ TakesNew(t)
        \/ \E r \in {"done", "error"} : Writes(t, r) \/ Learns(t, r)
        \/ \E old \in BOOLEAN : Tallies(t, old)
    <2>1. Closes(t) \/ TakesNone(t) => handle' # "open"
      BY DEF Closes, TakesNone
    <2>2. Relocates(t) => handle' # "open" \/ UNCHANGED <<handle, nfile, filesize, disk>>
      BY DEF Relocates
    <2>3. \/ Rests(t) \/ TakesOpen(t) \/ WritesLater(t) \/ GivesUp(t) \/ Stops(t) \/ Awaits(t)
          \/ Unlocks(t) \/ Wakes(t) \/ ClosesOld(t) \/ InVain(t)
          => UNCHANGED <<handle, nfile, filesize, disk>>
      BY DEF Rests, TakesOpen, WritesLater, GivesUp, Stops, Awaits, Unlocks, Wakes, ClosesOld,
             InVain, SameFile
    <2>4. \/ Rests(t) \/ TakesOpen(t) \/ WritesLater(t) \/ GivesUp(t) \/ Stops(t) \/ Awaits(t)
          \/ Unlocks(t) \/ Wakes(t) \/ ClosesOld(t) \/ InVain(t) \/ Relocates(t)
          => \E x, y : PhaseGoes(t, x, y) /\ x # "done" /\ y # "done"
      BY DEF Rests, TakesOpen, Takes, WritesLater, GivesUp, Stops, Awaits, Unlocks, Wakes,
             ClosesOld, InVain, Relocates
    <2>5. TakesOpen(t) \/ GivesUp(t) => ~InPhase({"done"})
      BY <1>1, BusyAlone DEF TakesOpen, Takes, GivesUp, PhaseGoes, InPhase, Busy
    <2>6. \/ Rests(t) \/ WritesLater(t) \/ Stops(t) \/ Awaits(t) \/ Unlocks(t) \/ Wakes(t)
          \/ ClosesOld(t) \/ InVain(t) \/ Relocates(t)
          => count' = count
      BY DEF Rests, WritesLater, Stops, Awaits, Unlocks, Wakes, ClosesOld, InVain, Relocates,
             SameFile
    <2> QED
      BY <2>1, <2>2, <2>3, <2>4, <2>5, <2>6 DEF Turn
  <1> QED
    BY <1>2, <1>3, <1>4, <1>5, <1>6, <1>7

LEMMA SizeActStep ==
  ASSUME Typed, Filed, NEW t \in Thread, Turn(t)
  PROVE  SizeActedOn'
  <1>1. /\ FileHeld /\ OpenAsNeeded /\ SizeActedOn /\ TimedWhenOpen
        /\ filesize \in Nat /\ MaxFileSize \in Nat \ {0} /\ file_mutex \in 0 .. 1
        /\ BufferSize \in Nat \ {0} /\ CountHeld
    BY ReceiverAssumption DEF Typed, TypeOK, Filed
  <1>2. CASE TakesNew(t) \/ TakesNone(t) \/ Closes(t)
    <2>1. CASE TakesNew(t)
      <3>1. \A u \in Thread : Phase(u) \notin Busy
        BY <1>1, <2>1, BusyAlone DEF TakesNew, Takes
      <3>2. ~InPhase({"unlock"})'
        BY <2>1, <3>1 DEF TakesNew, Takes, PhaseGoes, InPhase, Busy
      <3> QED
        BY <1>1, <2>1, <3>2 DEF TakesNew, Takes, SizeActedOn
    <2>2. CASE TakesNone(t) \/ Closes(t)
      BY <1>1, <2>2 DEF TakesNone, Closes, SizeActedOn
    <2> QED
      BY <1>2, <2>1, <2>2
  <1>3. ASSUME NEW old \in BOOLEAN, Tallies(t, old)
        PROVE  SizeActedOn'
    <2>1. /\ Phase(t) = "done" /\ filesize' = filesize + count
          /\ UNCHANGED <<handle, file_mutex>>
      BY <1>3 DEF Tallies, PhaseGoes
    <2>2. /\ handle = "open" /\ file_mutex = 1 /\ count \in 1 .. BufferSize
          /\ \A u \in Thread \ {t} : Phase(u) \notin Busy
      BY <1>1, <2>1, BusyAlone DEF OpenAsNeeded, CountHeld, InPhase, Busy
    <2>3. ~InPhase(Ending)
      BY <2>1, <2>2 DEF InPhase, Ending, Busy
    <2>4. filesize < MaxFileSize
      BY <1>1, <2>2, <2>3 DEF SizeActedOn
    <2>5. filesize' >= MaxFileSize => Phase(t)' = "stop"
      BY <1>3 DEF Tallies, PhaseGoes
    <2> QED
      BY <1>1, <2>1, <2>2, <2>4, <2>5 DEF SizeActedOn, InPhase, Ending
  <1>4. CASE /\ UNCHANGED <<handle, filesize>>
             /\ \/ TakesOpen(t) \/ Rests(t) \/ WritesLater(t)
                \/ \E r \in {"done", "error"} : Writes(t, r) \/ Learns(t, r)
                \/ GivesUp(t) \/ Stops(t) \/ Awaits(t) \/ Relocates(t)
                \/ Unlocks(t) \/ Wakes(t) \/ ClosesOld(t) \/ InVain(t)
    <2>1. /\ \A u \in Thread \ {t} : Phase(u)' = Phase(u)
          /\ Phase(t) \in Ending => Phase(t)' \in Ending
      BY <1>4 DEF TakesOpen, Takes, Rests, WritesLater, Writes, Learns, GivesUp, Stops, Awaits,
                  Relocates, Unlocks, Wakes, ClosesOld, InVain, PhaseGoes, Ended, Ending
    <2>2. Phase(t)' = "unlock" => handle # "open"
      BY <1>1, <1>4
         DEF TakesOpen, Takes, Rests, WritesLater, Writes, Learns, GivesUp, Stops, Awaits,
             Relocates, Unlocks, Wakes, ClosesOld, InVain, PhaseGoes, Ended, OpenAsNeeded, InPhase
    <2>3. file_mutex' = 0 => file_mutex = 0 \/ Phase(t) = "unlock"
      BY <1>1, <1>4 DEF TakesOpen, Takes, Rests, WritesLater, Writes, Learns, GivesUp, Stops,
             Awaits, Relocates, Unlocks, Wakes, ClosesOld, InVain, PhaseGoes
    <2> QED
      BY <1>1, <1>4, <2>1, <2>2, <2>3 DEF SizeActedOn, InPhase
  <1>5. \/ TakesNew(t) \/ TakesNone(t) \/ Closes(t)
        \/ \E old \in BOOLEAN : Tallies(t, old)
        \/ UNCHANGED <<handle, filesize>>
    BY DEF Turn, Rests, TakesOpen, WritesLater, Writes, Learns, GivesUp, Stops, Awaits, Relocates,
           Unlocks, Wakes, ClosesOld, InVain, SameFile
  <1> QED
    BY <1>2, <1>3, <1>4, <1>5 DEF Turn

\* A thread that has the call that moves the file works on the file.
LEMMA MoverBusy ==
  ASSUME StackTyped, Ordered, NEW t \in Thread, OnStack(t, MoveFile)
  PROVE  Phase(t) \in Ending \cup {"move"}
  <1> DEFINE q == stack[t]
  <1>1. q \in Seq(Calls) /\ Staged(q)
    BY DEF StackTyped, Ordered
  <1>2. PICK i \in DOMAIN q : q[i] = MoveFile
    BY DEF OnStack
  <1>3. /\ Len(q) \in Nat /\ DOMAIN q = 1 .. Len(q) /\ PhaseOf(q[i]) = "move"
        /\ q # <<>> /\ Head(q) = q[1] /\ 1 \in DOMAIN q
    BY <1>1, <1>2, LenProperties, EmptySeq, Phases
  <1>4. Phase(t) = PhaseOf(q[1])
    BY <1>3 DEF Phase, Phased
  <1>5. PhaseOf(q[1]) \notin Last
    <2>1. CASE i = 1
      BY <1>3, <2>1 DEF Last
    <2>2. CASE i > 1
      BY <1>1, <1>2, <1>3, <2>2 DEF Staged
    <2> QED
      BY <1>3, <2>1, <2>2
  <1>6. PhaseOf(q[1]) \in {"write", "done", "failed", "unlock", "move", "close", "await", "stop",
                           "try", "none"}
    BY DEF PhaseOf
  <1> QED
    BY <1>4, <1>5, <1>6 DEF Last, Ending

LEMMA MovesStep ==
  ASSUME Typed, Ordered, Filed, NEW t \in Thread, Turn(t)
  PROVE  MovesData'
  <1>1. /\ FileHeld /\ OpenAsNeeded /\ SizeActedOn /\ TimedWhenOpen /\ InPlace /\ SizeLags
        /\ MovesData /\ CountHeld /\ filesize \in Nat /\ count \in Nat /\ StackTyped
        /\ nfile \in 0 .. MaxFiles /\ nfile' \in 0 .. MaxFiles /\ MaxFiles \in Nat
        /\ disk \in [1 .. MaxFiles -> FileOnDisk]
    BY DiskTurns, TypedStacks, ReceiverAssumption DEF Typed, TypeOK, Filed
  <1>2. CASE TakesNew(t) \/ TakesNone(t)
    <2>1. \A u \in Thread : Phase(u) \notin Busy
      BY <1>1, <1>2, BusyAlone DEF TakesNew, TakesNone, Takes
    <2>2. \A u \in Thread : ~OnStack(u, MoveFile)
      BY <1>1, <2>1, MoverBusy DEF Busy, Ending
    <2>3. \A u \in Thread : ~OnStack(u, MoveFile)'
      BY <1>2, <2>2 DEF TakesNew, TakesNone, Takes, MovesOnly
    <2> QED
      BY <2>3 DEF MovesData
  <1>3. CASE ~TakesNew(t) /\ ~TakesNone(t) /\ MovesOnly(t, FALSE)
    <2>1. \/ UNCHANGED <<nfile, disk>>
          \/ handle = "open" /\ UNCHANGED nfile /\ disk' = [disk EXCEPT ![nfile].size = @ + count]
          \/ /\ UNCHANGED nfile
             /\ \E place \in {"finaldir", "deleted"} : disk' = [disk EXCEPT ![nfile].place = place]
      <3>1. UNCHANGED nfile
        BY <1>3 DEF Turn, Rests, TakesOpen, Writes, Learns, WritesLater, Tallies, GivesUp, Stops,
                    Awaits, Closes, Relocates, Unlocks, Wakes, ClosesOld, InVain, SameFile
      <3>2. DiskTurn /\ nfile' # nfile + 1
        BY <1>1, <3>1, DiskTurns
      <3> QED
        BY <3>1, <3>2 DEF DiskTurn
    <2> QED
      BY <1>1, <1>3, <2>1 DEF MovesOnly, MovesData, FileOnDisk
  <1>4. ASSUME UNCHANGED <<nfile, disk>>, MovesOnly(t, TRUE), nfile >= 1,
               disk[nfile].size > 0
        PROVE  MovesData'
    BY <1>1, <1>4 DEF MovesData, MovesOnly
  <1>5. ASSUME NEW old \in BOOLEAN, Tallies(t, old) PROVE MovesData'
    <2>1. handle = "open" /\ InPhase({"done"}) /\ UNCHANGED <<nfile, disk>>
      BY <1>1, <1>5 DEF Tallies, PhaseGoes, InPhase, OpenAsNeeded
    <2>2. count > 0
      BY <1>1, <2>1 DEF CountHeld, InPhase
    <2>4. nfile >= 1 /\ disk[nfile].size > 0
      BY <1>1, <2>1, <2>2 DEF InPlace, SizeLags
    <2>3. MovesOnly(t, TRUE)
      BY <1>5 DEF Tallies, MovesOnly
    <2> QED
      BY <1>4, <2>1, <2>4, <2>3
  <1>6. CASE GivesUp(t)
    <2>1. UNCHANGED <<nfile, disk>> /\ MovesOnly(t, filesize > 0)
          /\ Phase(t) = "failed"
      BY <1>6 DEF GivesUp, PhaseGoes
    <2>2. handle = "open" /\ \A u \in Thread \ {t} : Phase(u) \notin Busy
      BY <1>1, <2>1, BusyAlone DEF OpenAsNeeded, InPhase, Busy
    <2>3. ~InPhase({"done"})
      BY <2>1, <2>2 DEF InPhase, Busy
    <2>4. nfile >= 1 /\ disk[nfile].size = filesize
      BY <1>1, <2>2, <2>3 DEF InPlace, SizeLags
    <2> QED
      BY <1>1, <2>1, <2>4 DEF MovesData, MovesOnly
  <1>7. CASE ClosesOld(t)
    <2>1. /\ UNCHANGED <<nfile, disk>> /\ MovesOnly(t, TRUE) /\ file_mutex = 0 /\ Phase(t) = "try"
      BY <1>7 DEF ClosesOld, SameFile, PhaseGoes
    <2>2. handle = "open" /\ \A u \in Thread : Phase(u) \notin Busy
      BY <1>1, <2>1, BusyAlone DEF TimedWhenOpen, InPhase
    <2>3. ~InPhase({"done"}) /\ filesize > 0
      BY <1>1, <2>1, <2>2 DEF InPhase, Busy, SizeActedOn
    <2>4. nfile >= 1 /\ disk[nfile].size = filesize
      BY <1>1, <2>2, <2>3 DEF InPlace, SizeLags
    <2> QED
      BY <1>4, <2>1, <2>3, <2>4
  <1>8. \/ TakesNew(t) \/ TakesNone(t) \/ MovesOnly(t, FALSE)
        \/ \E old \in BOOLEAN : Tallies(t, old)
        \/ GivesUp(t) \/ ClosesOld(t)
    BY DEF Turn, Rests, TakesOpen, Takes, Writes, Learns, WritesLater, Stops, Awaits, Closes,
           Relocates, Unlocks, Wakes, InVain
  <1> QED
    BY <1>2, <1>3, <1>5, <1>6, <1>7, <1>8

LEMMA TimedStep ==
  ASSUME Typed, Filed, NEW t \in Thread, Turn(t)
  PROVE  TimedWhenOpen'
  <1>1. FileHeld /\ OpenAsNeeded /\ TimedWhenOpen
    BY DEF Filed
  <1>2. CASE TakesNew(t)
    <2>1. handle = "closed" /\ \A u \in Thread : Phase(u) \notin Busy /\ Phase(u) # "try"
      BY <1>1, <1>2, BusyAlone DEF TakesNew, Takes, TimedWhenOpen, InPhase
    <2>2. handle' = "open" /\ \A u \in Thread : Phase(u)' \notin {"try", "await", "close"}
      BY <1>2, <2>1 DEF TakesNew, Takes, PhaseGoes, Busy
    <2> QED
      BY <2>2 DEF TimedWhenOpen, InPhase
  <1>3. CASE Wakes(t)
    <2>1. handle = "open" /\ \A u \in Thread : Phase(u) \notin {"try", "await", "close"}
      BY <1>1, <1>3 DEF Wakes, TimedWhenOpen, InPhase
    <2>2. /\ handle' = "open" /\ armed'[File_Timer] = "off" /\ Phase(t)' = "try"
          /\ InCallback(t, File_Timer)' /\ \A u \in Thread \ {t} : Phase(u)' = Phase(u)
      BY <1>3, <2>1 DEF Wakes, PhaseGoes, SameFile
    <2> QED
      BY <2>1, <2>2 DEF TimedWhenOpen, InPhase
  <1>4. CASE ~TakesNew(t) /\ ~Wakes(t)
    <2>1. /\ armed'[File_Timer] = armed[File_Timer] \/ armed'[File_Timer] = "off"
          /\ Phase(t)' # "try"
          /\ \A u \in Thread \ {t} : Phase(u)' = Phase(u) /\ stack'[u] = stack[u]
      BY <1>4 DEF Turn, Rests, TakesOpen, TakesNone, Takes, Writes, Learns, WritesLater, Tallies,
                  GivesUp, Stops, Awaits, Closes, Relocates, Unlocks, ClosesOld, InVain, PhaseGoes,
                  Ended, SameTimer
    <2>2. \A u \in Thread : Phase(u)' = "try" => InCallback(u, File_Timer)'
      BY <1>1, <2>1 DEF TimedWhenOpen, InCallback, OnStack
    <2>3. \A u, v \in Thread : Phase(u)' = "try" /\ Phase(v)' = "try" => u = v
      BY <1>1, <2>1 DEF TimedWhenOpen
    <2>4. Phase(t)' \in {"await", "close"} =>
            armed'[File_Timer] = "off" /\ (Phase(t)' = "close" => ~InPhase({"try"})')
      <3>1. CASE Stops(t)
        BY <3>1 DEF Stops, PhaseGoes
      <3>2. CASE Awaits(t)
        <4>1. Phase(t) = "await" /\ armed'[File_Timer] = armed[File_Timer]
              /\ \A u \in Thread : Phase(u) # "try"
          BY <1>1, <3>2 DEF Awaits, PhaseGoes, SameTimer, TimedWhenOpen
        <4> QED
          BY <1>1, <2>1, <4>1 DEF TimedWhenOpen, InPhase
      <3>3. CASE ClosesOld(t)
        <4>1. Phase(t) = "try" /\ armed'[File_Timer] = armed[File_Timer]
          BY <3>3 DEF ClosesOld, PhaseGoes, SameTimer
        <4> QED
          BY <1>1, <2>1, <4>1 DEF TimedWhenOpen, InPhase
      <3>4. ~Stops(t) /\ ~Awaits(t) /\ ~ClosesOld(t) => Phase(t)' \notin {"await", "close"}
        BY <1>4 DEF Turn, Rests, TakesOpen, TakesNone, Takes, Writes, Learns, WritesLater, Tallies,
                    GivesUp, Closes, Relocates, Unlocks, InVain, PhaseGoes, Ended
      <3> QED
        BY <3>1, <3>2, <3>3, <3>4
    <2>5. \A u \in Thread \ {t} :
            /\ Phase(u)' \in {"try", "await", "close"} => armed'[File_Timer] = "off"
            /\ Phase(u)' = "close" => ~InPhase({"try"})'
      BY <1>1, <2>1 DEF TimedWhenOpen, InPhase
    <2>6. armed'[File_Timer] # "off" \/ InPhase({"try"})' => handle' = "open"
      <3>1. CASE Closes(t)
        <4>1. armed[File_Timer] = "off" /\ ~InPhase({"try"})
          BY <1>1, <3>1 DEF Closes, PhaseGoes, TimedWhenOpen, InPhase
        <4> QED
          BY <2>1, <4>1 DEF InPhase
      <3>2. CASE TakesNone(t)
        BY <1>1, <2>1, <3>2 DEF TakesNone, TimedWhenOpen, InPhase
      <3>3. ~Closes(t) /\ ~TakesNone(t) => handle' = handle
        BY <1>4 DEF Turn, Rests, TakesOpen, Writes, Learns, WritesLater, Tallies, GivesUp, Stops,
                    Awaits, Relocates, Unlocks, ClosesOld, InVain, SameFile
      <3> QED
        BY <1>1, <2>1, <3>1, <3>2, <3>3 DEF TimedWhenOpen, InPhase
    <2> QED
      BY <2>1, <2>2, <2>3, <2>4, <2>5, <2>6 DEF TimedWhenOpen, InPhase
  <1> QED
    BY <1>2, <1>3, <1>4

LEMMA AttendedStep ==
  ASSUME Typed, Filed, NEW t \in Thread, Turn(t), timely' = timely
  PROVE  Attended'
  <1> DEFINE P == Ending \cup {"try", "write", "done", "failed"}
  <1>1. CASE TakesNew(t) \/ TakesNone(t) \/ Closes(t)
    <2>1. CASE TakesNew(t)
      BY <2>1 DEF TakesNew, Attended
    <2>2. CASE TakesNone(t) \/ Closes(t)
      BY <2>2 DEF TakesNone, Closes, Attended
    <2> QED
      BY <1>1, <2>1, <2>2
  <1>2. CASE InVain(t)
    BY <1>2 DEF InVain, Attended
  <1>3. CASE Stops(t) \/ Wakes(t)
    <2>1. Phase(t)' \in P
      BY <1>3 DEF Stops, Wakes, PhaseGoes, Ending
    <2> QED
      BY <2>1 DEF Attended, InPhase
  <1>4. CASE \E old \in BOOLEAN : Tallies(t, old)
    <2>1. timely /\ armed'[File_Timer] = "off" => Phase(t)' = "stop"
      BY <1>4 DEF Tallies, PhaseGoes
    <2> QED
      BY <2>1 DEF Attended, InPhase, Ending
  <1>5. CASE \/ Rests(t) \/ TakesOpen(t) \/ WritesLater(t) \/ GivesUp(t) \/ Awaits(t)
             \/ \E r \in {"done", "error"} : Writes(t, r) \/ Learns(t, r)
             \/ Relocates(t) \/ Unlocks(t) \/ ClosesOld(t)
    <2>1. /\ UNCHANGED handle /\ SameTimer
          /\ \A u \in Thread \ {t} : Phase(u)' = Phase(u)
      BY <1>5 DEF Rests, TakesOpen, Takes, WritesLater, GivesUp, Awaits, Writes, Learns, Relocates,
                  Unlocks, ClosesOld, SameFile, PhaseGoes
    <2>2. Phase(t) \in P => Phase(t)' \in P \/ writing' # "none"
      BY <1>5 DEF Rests, TakesOpen, Takes, WritesLater, GivesUp, Awaits, Writes, Learns, Relocates,
                  Unlocks, ClosesOld, PhaseGoes, Ended, Ending
    <2>3. writing # "none" => Phase(t)' \in P \/ writing' # "none"
      BY <1>5 DEF Rests, TakesOpen, Takes, WritesLater, GivesUp, Awaits, Writes, Learns, Relocates,
                  Unlocks, ClosesOld, PhaseGoes, Ended, Ending, SameFile
    <2>4. Attended
      BY DEF Filed
    <2> QED
      BY <2>1, <2>2, <2>3, <2>4 DEF Attended, InPhase, SameTimer
  <1> QED
    BY <1>1, <1>2, <1>3, <1>4, <1>5 DEF Turn

-----------------------------------------------------------------------------
(* The connection.                                                         *)

\* The connection mutex is given back as often as it is taken.
Locked == connection_mutex = Count(stack, Unlockers)

Alive ==
  \/ armed[Connection_Timer] # "off"
  \/ Count(stack, Carriers) > 0
  \/ InUse("conn", "accept") \/ InUse("conn", "disconnect")
  \/ writing # "none"

\* Something carries on with the connection, or its timer has fired and will
\* get the connection mutex.
CarriedOn == timely => Alive \/ (connection_mutex = 0 /\ Count(stack, Tries) > 0)

\* A step that stops nothing but calls.
Undisturbed ==
  /\ armed[Connection_Timer] # "off" => armed'[Connection_Timer] # "off"
  /\ \A op \in {"accept", "disconnect"} : InUse("conn", op) => InUse("conn", op)'
  /\ writing # "none" => writing' # "none"

\* What a step does with the connection: it takes the mutex, gives it back,
\* carries on, takes nothing away, or is the timer that fires in time.
Beat ==
  /\ Numbered
  /\ \/ /\ connection_mutex = 0 /\ connection_mutex' = 1
        /\ Count(stack', Unlockers) = Count(stack, Unlockers) + 1 /\ Alive'
     \/ /\ connection_mutex' = Unlocked(connection_mutex)
        /\ Count(stack', Unlockers) + 1 = Count(stack, Unlockers)
        /\ Undisturbed /\ Count(stack', Carriers) = Count(stack, Carriers)
     \/ /\ UNCHANGED connection_mutex /\ Count(stack', Unlockers) = Count(stack, Unlockers)
        /\ \/ Alive'
           \/ /\ Undisturbed /\ Count(stack', Carriers) >= Count(stack, Carriers)
              /\ connection_mutex # 0 \/ Count(stack', Tries) = Count(stack, Tries)
           \/ Count(stack', Tries) > 0 /\ (timely => InTime)

LEMMA BeatKeeps ==
  ASSUME Typed, Locked, CarriedOn, Beat, timely' = timely
  PROVE  Locked' /\ CarriedOn' /\ connection_mutex' \in 0 .. 1
  <1> DEFINE u == Count(stack, Unlockers)
             v == Count(stack', Unlockers)
             c == Count(stack, Carriers)
             d == Count(stack', Carriers)
  <1>1. /\ u \in Nat /\ v \in Nat /\ c \in Nat /\ d \in Nat
        /\ Count(stack, Tries) \in Nat /\ Count(stack', Tries) \in Nat
    BY DEF Beat, Numbered
  <1>2. connection_mutex \in 0 .. 1 /\ connection_mutex = u /\ Unlocked(1) = 0
    BY UnlockedOne DEF Typed, TypeOK, Locked
  <1>3. ASSUME Undisturbed, d >= c, Alive PROVE Alive'
    BY <1>1, <1>3 DEF Undisturbed, Alive
  <1>4. CASE connection_mutex = 0 /\ connection_mutex' = 1 /\ v = u + 1 /\ Alive'
    <2> HIDE DEF u, v, c, d
    <2>1. u = 0 /\ v = u + 1
      BY <1>2, <1>4
    <2>2. u + 1 = 1
      BY <2>1
    <2>3. v = 1
      BY <2>1, <2>2
    <2> USE DEF v
    <2> QED
      BY <1>4, <2>3 DEF Locked, CarriedOn
  <1>5. CASE connection_mutex' = Unlocked(connection_mutex) /\ v + 1 = u /\ Undisturbed /\ d = c
    <2>1. connection_mutex = 1 /\ connection_mutex' = 0 /\ v = 0 /\ d >= c
      BY <1>1, <1>2, <1>5
    <2>2. timely => Alive
      BY <2>1 DEF CarriedOn
    <2> HIDE DEF v
    <2>3. timely => Alive'
      BY <1>3, <1>5, <2>1, <2>2
    <2> QED
      BY <2>1, <2>3 DEF Locked, CarriedOn, v
  <1>6. CASE UNCHANGED connection_mutex /\ v = u /\ Alive'
    BY <1>2, <1>6 DEF Locked, CarriedOn
  <1>7. CASE /\ UNCHANGED connection_mutex /\ v = u /\ Undisturbed /\ d >= c
             /\ connection_mutex # 0 \/ Count(stack', Tries) = Count(stack, Tries)
    <2>1. timely /\ Alive => Alive'
      BY <1>3, <1>7
    <2>2. timely /\ ~Alive => connection_mutex = 0 /\ Count(stack, Tries) > 0
      BY DEF CarriedOn
    <2> QED
      BY <1>2, <1>7, <2>1, <2>2 DEF Locked, CarriedOn
  <1>8. CASE /\ UNCHANGED connection_mutex /\ v = u /\ Count(stack', Tries) > 0
             /\ timely => InTime
    <2>1. ASSUME timely PROVE u = 0
      <3>1. \A t \in DOMAIN stack : stack[t] = <<>>
        BY <1>8, <2>1, TypedStacks DEF InTime, Idle, StackTyped
      <3> QED
        BY <3>1, CountIdle
    <2> QED
      BY <1>2, <1>8, <2>1 DEF Locked, CarriedOn
  <1> HIDE DEF u, v, c, d
  <1>9. \/ connection_mutex = 0 /\ connection_mutex' = 1 /\ v = u + 1 /\ Alive'
        \/ connection_mutex' = Unlocked(connection_mutex) /\ v + 1 = u /\ Undisturbed /\ d = c
        \/ /\ UNCHANGED connection_mutex /\ v = u
           /\ \/ Alive'
              \/ /\ Undisturbed /\ d >= c
                 /\ connection_mutex # 0 \/ Count(stack', Tries) = Count(stack, Tries)
              \/ Count(stack', Tries) > 0 /\ (timely => InTime)
    BY Zenon DEF Beat, u, v, c, d
  <1> QED
    BY <1>4, <1>5, <1>6, <1>7, <1>8, <1>9

\* A step of a thread that leaves the connection mutex and disturbs nothing,
\* or carries on with the connection.
LEMMA BeatOn ==
  ASSUME NEW t, NEW x, NEW y, NEW m, UNCHANGED connection_mutex,
         \/ /\ Undisturbed
            /\ \/ Effect(t, x, y, 0, 1, 0, 0, 1, m)
               \/ Effect(t, x, y, 0, 0, 0, 0, 1, m)
               \/ Effect(t, x, y, 0, 0, 0, 0, 0, m)
         \/ Alive' /\ \E k1, k2 : Effect(t, x, y, 0, k1, 0, 0, k2, m)
  PROVE  Beat
  <1>1. ASSUME NEW k1, NEW k2, Effect(t, x, y, 0, k1, 0, 0, k2, m)
        PROVE  /\ Numbered
               /\ Count(stack', Unlockers) = Count(stack, Unlockers)
               /\ Count(stack', Tries) = Count(stack, Tries)
               /\ Count(stack', Carriers) + k1 = Count(stack, Carriers) + k2
    <2>1. /\ Numbered
          /\ Count(stack', Unlockers) + 0 = Count(stack, Unlockers) + 0
          /\ Count(stack', Carriers) + k1 = Count(stack, Carriers) + k2
          /\ Count(stack', Tries) + 0 = Count(stack, Tries)
      BY <1>1 DEF Effect
    <2> QED
      BY <2>1 DEF Numbered
  <1>2. CASE Alive' /\ \E k1, k2 : Effect(t, x, y, 0, k1, 0, 0, k2, m)
    BY <1>1, <1>2 DEF Beat
  <1>3. CASE /\ Undisturbed
             /\ \/ Effect(t, x, y, 0, 1, 0, 0, 1, m)
                \/ Effect(t, x, y, 0, 0, 0, 0, 1, m)
                \/ Effect(t, x, y, 0, 0, 0, 0, 0, m)
    <2>1. /\ Numbered
          /\ Count(stack', Unlockers) = Count(stack, Unlockers)
          /\ Count(stack', Tries) = Count(stack, Tries)
          /\ \/ Count(stack', Carriers) + 1 = Count(stack, Carriers) + 1
             \/ Count(stack', Carriers) + 0 = Count(stack, Carriers) + 1
             \/ Count(stack', Carriers) + 0 = Count(stack, Carriers) + 0
      BY <1>1, <1>3
    <2>2. Count(stack', Carriers) >= Count(stack, Carriers)
      BY <2>1 DEF Numbered
    <2> QED
      BY <1>3, <2>1, <2>2 DEF Beat
  <1> QED
    BY <1>2, <1>3

LEMMA CallbackBeats ==
  ASSUME Typed, Ordered, NEW t \in Thread, Callback(t)
  PROVE  Beat /\ UNCHANGED socketVars
  <1>1. UNCHANGED socketVars /\ writing' = writing
    BY DEF Callback, Accepted, AcceptFailed, StartReceive, Received, ReceivedInVain, ReceiveFailed,
           ReceiveAborted, Disconnected, UnlockConnection, fileVars
  <1>2. ~StartReceive(t) => Undisturbed
    BY <1>1 DEF Callback, Accepted, AcceptFailed, Received, ReceivedInVain, ReceiveFailed,
                ReceiveAborted, Disconnected, UnlockConnection, Undisturbed, InUse, socketVars
  <1>3. CASE Accepted(t) \/ AcceptFailed(t) \/ Disconnected(t)
    <2>1. Effect(t, "none", "none", 0, 1, 0, 0, 1, FALSE)
      BY <1>3, TypedStacks, AcceptsEffect
    <2>2. Undisturbed
      BY <1>1, <1>3 DEF Accepted, AcceptFailed, Disconnected, Undisturbed, InUse, socketVars
    <2>3. UNCHANGED connection_mutex
      BY <1>3 DEF Accepted, AcceptFailed, Disconnected, mutexVars
    <2> QED
      BY <1>1, <2>1, <2>2, <2>3, BeatOn
  <1>4. CASE StartReceive(t)
    <2>1. Effect(t, "none", "none", 0, 1, 0, 0, 0, FALSE)
      BY <1>4, TypedStacks, StartReceiveEffect
    <2>2. Alive' /\ UNCHANGED connection_mutex
      BY <1>4, TypedStacks DEF StartReceive, ExpiresIn, Alive, mutexVars
    <2> QED
      BY <1>1, <2>1, <2>2, BeatOn
  <1>5. CASE Received(t)
    <2>1. Effect(t, "none", "none", 0, 0, 0, 1, 1, FALSE)
      BY <1>5, TypedStacks, ReceivedEffect
    <2>2. /\ Numbered
          /\ Count(stack', Unlockers) = Count(stack, Unlockers) + 1
          /\ Count(stack', Carriers) > 0
      <3>1. /\ Numbered
            /\ Count(stack', Unlockers) + 0 = Count(stack, Unlockers) + 1
            /\ Count(stack', Carriers) + 0 = Count(stack, Carriers) + 1
        BY <2>1 DEF Effect
      <3> QED
        BY <3>1 DEF Numbered
    <2>3. Alive'
      BY <2>2, KindsOfCalls DEF Alive
    <2> QED
      BY <1>1, <1>5, <2>2, <2>3 DEF Beat, Received
  <1>6. CASE ReceivedInVain(t) \/ ReceiveAborted(t)
    <2>1. Effect(t, "none", "none", 0, 0, 0, 0, 0, FALSE)
      BY <1>6, TypedStacks, ReceivedEffect
    <2>2. Undisturbed /\ UNCHANGED connection_mutex
      BY <1>1, <1>6 DEF ReceivedInVain, ReceiveAborted, Undisturbed, InUse, socketVars, mutexVars
    <2> QED
      BY <1>1, <2>1, <2>2, BeatOn
  <1>7. CASE ReceiveFailed(t)
    <2>1. Effect(t, "none", "none", 0, 0, 0, 0, 1, FALSE)
      BY <1>7, TypedStacks, ReceivedEffect
    <2>2. Undisturbed /\ UNCHANGED connection_mutex
      BY <1>1, <1>7 DEF ReceiveFailed, Undisturbed, InUse, socketVars, mutexVars
    <2> QED
      BY <1>1, <2>1, <2>2, BeatOn
  <1>8. CASE UnlockConnection(t)
    <2>1. Effect(t, "none", "none", 1, 0, 0, 0, 0, FALSE)
      BY <1>8, TypedStacks, UnlockConnectionEffect
    <2>2. /\ Numbered
          /\ Count(stack', Unlockers) + 1 = Count(stack, Unlockers)
          /\ Count(stack', Carriers) = Count(stack, Carriers)
      <3>1. /\ Numbered
            /\ Count(stack', Unlockers) + 1 = Count(stack, Unlockers) + 0
            /\ Count(stack', Carriers) + 0 = Count(stack, Carriers) + 0
        BY <2>1 DEF Effect
      <3> QED
        BY <3>1 DEF Numbered
    <2>3. Undisturbed
      BY <1>1, <1>8 DEF UnlockConnection, Undisturbed, InUse, socketVars
    <2> QED
      BY <1>1, <1>8, <2>2, <2>3 DEF Beat, UnlockConnection
  <1> QED
    BY <1>3, <1>4, <1>5, <1>6, <1>7, <1>8 DEF Callback

LEMMA FilingBeats ==
  ASSUME Typed, Ordered, NEW t \in Thread, Filing(t)
  PROVE  (Halts \/ Beat) /\ UNCHANGED socketVars
  <1>1. UNCHANGED socketVars
    BY DEF Filing, WriteToOpen, WriteToNew, CannotOpen, WriteFile, DataWritten, WriteFailed,
           CloseFile, Relocate, UnlockFileMutex
  <1>2. UNCHANGED connection_mutex
    BY DEF Filing, WriteToOpen, WriteToNew, CannotOpen, WriteFile, DataWritten, WriteFailed,
           CloseFile, Relocate, UnlockFileMutex, mutexVars
  <1>3. armed'[Connection_Timer] = armed[Connection_Timer]
    <2>1. CASE WriteToNew(t)
      BY <2>1, TypedStacks DEF WriteToNew, ExpiresIn
    <2>2. CASE ~WriteToNew(t)
      BY <2>2 DEF Filing, WriteToOpen, CannotOpen, WriteFile, DataWritten, WriteFailed, CloseFile,
                  Relocate, UnlockFileMutex
    <2> QED
      BY <2>1, <2>2
  <1>4. ASSUME writing # "none" => writing' # "none" PROVE Undisturbed
    BY <1>1, <1>3, <1>4 DEF Undisturbed, InUse, socketVars
  <1>5. CASE WriteToOpen(t) \/ WriteToNew(t) \/ CannotOpen(t)
    <2>1. \E y : Effect(t, "none", y, 0, 1, 0, 0, 1, FALSE)
      BY <1>5, TypedStacks, WriteEffect
    <2>2. Undisturbed
      BY <1>4, <1>5 DEF WriteToOpen, WriteToNew, CannotOpen, Opens, fileVars
    <2> QED
      BY <1>1, <1>2, <2>1, <2>2, BeatOn
  <1>6. CASE WriteFile(t)
    <2>1. ASSUME NEW r \in {"done", "error"}, WriteAtOnce(t, r) PROVE Beat
      <3>1. \E y : Effect(t, "write", y, 0, 1, 0, 0, 1, FALSE)
        BY <2>1, TypedStacks, WriteFileEffect
      <3>2. Undisturbed
        BY <1>4, <2>1 DEF WriteAtOnce, fileVars
      <3> QED
        BY <1>2, <3>1, <3>2, BeatOn
    <2>2. ASSUME WritePending(t) PROVE Beat
      <3>1. Effect(t, "write", "none", 0, 1, 0, 0, 0, FALSE)
        BY <2>2, TypedStacks, WriteFileEffect
      <3>2. Alive'
        BY <2>2 DEF WritePending, Alive
      <3> QED
        BY <1>2, <3>1, <3>2, BeatOn
    <2>3. WriteMisused(t) /\ UNCHANGED disk => Halts
      BY <1>6 DEF WriteFile, WriteMisused, mutexVars, fileNotes, socketVars, Halts
    <2> QED
      BY <1>1, <1>6, <2>1, <2>2, <2>3 DEF WriteFile
  <1>7. CASE DataWritten(t) \/ WriteFailed(t)
    <2>1. \E x, y, m : Effect(t, x, y, 0, 1, 0, 0, 1, m)
      BY <1>7, TypedStacks, DataWrittenEffect, WriteFailedEffect
    <2>2. Undisturbed
      BY <1>4, <1>7 DEF DataWritten, WriteFailed, fileVars
    <2> QED
      BY <1>1, <1>2, <2>1, <2>2, BeatOn
  <1>8. CASE CloseFile(t) \/ Relocate(t) \/ UnlockFileMutex(t)
    <2>1. \E x, y, m : Effect(t, x, y, 0, 0, 0, 0, 0, m)
      BY <1>8, TypedStacks, FiledReturns
    <2>2. Undisturbed
      BY <1>4, <1>8 DEF CloseFile, FileClose, Relocate, UnlockFileMutex, fileVars
    <2> QED
      BY <1>1, <1>2, <2>1, <2>2, BeatOn
  <1> QED
    BY <1>5, <1>6, <1>7, <1>8 DEF Filing

LEMMA TimingBeats ==
  ASSUME Typed, Ordered, NEW t \in Thread, Timing(t)
  PROVE  Beat /\ UNCHANGED socketVars
  <1>1. UNCHANGED socketVars /\ writing' = writing
    BY DEF Timing, CloseIdle, CloseOld, TimerInVain, Time, fileVars
  <1>2. CASE CloseIdle(t)
    <2>1. Effect(t, "none", "none", 0, 0, 1, 1, 1, FALSE)
      BY <1>2, TypedStacks, TimerActsEffect
    <2>2. /\ Numbered
          /\ Count(stack', Unlockers) = Count(stack, Unlockers) + 1
          /\ Count(stack', Carriers) > 0
      <3>1. /\ Numbered
            /\ Count(stack', Unlockers) + 0 = Count(stack, Unlockers) + 1
            /\ Count(stack', Carriers) + 0 = Count(stack, Carriers) + 1
        BY <2>1 DEF Effect
      <3> QED
        BY <3>1 DEF Numbered
    <2>3. Alive'
      BY <2>2, KindsOfCalls DEF Alive
    <2> QED
      BY <1>1, <1>2, <2>2, <2>3 DEF Beat, CloseIdle
  <1>3. ASSUME armed'[Connection_Timer] = armed[Connection_Timer] PROVE Undisturbed
    BY <1>1, <1>3 DEF Undisturbed, InUse, socketVars
  <1>4. CASE CloseOld(t)
    <2>1. Effect(t, "try", "close", 0, 0, 0, 0, 0, TRUE)
      BY <1>4, TypedStacks, TimerActsEffect
    <2>2. Undisturbed /\ UNCHANGED connection_mutex
      BY <1>3, <1>4 DEF CloseOld
    <2> QED
      BY <1>1, <2>1, <2>2, BeatOn
  <1>5. CASE TimerInVain(t)
    <2>1. Undisturbed /\ UNCHANGED connection_mutex
      BY <1>3, <1>5 DEF TimerInVain, mutexVars
    <2>2. CASE connection_mutex # 0 /\ Effect(t, "none", "none", 0, 0, 1, 0, 0, FALSE)
      <3>1. /\ Numbered
            /\ Count(stack', Unlockers) + 0 = Count(stack, Unlockers) + 0
            /\ Count(stack', Carriers) + 0 = Count(stack, Carriers) + 0
        BY <2>2 DEF Effect
      <3>2. /\ Count(stack', Unlockers) = Count(stack, Unlockers)
            /\ Count(stack', Carriers) >= Count(stack, Carriers)
        BY <3>1 DEF Numbered
      <3> QED
        BY <1>1, <2>1, <2>2, <3>1, <3>2 DEF Beat
    <2>3. CASE Effect(t, "try", "none", 0, 0, 0, 0, 0, FALSE)
      BY <1>1, <2>1, <2>3, BeatOn
    <2> QED
      BY <1>5, <2>2, <2>3, TypedStacks, TimerActsEffect
  <1>6. CASE Time(t)
    <2>1. UNCHANGED connection_mutex
      BY <1>6 DEF Time, mutexVars
    <2>2. CASE Disarm(t) /\ On(t) = Connection_Timer
      <3>1. Count(stack, Carriers) > 0 /\ Effect(t, "none", "none", 0, 0, 0, 0, 0, FALSE)
        BY <2>2, TypedStacks, DisarmEffect
      <3>2. Count(stack', Carriers) > 0
        <4>1. Numbered /\ Count(stack', Carriers) + 0 = Count(stack, Carriers) + 0
          BY <3>1 DEF Effect
        <4> QED
          BY <3>1, <4>1 DEF Numbered
      <3>3. Alive'
        BY <3>2, KindsOfCalls DEF Alive
      <3> QED
        BY <1>1, <2>1, <3>1, <3>3, BeatOn
    <2>3. CASE ~(Disarm(t) /\ On(t) = Connection_Timer)
      <3>1. \E x, y : Effect(t, x, y, 0, 0, 0, 0, 0, FALSE)
        BY <1>6, TypedStacks, DisarmEffect, AwaitedEffect DEF Time
      <3>2. armed'[Connection_Timer] = armed[Connection_Timer]
        <4>1. CASE Disarm(t)
          <5>1. On(t) = File_Timer
            BY <2>3, <4>1, TypedStacks, DisarmEffect
          <5> QED
            BY <4>1, <5>1, TypedStacks DEF Disarm
        <4>2. CASE ~Disarm(t)
          BY <1>6, <4>2 DEF Time, CallbacksAwaited, CallbackEnds
        <4> QED
          BY <4>1, <4>2
      <3> QED
        BY <1>1, <1>3, <2>1, <3>1, <3>2, BeatOn
    <2> QED
      BY <2>2, <2>3
  <1> QED
    BY <1>2, <1>4, <1>5, <1>6 DEF Timing

LEMMA DoomKeeps ==
  ASSUME NEW f \in [Operation -> Flight]
  PROVE  /\ Doom(f) \in [Operation -> Flight]
         /\ \A op \in Operation : Doom(f)[op] # "none" <=> f[op] # "none"
  BY DEF Doom, Flight

\* What the start of an operation does with the socket.
LEMMA StartedFlights ==
  ASSUME Typed, NEW t \in Thread,
         Establish(t, AtOnceOutcomes(t)) \/ Transfer(t) \/ Disconnect(t)
  PROVE  /\ SocketTypeOK'
         /\ \A op \in Operation : InUse("conn", op) => InUse("conn", op)'
         /\ Running(t, "begin")
         /\ Pending(t) => inflight'["conn"][Op(t)] # "none"
         /\ Pending(t) \/ \E r \in Outcome : AtOnce(t, r)
  <1>1. Running(t, "begin") /\ UNCHANGED <<io_pending, fault>>
    BY DEF Establish, Transfer, Disconnect, Starts
  <1>2. On(t) = "conn" /\ Op(t) \in Operation
    BY <1>1, TypedStacks, BeginHead
  <1>3. /\ sock \in [{"conn"} -> Handle] /\ inflight \in [{"conn"} -> [Operation -> Flight]]
        /\ inflight["conn"] \in [Operation -> Flight] /\ Sock = {"conn"}
    BY ReceiverAssumption DEF Typed, TypeOK, SocketTypeOK
  <1>4. sock' \in [{"conn"} -> Handle]
    BY <1>2, <1>3 DEF Establish, Transfer, Disconnect, Handle, Shut
  <1>5. inflight' = inflight \/ Pending(t) \/ Shut("conn")
    BY <1>2 DEF Establish, Transfer, Disconnect
  <1>6. /\ inflight' \in [{"conn"} -> [Operation -> Flight]]
        /\ \A op \in Operation : inflight["conn"][op] # "none" => inflight'["conn"][op] # "none"
        /\ Pending(t) => inflight'["conn"][Op(t)] # "none"
    <2>1. CASE Pending(t)
      BY <1>2, <1>3, <2>1 DEF Pending, Flight
    <2>2. CASE Shut("conn") /\ ~Pending(t)
      <3>1. inflight' = [inflight EXCEPT !["conn"] = Doom(inflight["conn"])]
        BY <2>2 DEF Shut
      <3> QED
        BY <1>3, <2>2, <3>1, DoomKeeps
    <2> QED
      BY <1>3, <1>5, <2>1, <2>2
  <1>7. SocketTypeOK'
    <2>1. SocketTypeOK
      BY DEF Typed, TypeOK
    <2>2. \A s \in Sock : s = "conn"
      BY <1>3
    <2> QED
      BY <1>1, <1>3, <1>4, <1>6, <2>1, <2>2 DEF SocketTypeOK
  <1>8. \A op \in Operation : InUse("conn", op) => InUse("conn", op)'
    BY <1>6 DEF InUse
  <1>9. Pending(t) \/ \E r \in Outcome : AtOnce(t, r)
    BY <1>1, StartedHow
  <1> QED
    BY <1>1, <1>6, <1>7, <1>8, <1>9

LEMMA OperateBeats ==
  ASSUME Typed, Ordered, NEW t \in Thread, Operate(t)
  PROVE  (Halts \/ Beat) /\ SocketTypeOK'
  <1>1. /\ UNCHANGED <<armed, connection_mutex, writing>> /\ SocketTypeOK
        /\ Sock = {"conn"} /\ Tracked = {"receive"}
    BY ReceiverAssumption DEF Operate, mutexVars, fileVars, Typed, TypeOK
  <1>2. ASSUME \A op \in {"accept", "disconnect"} : InUse("conn", op) => InUse("conn", op)'
        PROVE  Undisturbed
    BY <1>1, <1>2 DEF Undisturbed
  <1>3. CASE MisusedStart(t)
    <2>1. Halts
      BY <1>3 DEF Operate, MisusedStart, Breach, mutexVars, fileVars, fileNotes, Halts
    <2>2. UNCHANGED <<sock, io_pending, inflight>> /\ fault' = Misuse(On(t), Op(t))
      BY <1>3 DEF MisusedStart, Breach
    <2>3. Misuse(On(t), Op(t)) \in Fault
      BY DEF Misuse, Fault
    <2> QED
      BY <1>1, <2>1, <2>2, <2>3 DEF SocketTypeOK
  <1>4. CASE Establish(t, AtOnceOutcomes(t)) \/ Transfer(t) \/ Disconnect(t)
    <2>1. /\ SocketTypeOK' /\ Running(t, "begin")
          /\ \A op \in Operation : InUse("conn", op) => InUse("conn", op)'
          /\ Pending(t) => inflight'["conn"][Op(t)] # "none"
          /\ Pending(t) \/ \E r \in Outcome : AtOnce(t, r)
      BY <1>4, StartedFlights
    <2>2. Undisturbed
      BY <1>2, <2>1 DEF Operation
    <2>3. Carries(Op(t)) = IF Op(t) \in {"accept", "disconnect"} THEN 1 ELSE 0
      BY DEF Carries, Bit
    <2>4. CASE Pending(t)
      <3>1. Effect(t, "none", "none", 0, Carries(Op(t)), 0, 0, 0, FALSE)
        BY <2>1, <2>4, TypedStacks, StartsEffect
      <3>2. CASE Op(t) \in {"accept", "disconnect"}
        <4>1. Alive'
          <5>1. \E op \in {"accept", "disconnect"} : inflight'["conn"][op] # "none"
            BY <2>1, <2>4, <3>2
          <5> QED
            BY <5>1 DEF Alive, InUse
        <4> QED
          BY <1>1, <2>1, <3>1, <4>1, BeatOn
      <3>3. CASE Op(t) \notin {"accept", "disconnect"}
        <4>1. Effect(t, "none", "none", 0, 0, 0, 0, 0, FALSE)
          BY <2>3, <3>1, <3>3
        <4> QED
          BY <1>1, <2>1, <2>2, <4>1, BeatOn
      <3> QED
        BY <3>2, <3>3
    <2>5. CASE \E r \in Outcome : AtOnce(t, r)
      <3>1. Effect(t, "none", "none", 0, Carries(Op(t)), 0, 0, Carries(Op(t)), FALSE)
        BY <2>1, <2>5, TypedStacks, StartsEffect
      <3>2. \/ Effect(t, "none", "none", 0, 1, 0, 0, 1, FALSE)
            \/ Effect(t, "none", "none", 0, 0, 0, 0, 0, FALSE)
        BY <2>3, <3>1
      <3> QED
        BY <1>1, <2>1, <2>2, <3>2, BeatOn
    <2> QED
      BY <2>1, <2>4, <2>5
  <1>5. CASE Cancel(t) \/ SetIoPending(t)
    <2>1. /\ On(t) = "conn" /\ Op(t) = "receive"
          /\ Effect(t, "none", "none", 0, 0, 0, 0, 0, FALSE)
      BY <1>5, TypedStacks, CancelEffect
    <2>2. SocketTypeOK' /\ \A op \in {"accept", "disconnect"} :
                             InUse("conn", op) => InUse("conn", op)'
      <3>1. CASE Cancel(t)
        <4>1. UNCHANGED <<sock, io_pending, fault>>
          BY <3>1 DEF Cancel
        <4>2. \/ inflight' = inflight
              \/ inflight' = [inflight EXCEPT !["conn"]["receive"] = "doomed"]
          BY <2>1, <3>1 DEF Cancel
        <4> QED
          BY <1>1, <4>1, <4>2 DEF SocketTypeOK, InUse, Operation, Flight
      <3>2. CASE SetIoPending(t)
        <4>1. UNCHANGED <<sock, inflight, fault>>
          BY <3>2 DEF SetIoPending
        <4>2. io_pending' = [io_pending EXCEPT !["conn"]["receive"] = TRUE]
          BY <2>1, <3>2 DEF SetIoPending
        <4> QED
          BY <1>1, <4>1, <4>2 DEF SocketTypeOK, InUse
      <3> QED
        BY <1>5, <3>1, <3>2
    <2>3. Undisturbed
      BY <1>2, <2>2
    <2> QED
      BY <1>1, <2>1, <2>2, <2>3, BeatOn
  <1> QED
    BY <1>3, <1>4, <1>5 DEF Operate

LEMMA CompletionBeats ==
  ASSUME Typed, Ordered, NEW t \in Pool, NEW s \in Sock, NEW op \in Operation, NEW r \in Outcome,
         Completion(t, s, op, r)
  PROVE  Beat /\ SocketTypeOK'
  <1> DEFINE landed == [inflight[s] EXCEPT ![op] = "none"]
             closes == op = "disconnect" \/ (op \in Establishing /\ r = "error")
  <1>1. /\ sock \in [{"conn"} -> Handle] /\ inflight \in [{"conn"} -> [Operation -> Flight]]
        /\ io_pending \in [{"conn"} -> [Tracked -> BOOLEAN]] /\ s = "conn"
        /\ Sock = {"conn"} /\ fault \in Fault
    BY ReceiverAssumption DEF Typed, TypeOK, SocketTypeOK
  <1>2. landed \in [Operation -> Flight] /\ \A o \in Operation \ {op} : landed[o] = inflight[s][o]
    BY <1>1 DEF Flight
  <1>3. /\ Doom(landed) \in [Operation -> Flight]
        /\ \A o \in Operation \ {op} : Doom(landed)[o] # "none" <=> inflight[s][o] # "none"
    <2> HIDE DEF landed
    <2> QED
      BY <1>2, DoomKeeps
  <1>4. inflight' = [inflight EXCEPT ![s] = IF closes THEN Doom(landed) ELSE landed]
    BY DEF Completion, Deliver
  <1>5. sock' \in [{"conn"} -> Handle]
    BY <1>1 DEF Completion, Deliver, Handle
  <1>6. io_pending' \in [{"conn"} -> [Tracked -> BOOLEAN]]
    BY <1>1 DEF Completion, Deliver
  <1>7. fault' \in Fault
    BY <1>1 DEF Completion, Deliver, Fault
  <1> HIDE DEF landed, closes
  <1>8. /\ inflight' \in [{"conn"} -> [Operation -> Flight]]
        /\ \A o \in Operation \ {op} : InUse("conn", o) => InUse("conn", o)'
    BY <1>1, <1>2, <1>3, <1>4 DEF InUse
  <1>9. SocketTypeOK'
    BY <1>1, <1>5, <1>6, <1>7, <1>8 DEF SocketTypeOK
  <1>10. UNCHANGED <<armed, connection_mutex, writing>>
    BY DEF Completion, mutexVars, fileVars
  <1>11. Effect(t, "none", "none", 0, 0, 0, 0, Carries(op), FALSE)
    BY TypedStacks, CompletionEffect
  <1>12. CASE op \in {"accept", "disconnect"}
    <2>1. Effect(t, "none", "none", 0, 0, 0, 0, 1, FALSE)
      BY <1>11, <1>12 DEF Carries, Bit
    <2>2. Count(stack', Carriers) > 0
      <3>1. Numbered /\ Count(stack', Carriers) + 0 = Count(stack, Carriers) + 1
        BY <2>1 DEF Effect
      <3> QED
        BY <3>1 DEF Numbered
    <2>3. Alive'
      BY <2>2, KindsOfCalls DEF Alive
    <2> QED
      BY <1>9, <1>10, <2>1, <2>3, BeatOn
  <1>13. CASE op \notin {"accept", "disconnect"}
    <2>1. Effect(t, "none", "none", 0, 0, 0, 0, 0, FALSE)
      BY <1>11, <1>13 DEF Carries, Bit
    <2>2. Undisturbed
      BY <1>8, <1>10, <1>13 DEF Undisturbed, Operation
    <2> QED
      BY <1>9, <1>10, <2>1, <2>2, BeatOn
  <1> QED
    BY <1>12, <1>13

LEMMA PoolBeats ==
  ASSUME Typed, Ordered, NEW t \in Pool
  PROVE  /\ \A r \in {"done", "error"} : WriteCompletion(t, r) => Beat /\ UNCHANGED socketVars
         /\ ConnectionTimerExpires(t) \/ FileTimerExpires(t) => Beat /\ UNCHANGED socketVars
  <1>1. ASSUME NEW r \in {"done", "error"}, WriteCompletion(t, r)
        PROVE  Beat /\ UNCHANGED socketVars
    <2>1. \E y : Effect(t, "none", y, 0, 0, 0, 0, 1, FALSE)
      BY <1>1, TypedStacks, WriteCompletionEffect
    <2>2. Count(stack', Carriers) > 0
      <3>1. Numbered /\ Count(stack', Carriers) + 0 = Count(stack, Carriers) + 1
        BY <2>1 DEF Effect
      <3> QED
        BY <3>1 DEF Numbered
    <2>3. Alive'
      BY <2>2, KindsOfCalls DEF Alive
    <2>4. UNCHANGED socketVars /\ UNCHANGED connection_mutex
      BY <1>1 DEF WriteCompletion, mutexVars
    <2> QED
      BY <2>1, <2>3, <2>4, BeatOn
  <1>2. ASSUME ConnectionTimerExpires(t) PROVE Beat /\ UNCHANGED socketVars
    <2>1. UNCHANGED socketVars /\ UNCHANGED connection_mutex /\ (timely => InTime)
      BY <1>2 DEF ConnectionTimerExpires, mutexVars
    <2>2. /\ Numbered /\ Count(stack', Unlockers) = Count(stack, Unlockers)
          /\ Count(stack', Tries) = Count(stack, Tries) + 1
      BY <1>2, TypedStacks, FireEffect DEF Fires
    <2>3. Count(stack', Tries) > 0
      BY <2>2 DEF Numbered
    <2> QED
      BY <2>1, <2>2, <2>3 DEF Beat
  <1>3. ASSUME FileTimerExpires(t) PROVE Beat /\ UNCHANGED socketVars
    <2>1. UNCHANGED <<connection_mutex, writing>> /\ UNCHANGED socketVars
      BY <1>3 DEF FileTimerExpires, mutexVars, fileVars
    <2>2. /\ Numbered /\ Count(stack', Unlockers) = Count(stack, Unlockers)
          /\ Count(stack', Carriers) = Count(stack, Carriers)
          /\ Count(stack', Tries) = Count(stack, Tries) + 0
      BY <1>3, TypedStacks, FireEffect DEF Fires
    <2>3. armed'[Connection_Timer] = armed[Connection_Timer]
      BY <1>3, TypedStacks DEF FileTimerExpires, Expire
    <2>4. Undisturbed
      BY <2>1, <2>3 DEF Undisturbed, InUse, socketVars
    <2>5. /\ Count(stack', Carriers) >= Count(stack, Carriers)
          /\ Count(stack', Tries) = Count(stack, Tries)
      BY <2>2 DEF Numbered
    <2> QED
      BY <2>1, <2>2, <2>4, <2>5 DEF Beat
  <1> QED
    BY <1>1, <1>2, <1>3

LEMMA Beats ==
  ASSUME Typed, Ordered, Next
  PROVE  (Halts \/ Beat) /\ SocketTypeOK'
  <1>1. UNCHANGED socketVars => SocketTypeOK'
    <2>1. SocketTypeOK
      BY DEF Typed, TypeOK
    <2> QED
      BY <2>1 DEF SocketTypeOK, socketVars
  <1>2. CASE \E t \in Thread : Execute(t)
    <2>1. PICK t \in Thread : Callback(t) \/ Filing(t) \/ Timing(t) \/ Operate(t)
      BY <1>2 DEF Execute
    <2> QED
      BY <1>1, <2>1, CallbackBeats, FilingBeats, TimingBeats, OperateBeats
  <1>3. CASE \E t \in Pool, s \in Sock, op \in Operation, r \in Outcome : Completion(t, s, op, r)
    BY <1>3, CompletionBeats
  <1>4. CASE \E t \in Pool, r \in {"done", "error"} : WriteCompletion(t, r)
    BY <1>1, <1>4, PoolBeats
  <1>5. CASE \E t \in Pool : ConnectionTimerExpires(t) \/ FileTimerExpires(t)
    BY <1>1, <1>5, PoolBeats
  <1>6. CASE Undefined
    BY <1>1, <1>6 DEF Undefined, vars, socketVars, fileVars, mutexVars, fileNotes, Halts
  <1> QED
    BY <1>2, <1>3, <1>4, <1>5, <1>6 DEF Next

-----------------------------------------------------------------------------
(* Type correctness.                                                       *)

\* misused is set by one action only.
LEMMA MisusedTyped ==
  ASSUME Typed, Next
  PROVE  misused' \in BOOLEAN
  <1>1. misused \in BOOLEAN
    BY DEF Typed, TypeOK, FileTypeOK
  <1>2. CASE \E t \in Thread : Execute(t)
    <2>1. PICK t \in Thread : Callback(t) \/ Filing(t) \/ Timing(t) \/ Operate(t)
      BY <1>2 DEF Execute
    <2>2. CASE Callback(t)
      BY <1>1, <2>2
         DEF Callback, Accepted, AcceptFailed, StartReceive, Received, ReceivedInVain,
             ReceiveFailed, ReceiveAborted, Disconnected, UnlockConnection, fileVars
    <2>3. CASE Filing(t)
      BY <1>1, <2>3
         DEF Filing, WriteToOpen, WriteToNew, CannotOpen, Opens, WriteFile, WriteAtOnce,
             WritePending, WriteMisused, DataWritten, WriteFailed, CloseFile, FileClose, Relocate,
             UnlockFileMutex, fileVars
    <2>4. CASE Timing(t)
      BY <1>1, <2>4 DEF Timing, CloseIdle, CloseOld, TimerInVain, Time, fileVars
    <2>5. CASE Operate(t)
      BY <1>1, <2>5 DEF Operate, fileVars
    <2> QED
      BY <2>1, <2>2, <2>3, <2>4, <2>5
  <1>3. CASE \E t \in Pool, s \in Sock, op \in Operation, r \in Outcome : Completion(t, s, op, r)
    BY <1>1, <1>3 DEF Completion, fileVars
  <1>4. CASE \E t \in Pool, r \in {"done", "error"} : WriteCompletion(t, r)
    BY <1>1, <1>4 DEF WriteCompletion, WriteEnds
  <1>5. CASE \E t \in Pool : ConnectionTimerExpires(t) \/ FileTimerExpires(t)
    BY <1>1, <1>5 DEF ConnectionTimerExpires, FileTimerExpires, fileVars
  <1>6. CASE Undefined
    BY <1>1, <1>6 DEF Undefined, vars, fileVars
  <1> QED
    BY <1>2, <1>3, <1>4, <1>5, <1>6 DEF Next

LEMMA MissedTyped ==
  ASSUME Typed, Next
  PROVE  missed' \in BOOLEAN
  <1>1. missed \in BOOLEAN
    BY DEF Typed, TypeOK
  <1>2. CASE \E t \in Thread : Execute(t)
    <2>1. PICK t \in Thread : Callback(t) \/ Filing(t) \/ Timing(t) \/ Operate(t)
      BY <1>2 DEF Execute
    <2>2. CASE Callback(t)
      BY <1>1, <2>2
         DEF Callback, Accepted, AcceptFailed, StartReceive, Received, ReceivedInVain,
             ReceiveFailed, ReceiveAborted, Disconnected, UnlockConnection, fileNotes
    <2>3. CASE Filing(t)
      BY <1>1, <2>3
         DEF Filing, WriteToOpen, WriteToNew, CannotOpen, WriteFile, DataWritten, WriteFailed,
             CloseFile, Relocate, UnlockFileMutex, fileNotes
    <2>4. CASE TimerInVain(t)
      BY <2>4 DEF TimerInVain
    <2>5. CASE CloseIdle(t) \/ CloseOld(t) \/ Time(t) \/ Operate(t)
      BY <1>1, <2>5 DEF CloseIdle, CloseOld, Time, Operate, fileNotes
    <2> QED
      BY <2>1, <2>2, <2>3, <2>4, <2>5 DEF Timing
  <1>3. CASE \E t \in Pool, s \in Sock, op \in Operation, r \in Outcome : Completion(t, s, op, r)
    BY <1>1, <1>3 DEF Completion, fileNotes
  <1>4. CASE \E t \in Pool, r \in {"done", "error"} : WriteCompletion(t, r)
    BY <1>1, <1>4 DEF WriteCompletion, fileNotes
  <1>5. CASE \E t \in Pool : ConnectionTimerExpires(t) \/ FileTimerExpires(t)
    BY <1>1, <1>5 DEF ConnectionTimerExpires, FileTimerExpires, fileNotes
  <1>6. CASE Undefined
    BY <1>1, <1>6 DEF Undefined, vars, fileNotes
  <1> QED
    BY <1>2, <1>3, <1>4, <1>5, <1>6 DEF Next

LEMMA TimerTyped ==
  ASSUME Typed, Ordered, Next
  PROVE  TimerTypeOK'
  <1>1. /\ armed \in [Timers -> {"set", "off"}] /\ Purpose \cup {"off"} = {"set", "off"}
        /\ File_Timer \in Timers /\ Connection_Timer \in Timers
    BY TypedStacks
  <1>7. UNCHANGED armed => TimerTypeOK'
    BY DEF Typed, TypeOK, TimerTypeOK
  <1>2. CASE \E t \in Thread : Execute(t)
    <2>1. PICK t \in Thread : Callback(t) \/ Filing(t) \/ Timing(t) \/ Operate(t)
      BY <1>2 DEF Execute
    <2>2. CASE Callback(t)
      BY <1>7, <1>1, <2>2
         DEF Callback, Accepted, AcceptFailed, StartReceive, ExpiresIn, Received, ReceivedInVain,
             ReceiveFailed, ReceiveAborted, Disconnected, UnlockConnection, TimerTypeOK
    <2>3. CASE Filing(t)
      BY <1>7, <1>1, <2>3
         DEF Filing, WriteToOpen, WriteToNew, ExpiresIn, CannotOpen, WriteFile, DataWritten,
             WriteFailed, CloseFile, Relocate, UnlockFileMutex, TimerTypeOK
    <2>4. CASE Timing(t)
      <3>1. CASE Disarm(t)
        <4>1. On(t) \in Timers
          BY <1>1, <3>1, TypedStacks, DisarmEffect
        <4> QED
          BY <1>1, <3>1, <4>1 DEF Disarm, TimerTypeOK
      <3>2. CASE ~Disarm(t)
        BY <1>7, <2>4, <3>2
           DEF Timing, CloseIdle, CloseOld, TimerInVain, Time, CallbacksAwaited, CallbackEnds,
               TimerTypeOK
      <3> QED
        BY <3>1, <3>2
    <2>5. CASE Operate(t)
      BY <1>7, <2>5 DEF Operate
    <2> QED
      BY <2>1, <2>2, <2>3, <2>4, <2>5
  <1>3. CASE \E t \in Pool, s \in Sock, op \in Operation, r \in Outcome : Completion(t, s, op, r)
    BY <1>7, <1>3 DEF Completion
  <1>4. CASE \E t \in Pool, r \in {"done", "error"} : WriteCompletion(t, r)
    BY <1>7, <1>4 DEF WriteCompletion
  <1>5. CASE \E t \in Pool : ConnectionTimerExpires(t) \/ FileTimerExpires(t)
    BY <1>1, <1>5 DEF ConnectionTimerExpires, FileTimerExpires, Expire, TimerTypeOK
  <1>6. CASE Undefined
    BY <1>7, <1>6 DEF Undefined, vars
  <1> QED
    BY <1>2, <1>3, <1>4, <1>5, <1>6 DEF Next

\* What a turn leaves of the file.
LEMMA TurnTyped ==
  ASSUME Typed, Filed, NEW t \in Thread, Turn(t)
  PROVE  /\ handle' \in {"closed", "bare", "open"}
         /\ writing' \in {"none", "active", "doomed"}
         /\ file_mutex' \in 0 .. 1
         /\ filesize' \in Nat /\ count' \in 0 .. BufferSize
  <1>1. /\ handle \in {"closed", "bare", "open"} /\ writing \in {"none", "active", "doomed"}
        /\ file_mutex \in 0 .. 1 /\ filesize \in Nat /\ FileHeld
        /\ count \in 0 .. BufferSize /\ BufferSize \in Nat \ {0}
    BY ReceiverAssumption DEF Typed, TypeOK, FileTypeOK, Filed
  <1>2. CASE Unlocks(t)
    <2>1. file_mutex = 1
      BY <1>1, <1>2, BusyAlone DEF Unlocks, PhaseGoes, Busy
    <2> QED
      BY <1>1, <1>2, <2>1, UnlockedOne DEF Unlocks, SameFile
  <1>3. CASE \E old \in BOOLEAN : Tallies(t, old)
    <2>1. /\ filesize' = filesize + count /\ count' = 0
          /\ UNCHANGED <<file_mutex, handle, writing>>
      BY <1>3 DEF Tallies
    <2> QED
      BY <1>1, <2>1
  <1>4. CASE \E r \in {"done", "error"} : Writes(t, r) \/ Learns(t, r)
    BY <1>1, <1>4 DEF Writes, Learns
  <1>5. CASE TakesOpen(t) \/ TakesNew(t) \/ TakesNone(t) \/ ClosesOld(t)
    <2>1. /\ file_mutex' = 1 /\ writing' = writing
          /\ handle' \in {handle, "open", "closed", "bare"} /\ filesize' \in {filesize, 0}
          /\ count' = count \/ count' \in 1 .. BufferSize
      BY <1>5 DEF TakesOpen, TakesNew, TakesNone, Takes, ClosesOld, SameFile
    <2> QED
      BY <1>1, <2>1
  <1>7. CASE GivesUp(t)
    <2>1. count' = 0 /\ UNCHANGED <<file_mutex, handle, writing, filesize>>
      BY <1>7 DEF GivesUp
    <2> QED
      BY <1>1, <2>1
  <1>6. CASE \/ Rests(t) \/ WritesLater(t) \/ Stops(t) \/ Awaits(t)
             \/ Closes(t) \/ Relocates(t) \/ Wakes(t) \/ InVain(t)
    BY <1>1, <1>6
       DEF Rests, WritesLater, Stops, Awaits, Closes, Relocates, Wakes, InVain, SameFile
  <1> QED
    BY <1>2, <1>3, <1>4, <1>5, <1>6, <1>7 DEF Turn

\* After a breach everything stays as it is.
LEMMA HaltKeeps ==
  ASSUME Typed, Ordered, Filed, Locked, CarriedOn, Halts, timely' = timely
  PROVE  /\ StackTyped' /\ Ordered' /\ Filed' /\ Locked' /\ CarriedOn'
         /\ UNCHANGED <<handle, writing, file_mutex, connection_mutex, nfile, filesize, count, disk>>
  <1>1. UNCHANGED <<stack, armed, file_mutex, connection_mutex, handle, writing, nfile, filesize,
                    count, missed, disk, inflight>>
    BY DEF Halts
  <1>2. \A t \in Thread : /\ Phase(t)' = Phase(t)
                          /\ OnStack(t, MoveFile)' = OnStack(t, MoveFile)
                          /\ InCallback(t, File_Timer)' = InCallback(t, File_Timer)
    BY <1>1 DEF Phase, InCallback, OnStack
  <1>3. \A phases : InPhase(phases)' = InPhase(phases)
    BY <1>2 DEF InPhase
  <1>4. StackTyped' /\ Ordered'
    BY <1>1, TypedStacks DEF StackTyped, Finite, Ordered
  <1>5. FileHeld' /\ OpenAsNeeded' /\ InPlace' /\ CountHeld' /\ SizeLags' /\ SizeActedOn'
    BY <1>1, <1>2, <1>3
       DEF Filed, FileHeld, OpenAsNeeded, InPlace, CountHeld, SizeLags, SizeActedOn
  <1>6. MovesData' /\ DataInPlace'
    BY <1>1, <1>2 DEF Filed, MovesData, DataInPlace
  <1>7. TimedWhenOpen' /\ Attended'
    BY <1>1, <1>2, <1>3 DEF Filed, TimedWhenOpen, Attended
  <1>8. Locked' /\ CarriedOn'
    BY <1>1 DEF Locked, CarriedOn, Alive, InUse
  <1> QED
    BY <1>1, <1>4, <1>5, <1>6, <1>7, <1>8 DEF Filed

LEMMA FiledStep ==
  ASSUME Typed, Ordered, Filed, NEW t \in Thread, Turn(t), timely' = timely
  PROVE  Filed'
  BY HeldStep, OpenStep, PlaceStep, CountStep, SizeStep, SizeActStep, MovesStep, TimedStep,
     AttendedStep
     DEF Filed

RInv == Typed /\ Ordered /\ Filed /\ Locked /\ CarriedOn

\* The call main() starts with.
First == Begin("conn", "accept")

LEMMA FirstCall ==
  /\ First \in Calls /\ PhaseOf(First) = "none" /\ First # MoveFile /\ First # StopConn
  /\ Hit(First, Unlockers) = 0 /\ Hit(First, Carriers) = 1
  <1>1. First \in Calls
    BY FramesAreCalls, ReceiverAssumption DEF First, Operation
  <1>2. First.call = "begin" /\ First.op = "accept"
    BY FrameFields DEF First
  <1>3. Hit(First, Unlockers) = 0 /\ Hit(First, Carriers) = 1
    BY <1>1, <1>2, Hits DEF Bit
  <1>4. First # MoveFile /\ First # StopConn
    BY FrameFields DEF First, StopConn
  <1>5. PhaseOf(First) = "none"
    BY <1>2, NoPhase
  <1> QED
    BY <1>1, <1>3, <1>4, <1>5

LEMMA InitCounts ==
  ASSUME Init, NEW F
  PROVE  IsFiniteSet(Places(stack, F)) /\ Count(stack, F) = Hit(First, F)
  <1>1. /\ Main \in DOMAIN stack
        /\ stack[Main] = <<First>>
        /\ \A u \in DOMAIN stack \ {Main} : stack[u] = <<>>
    BY DEF Init, Thread, First
  <1> QED
    BY <1>1, CountSingle

LEMMA RInvInit == Init => RInv
  <1> SUFFICES ASSUME Init PROVE RInv
    OBVIOUS
  <1>1. /\ stack[Main] = <<First>> /\ Main \in Thread /\ DOMAIN stack = Thread
        /\ \A t \in Thread \ {Main} : stack[t] = <<>>
        /\ \A t \in Thread : stack[t] = <<First>> \/ stack[t] = <<>>
    BY DEF Init, Thread, First
  <1>2. /\ StackTyped
        /\ \A F : Count(stack, F) = Hit(First, F)
    <2>1. \A F : IsFiniteSet(Places(stack, F)) /\ Count(stack, F) = Hit(First, F)
      BY InitCounts
    <2>2. <<First>> \in Seq(Calls) /\ <<>> \in Seq(Calls)
      BY FirstCall
    <2>3. stack \in [Thread -> Seq(Calls)]
      <3>1. stack = [t \in Thread |-> IF t = Main THEN <<First>> ELSE <<>>]
        BY DEF Init, First
      <3> QED
        BY <2>2, <3>1
    <2> QED
      BY <2>1, <2>3 DEF StackTyped, Finite
  <1>3. SocketTypeOK
    BY ReceiverAssumption DEF Init, SocketInit, SocketTypeOK, Handle, Flight, Fault
  <1>4. TimerTypeOK /\ FileTypeOK
    BY DEF Init, TimerTypeOK, TimerInit, FileTypeOK, FileInit
  <1>5. disk \in [1 .. MaxFiles -> FileOnDisk] /\ \A n \in 1 .. MaxFiles : disk[n] = NoFile
    BY DEF Init, NoFile, FileOnDisk
  <1>6. Typed
    <2>1. /\ filesize \in 0 .. MaxFileSize + BufferSize - 1 /\ count \in 0 .. BufferSize
          /\ connection_mutex \in 0 .. 1 /\ file_mutex \in 0 .. 1 /\ nfile \in 0 .. MaxFiles
      <3>1. /\ filesize = 0 /\ count = 0 /\ nfile = 0 /\ connection_mutex = 0 /\ file_mutex = 0
        BY DEF Init
      <3> QED
        BY <3>1, ReceiverAssumption
    <2>2. missed \in BOOLEAN /\ timely \in BOOLEAN
      BY DEF Init
    <2> QED
      BY <1>2, <1>3, <1>4, <1>5, <2>1, <2>2 DEF Typed, TypeOK, StackTyped
  <1> DEFINE one == <<First>>
  <1>7. one # <<>> /\ DOMAIN one = {1} /\ one[1] = First /\ Head(one) = First
    OBVIOUS
  <1> HIDE DEF one
  <1>8. /\ \A t \in Thread : stack[t] = one \/ stack[t] = <<>>
        /\ \A t \in Thread : \A i \in DOMAIN stack[t] : i = 1 /\ stack[t][i] = First
    BY <1>1, <1>7 DEF one
  <1>9. Ordered
    <2>1. Staged(one) /\ Parted(one)
      BY <1>7, FirstCall DEF Staged, Parted, Last, StopConn
    <2>2. Staged(<<>>) /\ Parted(<<>>)
      BY DEF Staged, Parted
    <2> QED
      BY <1>8, <2>1, <2>2 DEF Ordered
  <1>10. /\ \A t \in Thread : Phase(t) = "none" /\ ~OnStack(t, MoveFile)
         /\ \A phases : "none" \notin phases => ~InPhase(phases)
    <2>1. Phased(one) = "none" /\ Phased(<<>>) = "none"
      BY <1>7, FirstCall DEF Phased, one
    <2>2. \A t \in Thread : Phase(t) = "none"
      BY <1>8, <2>1 DEF Phase
    <2>3. \A t \in Thread : ~OnStack(t, MoveFile)
      BY <1>8, FirstCall DEF OnStack
    <2> QED
      BY <2>2, <2>3 DEF InPhase
  <1>11. handle = "closed" /\ writing = "none" /\ armed[File_Timer] = "off"
    BY ReceiverAssumption DEF Init, FileInit, TimerInit
  <1>12. FileHeld /\ OpenAsNeeded /\ TimedWhenOpen /\ CountHeld
    BY <1>10, <1>11 DEF Init, FileHeld, OpenAsNeeded, TimedWhenOpen, CountHeld, Busy
  <1>13. InPlace /\ SizeLags /\ SizeActedOn /\ MovesData /\ DataInPlace /\ Attended
    <2>1. 0 < MaxFileSize + BufferSize
      BY ReceiverAssumption
    <2> QED
      BY <1>5, <1>10, <1>11, <2>1
         DEF Init, InPlace, SizeLags, SizeActedOn, MovesData, DataInPlace, Attended, NoFile
  <1>14. Locked /\ CarriedOn
    BY <1>2, FirstCall DEF Init, Locked, CarriedOn, Alive
  <1> QED
    BY <1>6, <1>9, <1>12, <1>13, <1>14 DEF RInv, Filed

LEMMA RInvStep == RInv /\ [Next]_vars => RInv'
  <1> SUFFICES ASSUME RInv, [Next]_vars PROVE RInv'
    OBVIOUS
  <1>1. Typed /\ Ordered /\ Filed /\ Locked /\ CarriedOn
    BY DEF RInv
  <1>2. CASE Next
    <2>1. /\ timely' = timely /\ SocketTypeOK' /\ TimerTypeOK' /\ misused' \in BOOLEAN
          /\ Halts \/ Beat
          /\ Halts \/ (StackTyped' /\ Ordered' /\ \E t \in Thread : Turn(t))
      BY <1>1, <1>2, Turns, Beats, TimerTyped, MisusedTyped
    <2>2. /\ handle \in {"closed", "bare", "open"} /\ writing \in {"none", "active", "doomed"}
          /\ connection_mutex \in 0 .. 1 /\ file_mutex \in 0 .. 1 /\ nfile \in 0 .. MaxFiles
          /\ filesize \in 0 .. MaxFileSize + BufferSize - 1
          /\ count \in 0 .. BufferSize /\ disk \in [1 .. MaxFiles -> FileOnDisk]
          /\ timely \in BOOLEAN
      BY <1>1 DEF Typed, TypeOK, FileTypeOK
    <2>3. /\ StackTyped' /\ Ordered' /\ Filed' /\ Locked' /\ CarriedOn'
          /\ handle' \in {"closed", "bare", "open"} /\ writing' \in {"none", "active", "doomed"}
          /\ connection_mutex' \in 0 .. 1 /\ file_mutex' \in 0 .. 1 /\ nfile' \in 0 .. MaxFiles
          /\ filesize' \in Nat /\ count' \in 0 .. BufferSize
          /\ disk' \in [1 .. MaxFiles -> FileOnDisk]
      <3>1. CASE Halts
        BY <1>1, <2>1, <2>2, <3>1, HaltKeeps
      <3>2. CASE ~Halts
        <4>1. PICK t \in Thread : Turn(t)
          BY <2>1, <3>2
        <4>2. StackTyped' /\ Ordered' /\ Beat
          BY <2>1, <3>2
        <4> QED
          BY <1>1, <2>1, <4>1, <4>2, FiledStep, TurnTyped, DiskTurns, PlaceStep, BeatKeeps
      <3> QED
        BY <3>1, <3>2
    <2>4. filesize' \in 0 .. MaxFileSize + BufferSize - 1
      BY <2>3, ReceiverAssumption DEF Filed, SizeActedOn
    <2>5. missed' \in BOOLEAN
      BY <1>1, <1>2, MissedTyped
    <2> QED
      BY <2>1, <2>2, <2>3, <2>4, <2>5 DEF RInv, Typed, TypeOK, FileTypeOK, StackTyped
  <1>3. CASE UNCHANGED vars
    <2>1. Halts /\ timely' = timely /\ UNCHANGED socketVars /\ UNCHANGED fileVars
      BY <1>3 DEF vars, Halts, socketVars, fileVars, mutexVars, fileNotes
    <2>2. Ordered' /\ Filed' /\ Locked' /\ CarriedOn' /\ StackTyped'
      BY <1>1, <2>1, HaltKeeps
    <2>3. TypeOK'
      BY <1>1, <1>3 DEF vars, socketVars, fileVars, mutexVars, fileNotes, Typed, TypeOK,
                        SocketTypeOK, TimerTypeOK, FileTypeOK
    <2> QED
      BY <2>2, <2>3 DEF RInv, Typed, StackTyped
  <1> QED
    BY <1>2, <1>3

LEMMA RInvAlways == Spec => []RInv
  <1> QED
    BY RInvInit, RInvStep, PTL DEF Spec

-----------------------------------------------------------------------------
(* The theorems about the file.                                            *)

\* Where a call of some phase may be on an ordered stack.
LEMMA PhasedCall ==
  ASSUME NEW q \in Seq(Calls), Staged(q), NEW i \in DOMAIN q, PhaseOf(q[i]) # "none"
  PROVE  /\ q # <<>>
         /\ \/ i = 1 /\ PhaseOf(q[i]) = Phased(q)
            \/ Phased(q) \notin Last /\ PhaseOf(q[i]) \in {"move", "unlock", "close"}
  <1>1. /\ Len(q) \in Nat \ {0} /\ DOMAIN q = 1 .. Len(q) /\ q # <<>> /\ Phased(q) = PhaseOf(q[1])
    <2>1. Len(q) \in Nat /\ DOMAIN q = 1 .. Len(q)
      BY LenProperties
    <2>2. Len(q) # 0
      BY <2>1
    <2>3. q # <<>>
      BY <2>2, EmptySeq
    <2> QED
      BY <2>1, <2>2, <2>3 DEF Phased
  <1>2. CASE i = 1
    BY <1>1, <1>2
  <1>3. CASE i # 1
    <2>1. i - 1 \in DOMAIN q /\ (i - 1) + 1 = i /\ i > i - 1 /\ 1 \in DOMAIN q /\ i > 1
      BY <1>1, <1>3
    <2>2. PhaseOf(q[i - 1]) \notin Last /\ PhaseOf(q[1]) \notin Last
      BY <2>1 DEF Staged
    <2>3. PhaseOf(q[i]) = After(PhaseOf(q[i - 1]))
      BY <2>1, <2>2 DEF Staged
    <2> QED
      BY <1>1, <2>2, <2>3 DEF After
  <1> QED
    BY <1>2, <1>3

\* The threads that work on the file are those of a busy phase.
LEMMA FilersBusy ==
  ASSUME StackTyped, Ordered, NEW t \in Thread
  PROVE  t \in Filers <=> Phase(t) \in Busy
  <1> DEFINE q == stack[t]
             names == {"write", "written", "close_file", "move_file", "delete_file", "unlock_file"}
  <1>1. q \in Seq(Calls) /\ Staged(q) /\ Phase(t) = Phased(q) /\ \A i \in DOMAIN q : q[i] \in Calls
    BY DEF StackTyped, Ordered, Phase
  <1>2. ASSUME NEW f \in Calls
        PROVE  f.call \in names <=>
                 PhaseOf(f) \in {"write", "done", "failed", "close", "move", "unlock"}
    BY PhaseNamed, CallNamed
  <1>3. t \in Filers <=> \E i \in DOMAIN q : q[i].call \in names
    BY DEF Filers
  <1> HIDE DEF q
  <1>4. ASSUME NEW i \in DOMAIN q, q[i].call \in names PROVE Phased(q) \in Busy
    <2>1. PhaseOf(q[i]) \in {"write", "done", "failed", "close", "move", "unlock"}
      BY <1>1, <1>2, <1>4
    <2>2. PhaseOf(q[i]) = Phased(q) \/ Phased(q) \notin Last
      BY <1>1, <2>1, PhasedCall
    <2>3. Phased(q) \notin Last => Phased(q) \in {"stop", "await", "close", "move"}
      BY DEF Phased, PhaseOf, Last
    <2> QED
      BY <2>1, <2>2, <2>3 DEF Busy
  <1>5. ASSUME Phased(q) \in Busy PROVE \E i \in DOMAIN q : q[i].call \in names
    <2>1. /\ q # <<>> /\ 1 \in DOMAIN q /\ PhaseOf(q[1]) = Phased(q)
      <3>1. q # <<>>
        BY <1>5 DEF Phased, Busy
      <3> QED
        BY <1>1, <3>1, EmptySeq, LenProperties DEF Phased
    <2>2. CASE Phased(q) \in {"stop", "await"}
      <3>1. 1 + 1 \in DOMAIN q /\ PhaseOf(q[1 + 1]) = "close"
        BY <1>1, <2>1, <2>2 DEF Staged, Last, After
      <3> QED
        BY <1>1, <1>2, <3>1
    <2>3. CASE Phased(q) \notin {"stop", "await"}
      BY <1>1, <1>2, <1>5, <2>1, <2>3 DEF Busy
    <2> QED
      BY <2>2, <2>3
  <1> QED
    BY <1>1, <1>3, <1>4, <1>5

\* The state of the connection always has its type, and the file outgrows its
\* maximum size by less than one buffer: written() compares the size when a
\* write has ended, and what is too big gets no other write.
THEOREM Typing == Spec => []TypeOK
  <1>1. RInv => TypeOK
    BY DEF RInv, Typed
  <1> QED
    BY <1>1, RInvAlways, PTL

\* The file mutex is taken when and only when the file has its one user, a
\* thread or Windows; and only a file that is open is written to.
THEOREM FileMutex == Spec => []FileMutexGuards
  <1>1. ASSUME RInv PROVE FileMutexGuards
    <2>1. /\ FileHeld /\ OpenAsNeeded /\ file_mutex \in 0 .. 1 /\ StackTyped /\ Ordered
      BY <1>1, TypedStacks DEF RInv, Filed, Typed, TypeOK
    <2>2. CASE InPhase(Busy)
      <3>1. PICK t \in Thread : Phase(t) \in Busy
        BY <2>2 DEF InPhase
      <3>2. Filers = {t}
        <4>1. t \in Filers
          BY <2>1, <3>1, FilersBusy
        <4>2. ASSUME NEW u \in Filers PROVE u = t
          <5>1. u \in Thread /\ Phase(u) \in Busy
            BY <2>1, <4>2, FilersBusy DEF Filers
          <5> QED
            BY <2>1, <3>1, <5>1 DEF FileHeld
        <4> QED
          BY <4>1, <4>2
      <3>3. Cardinality(Filers) = 1
        BY <3>2, FS_Singleton
      <3>4. file_mutex = 1 /\ writing = "none"
        BY <2>1, <2>2 DEF FileHeld
      <3> QED
        BY <3>3, <3>4 DEF FileMutexGuards
    <2>3. CASE ~InPhase(Busy)
      <3>1. Filers = {}
        <4>1. ASSUME NEW u \in Filers PROVE FALSE
          <5>1. u \in Thread
            BY <4>1 DEF Filers
          <5> QED
            BY <2>1, <2>3, <4>1, <5>1, FilersBusy DEF InPhase
        <4> QED
          BY <4>1
      <3>2. Cardinality(Filers) = 0
        BY <3>1, FS_EmptySet
      <3>3. file_mutex = IF writing = "none" THEN 0 ELSE 1
        BY <2>1, <2>3 DEF FileHeld
      <3>4. writing # "none" => handle = "open"
        BY <2>1 DEF OpenAsNeeded
      <3> QED
        BY <3>2, <3>3, <3>4 DEF FileMutexGuards
    <2> QED
      BY <2>2, <2>3
  <1> QED
    BY <1>1, RInvAlways, PTL

\* No file without data gets to the final directory, whichever of written(),
\* error_writing_file() and file_timer() moves it.
THEOREM FinalFiles == Spec => []FinalFilesHaveData
  <1>1. RInv => FinalFilesHaveData
    BY DEF RInv, Filed, DataInPlace, FinalFilesHaveData
  <1> QED
    BY <1>1, RInvAlways, PTL

\* _M_filesize is what has been appended, but for a write whose end is being
\* told.
THEOREM Size == Spec => []SizeTracked
  <1>1. ASSUME RInv PROVE SizeTracked
    <2>1. /\ FileHeld /\ SizeLags /\ filesize \in Nat /\ StackTyped /\ Ordered
      BY <1>1, TypedStacks, ReceiverAssumption DEF RInv, Filed, Typed, TypeOK
    <2>2. ASSUME NEW t \in Thread PROVE OnStack(t, Written("done")) <=> Phase(t) = "done"
      <3>1. /\ stack[t] \in Seq(Calls) /\ Staged(stack[t]) /\ Phase(t) = Phased(stack[t])
        BY <2>1 DEF StackTyped, Ordered, Phase
      <3>2. ASSUME NEW i \in DOMAIN stack[t], stack[t][i] = Written("done")
            PROVE  Phase(t) = "done"
        <4>1. PhaseOf(stack[t][i]) = "done"
          BY <3>2, Phases
        <4> QED
          BY <3>1, <3>2, <4>1, PhasedCall
      <3>3. ASSUME Phase(t) = "done" PROVE OnStack(t, Written("done"))
        <4>1. Running(t, "written") /\ Arg(t) = "done"
          BY <2>1, <3>3, FiledPhase
        <4>2. Head(stack[t]) = Written("done")
          <5>1. Head(stack[t]) \in Calls /\ Head(stack[t]).call = "written"
            BY <2>1, <4>1, Executing
          <5>2. Head(stack[t]).arg = "done"
            BY <4>1 DEF Arg
          <5> QED
            BY <5>1, <5>2, CallNamed
        <4>3. stack[t] # <<>>
          BY <4>1 DEF Running, Idle
        <4>4. 1 \in DOMAIN stack[t] /\ stack[t][1] = Head(stack[t])
          BY <3>1, <4>3, EmptySeq, LenProperties
        <4> QED
          BY <4>2, <4>4 DEF OnStack
      <3> QED
        BY <3>2, <3>3 DEF OnStack
    <2>3. (\E t \in Thread : OnStack(t, Written("done"))) <=> InPhase({"done"})
      BY <2>2 DEF InPhase
    <2>4. filesize + 0 = filesize
      BY <2>1
    <2> QED
      BY <2>1, <2>3, <2>4 DEF SizeTracked, SizeLags
  <1> QED
    BY <1>1, RInvAlways, PTL

\* An open file nobody works on has its timer set or calling back, or the timer
\* has fired in vain since written() has last looked at the age of the file.
THEOREM FileTimer == Spec => []FileIsTimed
  <1>1. ASSUME RInv PROVE FileIsTimed
    <2>1. FileHeld /\ TimedWhenOpen /\ Attended
      BY <1>1 DEF RInv, Filed
    <2>2. ASSUME timely, handle = "open", file_mutex = 0, armed[File_Timer] = "off", ~missed
          PROVE  \E t \in Thread : InCallback(t, File_Timer)
      <3>1. writing = "none" /\ ~InPhase(Busy)
        BY <2>1, <2>2 DEF FileHeld
      <3>2. InPhase({"try"})
        BY <2>1, <2>2, <3>1 DEF Attended, InPhase, Busy, Ending
      <3> QED
        BY <2>1, <3>2 DEF TimedWhenOpen, InPhase
    <2> QED
      BY <2>2 DEF FileIsTimed
  <1> QED
    BY <1>1, RInvAlways, PTL

\* A file of the final directory is complete: no step appends to it, moves
\* it or replaces it.
THEOREM FinalFilesStay == Spec => FinalFilesKept
  <1>1. ASSUME RInv, [Next]_vars
        PROVE  [\A n \in 1 .. MaxFiles : disk[n].place = "finaldir" => disk'[n] = disk[n]]_vars
    <2>1. CASE UNCHANGED disk
      BY <2>1
    <2>2. CASE ~UNCHANGED disk
      <3>1. Next
        BY <1>1, <2>2 DEF vars
      <3>2. PICK t \in Thread : Turn(t)
        BY <1>1, <2>2, <3>1, Turns DEF RInv, Halts
      <3>3. /\ DiskTurn /\ InPlace /\ nfile \in 0 .. MaxFiles /\ MaxFiles \in Nat
            /\ disk \in [1 .. MaxFiles -> FileOnDisk]
        BY <1>1, <3>2, DiskTurns DEF RInv, Filed
      <3>4. NoFile.place = "none"
        BY DEF NoFile
      <3> QED
        BY <2>2, <3>3, <3>4 DEF DiskTurn, InPlace, FileOnDisk
    <2> QED
      BY <2>1, <2>2
  <1> QED
    BY <1>1, RInvAlways, PTL DEF Spec, FinalFilesKept

-----------------------------------------------------------------------------
(* The theorems about the connection.                                      *)

\* The connection is carried on with: by a call, an operation in Windows, a
\* write, or connection_timer(), which gets the connection mutex when all else
\* has ended.
THEOREM Carried == Spec => []NeverLost
  <1>1. ASSUME RInv PROVE NeverLost
    <2>1. StackTyped /\ CarriedOn /\ "conn" \in Sock
      BY <1>1, TypedStacks, ReceiverAssumption DEF RInv
    <2>2. ASSUME NEW F \in SUBSET Calls, Count(stack, F) > 0 PROVE \E t \in Thread : ~Idle(t)
      <3>1. CASE \A t \in DOMAIN stack : stack[t] = <<>>
        <4>1. Count(stack, F) = 0
          BY <3>1, CountIdle
        <4> QED
          BY <2>2, <4>1
      <3>2. CASE ~\A t \in DOMAIN stack : stack[t] = <<>>
        BY <2>1, <3>2 DEF StackTyped, Idle
      <3> QED
        BY <3>1, <3>2
    <2>3. Alive =>
            \/ armed[Connection_Timer] # "off" \/ writing # "none"
            \/ \E t \in Thread : ~Idle(t)
            \/ \E s \in Sock, op \in Operation : InUse(s, op)
      BY <2>1, <2>2, KindsOfCalls DEF Alive, Operation
    <2> QED
      BY <2>1, <2>2, <2>3, KindsOfCalls DEF CarriedOn, NeverLost
  <1> QED
    BY <1>1, RInvAlways, PTL

-----------------------------------------------------------------------------
(* The callback of the file timer.                                         *)

\* What file_timer() calls: it closes and moves the file, cancels no timer and
\* starts nothing else.
OwnNames == {"try_lock_file", "close_file", "move_file", "unlock_file", "timer_end"}

Inside(t) == InCallback(t, File_Timer)

KeepToOwn ==
  \A t \in Thread : Inside(t) => \A i \in DOMAIN stack[t] : stack[t][i].call \in OwnNames

\* What the thread executes is one of them.
LEMMA OwnHead ==
  ASSUME StackTyped, KeepToOwn, NEW t \in Thread, Inside(t)
  PROVE  ~Idle(t) /\ Head(stack[t]).call \in OwnNames
  <1>1. stack[t] \in Seq(Calls) /\ \E i \in DOMAIN stack[t] : TRUE
    BY DEF StackTyped, Inside, InCallback, OnStack
  <1>2. stack[t] # <<>> /\ 1 \in DOMAIN stack[t] /\ Head(stack[t]) = stack[t][1]
    <2>1. Len(stack[t]) \in Nat \ {0} /\ DOMAIN stack[t] = 1 .. Len(stack[t])
      BY <1>1, LenProperties
    <2> QED
      BY <1>1, <2>1, EmptySeq
  <1> QED
    BY <1>2 DEF KeepToOwn, Idle

\* A call that makes the calls c.
LEMMA ReplaceOwn ==
  ASSUME StackTyped, KeepToOwn, NEW t \in Thread, ~Idle(t), NEW c \in Seq(Calls), Replace(t, c),
         \A i \in DOMAIN c : c[i].call # "timer_end",
         Inside(t) => \A i \in DOMAIN c : c[i].call \in OwnNames
  PROVE  KeepToOwn'
  <1> DEFINE q == stack[t]
             r == c \o Tail(q)
  <1>1. q \in Seq(Calls) /\ q # <<>> /\ Goes(t, q, r)
    BY Replaces
  <1>2. Keeps(t, TRUE)
    BY <1>1, KeepsCalls
  <1>3. \A i \in DOMAIN r : (\E j \in DOMAIN c : r[i] = c[j]) \/ (\E j \in DOMAIN q : r[i] = q[j])
    BY <1>1, MadeOrLeft
  <1> HIDE DEF r
  <1>4. stack'[t] = r /\ \A u \in Thread \ {t} : stack'[u] = stack[u]
    BY <1>1 DEF Goes
  <1>5. ASSUME NEW u \in Thread, Inside(u)'
        PROVE  \A i \in DOMAIN stack'[u] : stack'[u][i].call \in OwnNames
    <2>1. Inside(u)
      BY <1>2, <1>5, ReceiverAssumption DEF Keeps, Inside
    <2>2. CASE u = t
      BY <1>3, <1>4, <2>1, <2>2 DEF KeepToOwn
    <2>3. CASE u # t
      BY <1>4, <2>1, <2>3 DEF KeepToOwn
    <2> QED
      BY <2>2, <2>3
  <1> QED
    BY <1>5 DEF KeepToOwn

LEMMA ReturnOwn ==
  ASSUME StackTyped, KeepToOwn, NEW t \in Thread, ~Idle(t), Return(t)
  PROVE  KeepToOwn'
  <1> DEFINE c == <<>>
  <1>1. c \in Seq(Calls) /\ DOMAIN c = {} /\ Replace(t, c)
    BY DEF Return
  <1> HIDE DEF c
  <1> QED
    BY <1>1, ReplaceOwn

\* Thread t executes a call that is not one of file_timer(): whatever it calls
\* is not called from there.
LEMMA RunsOutside ==
  ASSUME StackTyped, KeepToOwn, NEW t \in Thread, NEW name, name \notin OwnNames,
         Running(t, name)
  PROVE  /\ ~Idle(t) /\ ~Inside(t)
         /\ \A c \in Seq(Calls) :
              (\A i \in DOMAIN c : c[i].call # "timer_end") /\ Replace(t, c) => KeepToOwn'
         /\ \A c, y, u, k, m : Made(c, y, u, k, m) /\ Replace(t, c) => KeepToOwn'
  <1>1. ~Idle(t) /\ Head(stack[t]).call = name
    BY DEF Running
  <1>2. ~Inside(t)
    BY <1>1, OwnHead
  <1>3. \A c \in Seq(Calls) :
          (\A i \in DOMAIN c : c[i].call # "timer_end") /\ Replace(t, c) => KeepToOwn'
    BY <1>1, <1>2, ReplaceOwn
  <1>4. \A c, y, u, k, m : Made(c, y, u, k, m) =>
          c \in Seq(Calls) /\ \A i \in DOMAIN c : c[i].call # "timer_end"
    BY DEF Made
  <1> QED
    BY <1>1, <1>2, <1>3, <1>4

\* The same, for one call.
LEMMA OneOutside ==
  ASSUME StackTyped, KeepToOwn, NEW t \in Thread, NEW name, name \notin OwnNames,
         Running(t, name), NEW f \in Calls, f.call # "timer_end", Replace(t, <<f>>)
  PROVE  KeepToOwn'
  <1> DEFINE c == <<f>>
  <1>1. c \in Seq(Calls) /\ \A i \in DOMAIN c : c[i].call # "timer_end"
    OBVIOUS
  <1>2. Replace(t, c)
    OBVIOUS
  <1> HIDE DEF c
  <1> QED
    BY <1>1, <1>2, RunsOutside

LEMMA CallbackOwn ==
  ASSUME StackTyped, KeepToOwn, NEW t \in Thread, Callback(t)
  PROVE  KeepToOwn'
  <1>1. PICK name \in {"complete", "receive", "unlock_conn"} : Running(t, name)
    BY DEF Callback, Accepted, AcceptFailed, StartReceive, Received, ReceivedInVain, ReceiveFailed,
           ReceiveAborted, Disconnected, UnlockConnection, Told
  <1>2. name \notin OwnNames
    BY DEF OwnNames
  <1>3. CASE AcceptFailed(t) \/ Disconnected(t)
    <2>1. Begin("conn", "accept") \in Calls /\ Begin("conn", "accept").call = "begin"
      BY FramesAreCalls, FrameFields DEF Operation
    <2>2. Replace(t, <<Begin("conn", "accept")>>)
      BY <1>3 DEF AcceptFailed, Disconnected
    <2> QED
      BY <1>1, <1>2, <2>1, <2>2, OneOutside
  <1>4. CASE ReceivedInVain(t) \/ ReceiveAborted(t) \/ UnlockConnection(t)
    BY <1>1, <1>2, <1>4, RunsOutside, ReturnOwn DEF ReceivedInVain, ReceiveAborted, UnlockConnection
  <1>5. CASE Accepted(t) \/ StartReceive(t) \/ Received(t) \/ ReceiveFailed(t)
    <2>1. \/ Replace(t, <<Receive>>) \/ Replace(t, <<Begin("conn", "receive")>>)
          \/ Replace(t, <<LockFile, UnlockConn>>) \/ Replace(t, Append(CloseConnection, UnlockConn))
          \/ Replace(t, CloseConnection)
      BY <1>5 DEF Accepted, StartReceive, Received, ReceiveFailed
    <2>2. \A c, y, u, k, m : Made(c, y, u, k, m) /\ Replace(t, c) => KeepToOwn'
      BY <1>1, <1>2, RunsOutside
    <2> QED
      BY <2>1, <2>2, SimpleMade, WriteMade, CloseReceivedMade, CloseConnectionIs, ClosingMade
  <1> QED
    BY <1>3, <1>4, <1>5 DEF Callback

LEMMA FilingOwn ==
  ASSUME StackTyped, KeepToOwn, NEW t \in Thread, Filing(t)
  PROVE  KeepToOwn'
  <1> DEFINE Outward == \A c, y, u, k, m : Made(c, y, u, k, m) /\ Replace(t, c) => KeepToOwn'
  <1>1. \A name \in {"lock_file", "write", "written"} : Running(t, name) => Outward
    <2>1. \A name \in {"lock_file", "write", "written"} : name \notin OwnNames
      BY DEF OwnNames
    <2> QED
      BY <2>1, RunsOutside
  <1> HIDE DEF Outward
  <1>2. CASE WriteToOpen(t) \/ WriteToNew(t) \/ CannotOpen(t)
    <2>1. /\ Running(t, "lock_file")
          /\ Replace(t, <<WriteCall>>) \/ Replace(t, <<UnlockFile>> \o CloseConnection)
      BY <1>2 DEF WriteToOpen, WriteToNew, CannotOpen
    <2> QED
      BY <1>1, <2>1, FileCallMade, CannotOpenMade DEF Outward
  <1>3. CASE WriteFile(t)
    <2>1. CASE \E r \in {"done", "error"} : WriteAtOnce(t, r)
      BY <1>1, <2>1, FileCallMade DEF WriteAtOnce, Outward
    <2>2. CASE WritePending(t)
      BY <2>2, ReturnOwn DEF WritePending, Running
    <2>3. CASE WriteMisused(t)
      BY <2>3 DEF WriteMisused, KeepToOwn, Inside, InCallback, OnStack
    <2> QED
      BY <1>3, <2>1, <2>2, <2>3 DEF WriteFile
  <1>4. CASE DataWritten(t)
    <2>1. Running(t, "written")
      BY <1>4 DEF DataWritten
    <2>2. \/ Replace(t, CloseAndMove \o <<UnlockFile, Receive>>)
          \/ Replace(t, <<>> \o <<UnlockFile, Receive>>)
      BY <1>4 DEF DataWritten
    <2> QED
      BY <1>1, <2>1, <2>2, GoOnMade, FinishMade DEF Outward
  <1>5. CASE WriteFailed(t)
    <2>1. Running(t, "written") /\ WhatIsLeft \in {MoveFile, DeleteFile}
      BY <1>5 DEF WriteFailed, WhatIsLeft
    <2>2. Replace(t, <<StopTimer(File_Timer), CloseCall, WhatIsLeft, UnlockFile>>
                     \o CloseConnection)
      BY <1>5 DEF WriteFailed
    <2> QED
      BY <1>1, <2>1, <2>2, WriteFailedMade DEF Outward
  <1>6. CASE CloseFile(t) \/ Relocate(t) \/ UnlockFileMutex(t)
    BY <1>6, ReturnOwn DEF CloseFile, FileClose, Relocate, UnlockFileMutex, Running
  <1> QED
    BY <1>2, <1>3, <1>4, <1>5, <1>6 DEF Filing

LEMMA TimingOwn ==
  ASSUME StackTyped, KeepToOwn, NEW t \in Thread, Timing(t)
  PROVE  KeepToOwn'
  <1>1. CASE CloseIdle(t)
    <2>1. Running(t, "try_lock_conn") /\ Replace(t, Append(Disconnects, UnlockConn))
      BY <1>1 DEF CloseIdle, CloseIdleCalls
    <2>2. "try_lock_conn" \notin OwnNames
      BY DEF OwnNames
    <2> QED
      BY <2>1, <2>2, CloseIdleMade, RunsOutside
  <1>2. CASE CloseOld(t)
    <2> DEFINE c == CloseOldCalls
    <2>1. ~Idle(t) /\ Replace(t, c)
      BY <1>2 DEF CloseOld, Running
    <2>2. c \in Seq(Calls) /\ \A i \in DOMAIN c : c[i].call # "timer_end"
      BY CloseOldMade DEF Made
    <2>3. /\ CloseCall.call = "close_file" /\ MoveFile.call = "move_file"
          /\ UnlockFile.call = "unlock_file"
      BY FrameFields
    <2>4. \A i \in DOMAIN c : c[i] \in {CloseCall, MoveFile, UnlockFile}
      BY DEF CloseOldCalls
    <2>5. \A i \in DOMAIN c : c[i].call \in OwnNames
      BY <2>3, <2>4 DEF OwnNames
    <2> HIDE DEF c
    <2> QED
      BY <2>1, <2>2, <2>5, ReplaceOwn
  <1>3. CASE TimerInVain(t)
    BY <1>3, ReturnOwn DEF TimerInVain, Running
  <1>4. CASE CallbacksAwaited(t) \/ CallbackEnds(t)
    BY <1>4, ReturnOwn DEF CallbacksAwaited, CallbackEnds, Running
  <1>5. CASE Disarm(t)
    <2>1. Running(t, "stop_timer") /\ Replace(t, <<AwaitTimer(On(t))>>)
      BY <1>5 DEF Disarm
    <2>2. On(t) \in {File_Timer, Connection_Timer}
      BY <2>1, Executing, CallNamed
    <2>3. AwaitTimer(On(t)) \in Calls /\ AwaitTimer(On(t)).call = "await_timer"
      BY <2>2, FramesAreCalls, FrameFields
    <2>4. "stop_timer" \notin OwnNames
      BY DEF OwnNames
    <2> QED
      BY <2>1, <2>3, <2>4, OneOutside
  <1> QED
    BY <1>1, <1>2, <1>3, <1>4, <1>5 DEF Timing, Time

\* An operation that is started.
LEMMA StartedOwn ==
  ASSUME Typed, KeepToOwn, NEW t \in Thread, Running(t, "begin"),
         Establish(t, AtOnceOutcomes(t)) \/ Transfer(t) \/ Disconnect(t)
  PROVE  KeepToOwn'
  <1>1. /\ StackTyped /\ ~Idle(t) /\ On(t) = "conn" /\ Op(t) \in Operation
        /\ Tracked = {"receive"} /\ "begin" \notin OwnNames
    BY TypedStacks, BeginHead, ReceiverAssumption DEF Running, OwnNames
  <1>2. ASSUME NEW r \in Outcome, AtOnce(t, r) PROVE KeepToOwn'
    <2>1. /\ Complete("conn", Op(t), r) \in Calls
          /\ Complete("conn", Op(t), r).call = "complete"
      BY <1>1, FramesAreCalls, FrameFields
    <2>2. Replace(t, <<Complete("conn", Op(t), r)>>)
      BY <1>1, <1>2 DEF AtOnce
    <2> QED
      BY <1>1, <2>1, <2>2, OneOutside
  <1>3. CASE Pending(t)
    <2>1. CASE Op(t) = "receive"
      <3>1. /\ SetPending("conn", "receive") \in Calls
            /\ SetPending("conn", "receive").call = "io_pending"
        BY FramesAreCalls, FrameFields DEF SetPending
      <3>2. Replace(t, <<SetPending("conn", "receive")>>)
        BY <1>1, <1>3, <2>1 DEF Pending, Mark, SetPending
      <3> QED
        BY <1>1, <3>1, <3>2, OneOutside
    <2>2. CASE Op(t) # "receive"
      <3>1. Return(t)
        BY <1>1, <1>3, <2>2 DEF Pending, Mark, Return
      <3> QED
        BY <1>1, <3>1, ReturnOwn
    <2> QED
      BY <2>1, <2>2
  <1> QED
    BY <1>2, <1>3, StartedHow

LEMMA OperateOwn ==
  ASSUME Typed, KeepToOwn, NEW t \in Thread, Operate(t)
  PROVE  KeepToOwn'
  <1>1. CASE MisusedStart(t)
    BY <1>1 DEF MisusedStart, Breach, KeepToOwn, Inside, InCallback, OnStack
  <1>2. CASE Establish(t, AtOnceOutcomes(t)) \/ Transfer(t) \/ Disconnect(t)
    <2>1. Running(t, "begin")
      BY <1>2 DEF Establish, Transfer, Disconnect, Starts
    <2> QED
      BY <1>2, <2>1, StartedOwn
  <1>3. CASE Cancel(t) \/ SetIoPending(t)
    BY <1>3, TypedStacks, ReturnOwn DEF Cancel, SetIoPending, Running
  <1> QED
    BY <1>1, <1>2, <1>3 DEF Operate

\* The steps of Windows and of the thread pool.
LEMMA PoolOwn ==
  ASSUME Typed, Ordered, KeepToOwn, NEW t \in Pool
  PROVE  /\ \A s \in Sock, op \in Operation, r \in Outcome : Completion(t, s, op, r) => KeepToOwn'
         /\ \A r \in {"done", "error"} : WriteCompletion(t, r) => KeepToOwn'
         /\ ConnectionTimerExpires(t) => KeepToOwn'
         /\ FileTimerExpires(t) => KeepToOwn'
  <1>1. /\ t \in Thread /\ StackTyped
        /\ File_Timer # Connection_Timer /\ File_Timer \in Timers
    BY TypedStacks DEF Thread
  <1>2. ASSUME Idle(t), NEW y, PhaseGoes(t, "none", y), Keeps(t, FALSE) PROVE KeepToOwn'
    <2>1. ~Inside(t)
      BY <1>2 DEF Idle, Inside, InCallback, OnStack
    <2> QED
      BY <1>1, <1>2, <2>1 DEF PhaseGoes, Keeps, KeepToOwn, Inside
  <1>3. ASSUME NEW s \in Sock, NEW op \in Operation, NEW r \in Outcome, Completion(t, s, op, r)
        PROVE  KeepToOwn'
    <2>1. Effect(t, "none", "none", 0, 0, 0, 0, Carries(op), FALSE)
      BY <1>1, <1>3, CompletionEffect
    <2>2. Idle(t)
      BY <1>3 DEF Completion, Deliver, Start
    <2> QED
      BY <1>2, <2>1, <2>2 DEF Effect
  <1>4. ASSUME NEW r \in {"done", "error"}, WriteCompletion(t, r)
        PROVE  KeepToOwn'
    <2>1. Effect(t, "none", Ended(r), 0, 0, 0, 0, 1, FALSE)
      BY <1>1, <1>4, WriteCompletionEffect DEF Ended
    <2>2. Idle(t)
      BY <1>4 DEF WriteCompletion, WriteEnds, Start
    <2> QED
      BY <1>2, <2>1, <2>2 DEF Effect
  <1>5. ASSUME ConnectionTimerExpires(t) PROVE KeepToOwn'
    <2>1. Fires(t, Connection_Timer, TryLockConn, "none", 1)
      BY <1>1, <1>5, FireEffect
    <2>2. ~InCallback(t, File_Timer)
      BY <2>1 DEF Fires, Goes, InCallback, OnStack
    <2>3. \A u \in Thread \ {t} : stack'[u] = stack[u]
      BY <2>1 DEF Fires, Goes
    <2>4. \A u \in Thread : \A z :
            InCallback(u, z)' => InCallback(u, z) \/ (u = t /\ z = Connection_Timer)
      <3>1. TryLockConn.call # "move_file" /\ TryLockConn.call # "timer_end"
        BY FrameFields
      <3> QED
        BY <2>1, <3>1, FiredStack, Zenon
    <2>5. \A u \in Thread : Inside(u)' => Inside(u) /\ u # t
      BY <1>1, <2>2, <2>4 DEF Inside
    <2> QED
      BY <2>3, <2>5 DEF KeepToOwn
  <1>6. ASSUME FileTimerExpires(t) PROVE KeepToOwn'
    <2> DEFINE c == <<TryLockFile, TimerEnd(File_Timer)>>
    <2>1. Fires(t, File_Timer, TryLockFile, "try", 0)
      BY <1>1, <1>6, FireEffect
    <2>2. /\ stack'[t] = c
          /\ \A u \in Thread \ {t} : stack'[u] = stack[u]
      BY <2>1 DEF Fires, Goes
    <2>3. \A i \in DOMAIN c : c[i].call \in OwnNames
      BY FrameFields DEF OwnNames
    <2> HIDE DEF c
    <2>4. \A u \in Thread \ {t} : Inside(u)' => Inside(u)
      BY <2>2 DEF Inside, InCallback, OnStack
    <2> QED
      BY <2>2, <2>3, <2>4 DEF KeepToOwn
  <1> QED
    BY <1>3, <1>4, <1>5, <1>6

LEMMA OwnStep ==
  ASSUME Typed, Ordered, KeepToOwn, [Next]_vars
  PROVE  KeepToOwn'
  <1>1. StackTyped
    BY TypedStacks
  <1>2. CASE \E t \in Thread : Execute(t)
    BY <1>1, <1>2, CallbackOwn, FilingOwn, TimingOwn, OperateOwn DEF Execute
  <1>3. CASE \E t \in Pool, s \in Sock, op \in Operation, r \in Outcome : Completion(t, s, op, r)
    BY <1>3, PoolOwn
  <1>4. CASE \E t \in Pool, r \in {"done", "error"} : WriteCompletion(t, r)
    BY <1>4, PoolOwn
  <1>5. CASE \E t \in Pool : ConnectionTimerExpires(t) \/ FileTimerExpires(t)
    BY <1>5, PoolOwn
  <1>6. CASE UNCHANGED vars
    BY <1>6 DEF vars, KeepToOwn, Inside, InCallback, OnStack
  <1> QED
    BY <1>2, <1>3, <1>4, <1>5, <1>6 DEF Next, Undefined

\* main() starts with one call, which is not one of file_timer().
LEMMA OwnInit == Init => KeepToOwn
  <1> SUFFICES ASSUME Init PROVE KeepToOwn
    OBVIOUS
  <1> DEFINE one == <<First>>
  <1>1. \A i \in DOMAIN one : one[i] = First
    OBVIOUS
  <1>2. \A t \in Thread : stack[t] = one \/ stack[t] = <<>>
    BY DEF Init, First
  <1> HIDE DEF one
  <1>3. First # TimerEnd(File_Timer)
    BY FrameFields DEF First
  <1> QED
    BY <1>1, <1>2, <1>3 DEF KeepToOwn, Inside, InCallback, OnStack

\* Nobody waits for itself on account of the file: file_timer() never awaits
\* its own end, and the thread that spins on the file mutex is not the one that
\* has it, however deep the calls written() makes at once.
THEOREM NoSelfWait == Spec => []NobodyWaitsForItself
  <1>1. Init => KeepToOwn
    BY OwnInit
  <1>2. RInv /\ KeepToOwn /\ [Next]_vars => KeepToOwn'
    BY OwnStep DEF RInv
  <1>3. ASSUME RInv, KeepToOwn PROVE NobodyWaitsForItself
    <2>1. StackTyped /\ Ordered
      BY <1>3, TypedStacks DEF RInv
    <2>2. ASSUME NEW t \in Thread, Running(t, "await_timer") PROVE ~InCallback(t, File_Timer)
      <3>1. "await_timer" \notin OwnNames
        BY DEF OwnNames
      <3> QED
        BY <1>3, <2>1, <2>2, <3>1, RunsOutside DEF Inside
    <2>3. ASSUME NEW t \in Thread, Running(t, "lock_file") PROVE t \notin Filers
      <3>1. Phase(t) = "none"
        BY <2>1, <2>3, FiledPhase
      <3> QED
        BY <2>1, <3>1, FilersBusy DEF Busy
    <2> QED
      BY <2>2, <2>3 DEF NobodyWaitsForItself
  <1>4. RInv /\ KeepToOwn => NobodyWaitsForItself
    BY <1>3
  <1> QED
    BY <1>1, <1>2, <1>4, RInvAlways, PTL DEF Spec

=============================================================================

---------------------------- MODULE ReceiverCalls ----------------------------
(***************************************************************************)
(* The calls of the receiver connection, and what each action does to the  *)
(* stacks: which phase of the work on the file a thread goes to, and how   *)
(* many calls there are that unlock the connection mutex or carry on with  *)
(* the connection.                                                         *)
(*                                                                         *)
(* What a thread does with the file is known from the call at the head of  *)
(* its stack: the calls below it are those the phase of the head asks for, *)
(* and nothing further down touches the file.                              *)
(***************************************************************************)
EXTENDS Receiver, CallCounts

Bit(b) == IF b THEN 1 ELSE 0

Finite == IsFiniteSet(Places(stack, Calls))

StackTyped == stack \in [Thread -> Seq(Calls)] /\ Finite

SetPending(s, op) == Frame("io_pending", s, op, "none")

-----------------------------------------------------------------------------
(* The phases of the work on the file.                                     *)

\* The phase a thread is in when it is about to execute the call f: stop and
\* await its timer, close it, move or delete it, unlock its mutex; write to
\* it and learn that the write is done or has failed; try to lock its mutex
\* from the timer.
PhaseOf(f) ==
  IF f = WriteCall THEN "write"
  ELSE IF f = Written("done") THEN "done"
  ELSE IF f = Written("error") THEN "failed"
  ELSE IF f = UnlockFile THEN "unlock"
  ELSE IF f \in {MoveFile, DeleteFile} THEN "move"
  ELSE IF f = CloseCall THEN "close"
  ELSE IF f = AwaitTimer(File_Timer) THEN "await"
  ELSE IF f = StopTimer(File_Timer) THEN "stop"
  ELSE IF f = TryLockFile THEN "try"
  ELSE "none"

\* The phases after which the stack holds nothing more about the file, and
\* the phase that follows each of the others.
Last == {"none", "write", "done", "failed", "unlock", "try"}

After(p) == IF p = "close" THEN "move" ELSE IF p = "move" THEN "unlock" ELSE "close"

Staged(q) ==
  \A i \in DOMAIN q :
    IF PhaseOf(q[i]) \in Last
    THEN \A j \in DOMAIN q : j > i => PhaseOf(q[j]) = "none"
    ELSE i + 1 \in DOMAIN q /\ PhaseOf(q[i + 1]) = After(PhaseOf(q[i]))

\* The phase of the thread with the stack q.
Phased(q) == IF q = <<>> THEN "none" ELSE PhaseOf(Head(q))

Phase(t) == Phased(stack[t])

\* The connection timer is stopped two calls before the connection is
\* disconnected.
Parted(q) ==
  \A i \in DOMAIN q : q[i] = StopTimer(Connection_Timer) =>
    i + 2 \in DOMAIN q /\ q[i + 2] = Begin("conn", "disconnect")

Ordered == \A t \in Thread : Staged(stack[t]) /\ Parted(stack[t])

LEMMA FramesAreCalls ==
  /\ \A op \in Operation :
       Begin("conn", op) \in Calls /\ \A r \in Outcome : Complete("conn", op, r) \in Calls
  /\ CancelIo("conn", "receive") \in Calls /\ SetPending("conn", "receive") \in Calls
  /\ \A x \in {File_Timer, Connection_Timer} :
       StopTimer(x) \in Calls /\ AwaitTimer(x) \in Calls /\ TimerEnd(x) \in Calls
  /\ WriteCall \in Calls /\ CloseCall \in Calls
  /\ Written("done") \in Calls /\ Written("error") \in Calls
  /\ LockFile \in Calls /\ TryLockFile \in Calls /\ UnlockFile \in Calls
  /\ MoveFile \in Calls /\ DeleteFile \in Calls /\ Receive \in Calls
  /\ TryLockConn \in Calls /\ UnlockConn \in Calls
  <1> USE ReceiverAssumption
  <1>1. /\ \A op \in Operation :
             Begin("conn", op) \in Calls /\ \A r \in Outcome : Complete("conn", op, r) \in Calls
        /\ CancelIo("conn", "receive") \in Calls /\ SetPending("conn", "receive") \in Calls
    BY DEF Calls, Begin, CancelIo, Complete, SetPending, Frame
  <1>2. \A x \in {File_Timer, Connection_Timer} :
          StopTimer(x) \in Calls /\ AwaitTimer(x) \in Calls /\ TimerEnd(x) \in Calls
    BY DEF Calls
  <1>3. /\ WriteCall \in Calls /\ CloseCall \in Calls
        /\ Written("done") \in Calls /\ Written("error") \in Calls
        /\ LockFile \in Calls /\ TryLockFile \in Calls /\ UnlockFile \in Calls
        /\ MoveFile \in Calls /\ DeleteFile \in Calls /\ Receive \in Calls
        /\ TryLockConn \in Calls /\ UnlockConn \in Calls
    BY DEF Calls
  <1> QED
    BY <1>1, <1>2, <1>3

\* A call is known by its name and its fields.
LEMMA CallNamed ==
  ASSUME NEW f \in Calls
  PROVE  /\ f.call = "begin" => f.on = "conn" /\ f.op \in Operation /\ f = Begin("conn", f.op)
         /\ f.call = "cancel" => f = CancelIo("conn", "receive")
         /\ f.call = "io_pending" => f = SetPending("conn", "receive")
         /\ f.call = "complete" =>
              /\ f.on = "conn" /\ f.op \in Operation /\ f.arg \in Outcome
              /\ f = Complete("conn", f.op, f.arg)
         /\ f.call = "write" => f = WriteCall
         /\ f.call = "written" => f.arg \in {"done", "error"} /\ f = Written(f.arg)
         /\ f.call = "close_file" => f = CloseCall
         /\ f.call = "lock_file" => f = LockFile
         /\ f.call = "try_lock_file" => f = TryLockFile
         /\ f.call = "unlock_file" => f = UnlockFile
         /\ f.call = "move_file" => f = MoveFile
         /\ f.call = "delete_file" => f = DeleteFile
         /\ f.call = "receive" => f = Receive
         /\ f.call = "try_lock_conn" => f = TryLockConn
         /\ f.call = "unlock_conn" => f = UnlockConn
         /\ f.call \in {"stop_timer", "await_timer", "timer_end"} =>
              f.on \in {File_Timer, Connection_Timer}
         /\ f.call = "stop_timer" => f = StopTimer(f.on)
         /\ f.call = "await_timer" => f = AwaitTimer(f.on)
         /\ f.call = "timer_end" => f = TimerEnd(f.on)
  BY ReceiverAssumption
     DEF Calls, Begin, CancelIo, SetPending, Complete, WriteCall, Written, CloseCall, LockFile,
         TryLockFile, UnlockFile, MoveFile, DeleteFile, Receive, TryLockConn, UnlockConn, Call,
         StopTimer, AwaitTimer, TimerEnd, Frame

\* The names of the calls, and the objects and outcomes some carry.
LEMMA FrameFields ==
  /\ \A s, op : /\ Begin(s, op).call = "begin" /\ Begin(s, op).on = s /\ Begin(s, op).op = op
                /\ CancelIo(s, op).call = "cancel" /\ SetPending(s, op).call = "io_pending"
                /\ CancelIo(s, op).on = s /\ SetPending(s, op).on = s
                /\ CancelIo(s, op).op = op /\ SetPending(s, op).op = op
  /\ \A s, op, r : /\ Complete(s, op, r).call = "complete" /\ Complete(s, op, r).on = s
                   /\ Complete(s, op, r).op = op /\ Complete(s, op, r).arg = r
  /\ \A x : /\ StopTimer(x).call = "stop_timer" /\ StopTimer(x).on = x
            /\ AwaitTimer(x).call = "await_timer" /\ AwaitTimer(x).on = x
            /\ TimerEnd(x).call = "timer_end" /\ TimerEnd(x).on = x
  /\ WriteCall.call = "write" /\ CloseCall.call = "close_file"
  /\ \A r : Written(r).call = "written" /\ Written(r).arg = r
  /\ LockFile.call = "lock_file" /\ TryLockFile.call = "try_lock_file"
  /\ UnlockFile.call = "unlock_file" /\ MoveFile.call = "move_file"
  /\ DeleteFile.call = "delete_file" /\ Receive.call = "receive"
  /\ TryLockConn.call = "try_lock_conn" /\ UnlockConn.call = "unlock_conn"
  BY DEF Begin, CancelIo, SetPending, Complete, WriteCall, Written, CloseCall, LockFile,
         TryLockFile, UnlockFile, MoveFile, DeleteFile, Receive, TryLockConn, UnlockConn, Call,
         StopTimer, AwaitTimer, TimerEnd, Frame

LEMMA Phases ==
  /\ PhaseOf(WriteCall) = "write" /\ PhaseOf(Written("done")) = "done"
  /\ PhaseOf(Written("error")) = "failed" /\ PhaseOf(UnlockFile) = "unlock"
  /\ PhaseOf(MoveFile) = "move" /\ PhaseOf(DeleteFile) = "move"
  /\ PhaseOf(CloseCall) = "close" /\ PhaseOf(AwaitTimer(File_Timer)) = "await"
  /\ PhaseOf(StopTimer(File_Timer)) = "stop" /\ PhaseOf(TryLockFile) = "try"
  BY FrameFields DEF PhaseOf

\* Calls that have nothing to do with the file.
LEMMA NoPhase ==
  ASSUME NEW f, \/ f.call \in {"begin", "cancel", "io_pending", "complete", "lock_file", "receive",
                               "try_lock_conn", "unlock_conn", "timer_end"}
                \/ f.call \in {"stop_timer", "await_timer"} /\ f.on # File_Timer
  PROVE  PhaseOf(f) = "none"
  BY FrameFields DEF PhaseOf

\* The phase of a thread says what it executes.
LEMMA PhaseNamed ==
  ASSUME NEW f \in Calls
  PROVE  /\ PhaseOf(f) = "write" <=> f.call = "write"
         /\ PhaseOf(f) = "done" <=> f.call = "written" /\ f.arg = "done"
         /\ PhaseOf(f) = "failed" <=> f.call = "written" /\ f.arg = "error"
         /\ PhaseOf(f) = "unlock" <=> f.call = "unlock_file"
         /\ PhaseOf(f) = "move" <=> f.call \in {"move_file", "delete_file"}
         /\ PhaseOf(f) = "close" <=> f.call = "close_file"
         /\ PhaseOf(f) = "await" <=> f.call = "await_timer" /\ f.on = File_Timer
         /\ PhaseOf(f) = "stop" <=> f.call = "stop_timer" /\ f.on = File_Timer
         /\ PhaseOf(f) = "try" <=> f.call = "try_lock_file"
  BY FrameFields, CallNamed DEF PhaseOf

-----------------------------------------------------------------------------
(* What a step does to the stacks.                                         *)

\* A step of thread t that makes calls: the numbers of calls it leaves.
Moves(t, calls) ==
  \A F \in SUBSET Calls :
    /\ Count(stack, F) \in Nat /\ Count(stack', F) \in Nat
    /\ Count(stack', F) + Hit(Head(stack[t]), F) = Count(stack, F) + Tally(calls, F)

Adds(calls) ==
  \A F \in SUBSET Calls :
    /\ Count(stack, F) \in Nat /\ Count(stack', F) \in Nat
    /\ Count(stack', F) = Count(stack, F) + Tally(calls, F)

\* Only the stack of thread t changes: it had the stack q and has r.
Goes(t, q, r) ==
  /\ stack[t] = q /\ stack'[t] = r
  /\ \A u \in Thread \ {t} : stack'[u] = stack[u]

LEMMA Replaces ==
  ASSUME StackTyped, NEW t \in Thread, ~Idle(t), NEW c \in Seq(Calls), Replace(t, c)
  PROVE  /\ StackTyped'
         /\ stack[t] \in Seq(Calls) /\ stack[t] # <<>>
         /\ Goes(t, stack[t], c \o Tail(stack[t]))
         /\ Moves(t, c)
  <1>1. stack \in [Thread -> Seq(Calls)] /\ stack' = [stack EXCEPT ![t] = c \o Tail(@)]
    BY DEF StackTyped, Replace
  <1>2. stack[t] \in Seq(Calls) /\ stack[t] # <<>>
    BY <1>1 DEF Idle
  <1>3. stack' \in [Thread -> Seq(Calls)]
    <2>1. c \o Tail(stack[t]) \in Seq(Calls)
      BY <1>2, HeadTailProperties, ConcatProperties
    <2> QED
      BY <1>1, <2>1
  <1>4. Goes(t, stack[t], c \o Tail(stack[t]))
    BY <1>1 DEF Goes
  <1>5. Executes(t, stack, stack', c)
    BY <1>1 DEF Executes, ChangesAt, Idle
  <1>6. stack \in Stacks(Thread, Calls) /\ stack' \in Stacks(Thread, Calls)
    BY <1>1, <1>3 DEF Stacks
  <1>7. \A F \in SUBSET Calls : IsFiniteSet(Places(stack, F))
    BY CountSubset DEF StackTyped, Finite
  <1>8. \A F \in SUBSET Calls :
          /\ IsFiniteSet(Places(stack', F))
          /\ Count(stack, F) \in Nat /\ Count(stack', F) \in Nat
          /\ Count(stack', F) + Hit(Head(stack[t]), F) = Count(stack, F) + Tally(c, F)
    BY <1>5, <1>6, <1>7, Replaced
  <1> QED
    BY <1>2, <1>3, <1>4, <1>8 DEF StackTyped, Finite, Moves

\* The idle thread t of the pool starts calls.
LEMMA StartsCalls ==
  ASSUME StackTyped, NEW t, NEW c \in Seq(Calls), Start(t, c)
  PROVE  /\ StackTyped'
         /\ t \in Thread
         /\ Goes(t, <<>>, c)
         /\ Adds(c)
  <1>1. /\ t \in Thread /\ stack \in [Thread -> Seq(Calls)]
        /\ stack[t] = <<>> /\ stack' = [stack EXCEPT ![t] = c]
    BY DEF StackTyped, Start, Thread, Idle
  <1>2. stack' \in [Thread -> Seq(Calls)] /\ stack'[t] = c
    BY <1>1
  <1>3. Goes(t, <<>>, c)
    BY <1>1 DEF Goes
  <1>4. ChangesAt(t, stack, stack')
    BY <1>1 DEF ChangesAt
  <1>5. stack \in Stacks(Thread, Calls) /\ stack' \in Stacks(Thread, Calls)
    BY <1>1, <1>2 DEF Stacks
  <1>6. \A F \in SUBSET Calls : IsFiniteSet(Places(stack, F))
    BY CountSubset DEF StackTyped, Finite
  <1>7. \A F \in SUBSET Calls :
          /\ IsFiniteSet(Places(stack', F))
          /\ Count(stack, F) \in Nat /\ Count(stack', F) \in Nat
          /\ Count(stack', F) = Count(stack, F) + Tally(stack'[t], F)
    <2>1. t \in Thread /\ stack[t] = <<>>
      BY <1>1
    <2> QED
      BY <1>4, <1>5, <1>6, <2>1, Started
  <1> QED
    BY <1>1, <1>2, <1>3, <1>7 DEF StackTyped, Finite, Adds

-----------------------------------------------------------------------------
(* The order of the calls on a stack.                                      *)

\* What is left of a stack whose head has been executed.
LEMMA TailOrdered ==
  ASSUME NEW q \in Seq(Calls), q # <<>>, Staged(q), Parted(q)
  PROVE  /\ Staged(Tail(q)) /\ Parted(Tail(q))
         /\ PhaseOf(Head(q)) \in Last =>
              \A i \in DOMAIN Tail(q) : PhaseOf(Tail(q)[i]) = "none"
         /\ Phased(Tail(q)) = IF PhaseOf(Head(q)) \in Last THEN "none"
                              ELSE After(PhaseOf(Head(q)))
         /\ PhaseOf(Head(q)) \notin Last => Tail(q) # <<>>
  <1>1. /\ Len(q) \in Nat \ {0} /\ DOMAIN q = 1 .. Len(q) /\ Head(q) = q[1]
        /\ Tail(q) \in Seq(Calls) /\ Len(Tail(q)) = Len(q) - 1
        /\ DOMAIN Tail(q) = 1 .. Len(q) - 1
        /\ \A i \in 1 .. Len(q) - 1 : Tail(q)[i] = q[i + 1]
    BY HeadTailProperties, LenProperties, EmptySeq
  <1>2. Staged(Tail(q))
    BY <1>1 DEF Staged
  <1>3. Parted(Tail(q))
    BY <1>1 DEF Parted
  <1>4. PhaseOf(Head(q)) \in Last => \A i \in DOMAIN Tail(q) : PhaseOf(Tail(q)[i]) = "none"
    BY <1>1 DEF Staged
  <1>5. Tail(q) # <<>> => Len(q) - 1 >= 1 /\ Head(Tail(q)) = q[2] /\ Head(Tail(q)) = Tail(q)[1]
    <2>1. Tail(q) # <<>> => Len(Tail(q)) # 0 /\ Head(Tail(q)) = Tail(q)[1]
      BY <1>1, EmptySeq
    <2> QED
      BY <1>1, <2>1
  <1>6. PhaseOf(Head(q)) \notin Last =>
          Len(q) >= 2 /\ PhaseOf(q[2]) = After(PhaseOf(Head(q)))
    BY <1>1 DEF Staged
  <1>7. Len(q) >= 2 => Tail(q) # <<>>
    <2>1. Len(q) >= 2 => Len(Tail(q)) # 0
      BY <1>1
    <2> QED
      BY <1>1, <2>1, EmptySeq
  <1> QED
    BY <1>1, <1>2, <1>3, <1>4, <1>5, <1>6, <1>7 DEF Phased

\* A sequence of calls put before what is left, where that is nothing about
\* the file.
LEMMA JoinOrdered ==
  ASSUME NEW c \in Seq(Calls), NEW q \in Seq(Calls), Staged(c), Parted(c), Parted(q),
         \A i \in DOMAIN q : PhaseOf(q[i]) = "none"
  PROVE  Staged(c \o q) /\ Parted(c \o q)
  <1>1. /\ Len(c) \in Nat /\ Len(q) \in Nat
        /\ DOMAIN c = 1 .. Len(c) /\ DOMAIN q = 1 .. Len(q)
        /\ c \o q \in Seq(Calls) /\ DOMAIN (c \o q) = 1 .. Len(c) + Len(q)
        /\ \A i \in 1 .. Len(c) + Len(q) :
             (c \o q)[i] = IF i <= Len(c) THEN c[i] ELSE q[i - Len(c)]
    BY ConcatProperties, LenProperties
  <1>2. \A i \in 1 .. Len(c) + Len(q) : i > Len(c) => PhaseOf((c \o q)[i]) = "none"
    BY <1>1
  <1>3. "none" \in Last
    BY DEF Last
  <1>4. Staged(c \o q)
    BY <1>1, <1>2, <1>3 DEF Staged
  <1> DEFINE x == StopTimer(Connection_Timer)
             d == Begin("conn", "disconnect")
  <1>5. /\ \A i \in 1 .. Len(c) : c[i] = x => i + 2 \in 1 .. Len(c) /\ c[i + 2] = d
        /\ \A i \in 1 .. Len(q) : q[i] = x => i + 2 \in 1 .. Len(q) /\ q[i + 2] = d
    BY <1>1 DEF Parted
  <1>6. Parted(c \o q)
    <2> HIDE DEF x, d
    <2> SUFFICES ASSUME NEW i \in 1 .. Len(c) + Len(q), (c \o q)[i] = x
                 PROVE  i + 2 \in 1 .. Len(c) + Len(q) /\ (c \o q)[i + 2] = d
      BY <1>1 DEF Parted, x, d
    <2>1. CASE i <= Len(c)
      <3>1. i \in 1 .. Len(c) /\ c[i] = x
        BY <1>1, <2>1
      <3>2. i + 2 \in 1 .. Len(c) /\ c[i + 2] = d
        BY <1>5, <3>1
      <3> QED
        BY <1>1, <3>2
    <2>2. CASE i > Len(c)
      <3>1. i - Len(c) \in 1 .. Len(q) /\ q[i - Len(c)] = x
        BY <1>1, <2>2
      <3>2. (i - Len(c)) + 2 \in 1 .. Len(q) /\ q[(i - Len(c)) + 2] = d
        BY <1>5, <3>1
      <3>3. (i + 2) - Len(c) = (i - Len(c)) + 2 /\ i + 2 \in 1 .. Len(c) + Len(q) /\ i + 2 > Len(c)
        BY <1>1, <2>2, <3>2
      <3> QED
        BY <1>1, <3>2, <3>3
    <2> QED
      BY <1>1, <2>1, <2>2
  <1> QED
    BY <1>4, <1>6


\* The first half of cancelling the file timer and the second.
LEMMA AwaitOrdered ==
  ASSUME NEW q \in Seq(Calls), Staged(q), Parted(q), Phased(q) = "close"
  PROVE  /\ Staged(<<AwaitTimer(File_Timer)>> \o q) /\ Parted(<<AwaitTimer(File_Timer)>> \o q)
  <1> DEFINE f == AwaitTimer(File_Timer)
             c == <<f>>
  <1>1. f \in Calls /\ PhaseOf(f) = "await" /\ f # StopTimer(Connection_Timer)
    BY FramesAreCalls, FrameFields, Phases
  <1>2. c \in Seq(Calls) /\ Len(c) = 1 /\ c[1] = f
    BY <1>1
  <1> HIDE DEF c, f
  <1>3. /\ Len(q) \in Nat /\ DOMAIN q = 1 .. Len(q)
        /\ c \o q \in Seq(Calls) /\ Len(c \o q) = 1 + Len(q)
        /\ DOMAIN (c \o q) = 1 .. 1 + Len(q)
        /\ \A i \in 1 .. 1 + Len(q) : (c \o q)[i] = IF i <= 1 THEN c[i] ELSE q[i - 1]
    <2>1. Len(q) \in Nat /\ DOMAIN q = 1 .. Len(q)
      BY LenProperties
    <2>2. /\ c \o q \in Seq(Calls) /\ Len(c \o q) = 1 + Len(q)
          /\ \A i \in 1 .. 1 + Len(q) : (c \o q)[i] = IF i <= 1 THEN c[i] ELSE q[i - 1]
      <3>1. /\ c \o q \in Seq(Calls) /\ Len(c \o q) = Len(c) + Len(q)
            /\ \A i \in 1 .. Len(c) + Len(q) :
                 (c \o q)[i] = IF i <= Len(c) THEN c[i] ELSE q[i - Len(c)]
        BY <1>2, ConcatProperties
      <3>2. Len(c) = 1
        BY <1>2
      <3> QED
        BY <3>1, <3>2
    <2>3. DOMAIN (c \o q) = 1 .. 1 + Len(q)
      BY <2>2, LenProperties
    <2> QED
      BY <2>1, <2>2, <2>3
  <1>4. Len(q) >= 1 /\ PhaseOf(q[1]) = "close"
    <2>1. q # <<>> /\ PhaseOf(Head(q)) = "close"
      BY DEF Phased
    <2> QED
      BY <1>3, <2>1, EmptySeq
  <1> DEFINE r == c \o q
  <1>5. /\ DOMAIN r = 1 .. 1 + Len(q) /\ r[1] = f
        /\ \A i \in 1 .. Len(q) : r[i + 1] = q[i]
        /\ \A i \in 2 .. 1 + Len(q) : i - 1 \in 1 .. Len(q) /\ r[i] = q[i - 1]
    BY <1>2, <1>3
  <1> HIDE DEF r
  <1>6. Staged(r)
    <2> SUFFICES ASSUME NEW i \in 1 .. 1 + Len(q)
                 PROVE  IF PhaseOf(r[i]) \in Last
                        THEN \A j \in 1 .. 1 + Len(q) : j > i => PhaseOf(r[j]) = "none"
                        ELSE i + 1 \in 1 .. 1 + Len(q) /\ PhaseOf(r[i + 1]) = After(PhaseOf(r[i]))
      BY <1>5 DEF Staged
    <2>1. CASE i = 1
      <3>1. r[2] = q[1] /\ PhaseOf(r[1]) = "await"
        BY <1>1, <1>3, <1>4, <1>5
      <3> QED
        BY <1>3, <1>4, <2>1, <3>1 DEF Last, After
    <2>2. CASE i # 1
      <3>1. i - 1 \in 1 .. Len(q) /\ r[i] = q[i - 1] /\ (i - 1) + 1 = i
        BY <1>3, <1>5, <2>2
      <3>2. CASE PhaseOf(q[i - 1]) \in Last
        <4>1. \A j \in 1 .. Len(q) : j > i - 1 => PhaseOf(q[j]) = "none"
          BY <1>3, <3>1, <3>2 DEF Staged
        <4>2. ASSUME NEW j \in 1 .. 1 + Len(q), j > i PROVE PhaseOf(r[j]) = "none"
          <5>1. j - 1 \in 1 .. Len(q) /\ j - 1 > i - 1 /\ r[j] = q[j - 1]
            BY <1>3, <1>5, <4>2
          <5> QED
            BY <4>1, <5>1
        <4> QED
          BY <3>1, <3>2, <4>2
      <3>3. CASE PhaseOf(q[i - 1]) \notin Last
        <4>1. i \in 1 .. Len(q) /\ PhaseOf(q[i]) = After(PhaseOf(q[i - 1]))
          BY <1>3, <3>1, <3>3 DEF Staged
        <4>2. r[i + 1] = q[i]
          BY <1>5, <4>1
        <4> QED
          BY <1>3, <3>1, <3>3, <4>1, <4>2
      <3> QED
        BY <3>2, <3>3
    <2> QED
      BY <2>1, <2>2
  <1>7. Parted(r)
    <2> DEFINE x == StopTimer(Connection_Timer)
               d == Begin("conn", "disconnect")
    <2>1. \A i \in 1 .. Len(q) : q[i] = x => i + 2 \in 1 .. Len(q) /\ q[i + 2] = d
      BY <1>3 DEF Parted
    <2>2. f # x
      BY <1>1
    <2> HIDE DEF x, d
    <2> SUFFICES ASSUME NEW i \in 1 .. 1 + Len(q), r[i] = x
                 PROVE  i + 2 \in 1 .. 1 + Len(q) /\ r[i + 2] = d
      BY <1>5 DEF Parted, x, d
    <2>3. i # 1 /\ i - 1 \in 1 .. Len(q) /\ q[i - 1] = x
      BY <1>3, <1>5, <2>2
    <2>4. (i - 1) + 2 \in 1 .. Len(q) /\ q[(i - 1) + 2] = d
      BY <2>1, <2>3
    <2>5. ((i - 1) + 2) + 1 = i + 2 /\ i + 2 \in 1 .. 1 + Len(q)
      BY <1>3, <2>4
    <2> QED
      BY <1>5, <2>4, <2>5
  <1> QED
    BY <1>6, <1>7 DEF r, c, f

-----------------------------------------------------------------------------
(* A step of a thread.                                                     *)

\* Thread t goes from phase x to phase y; the other threads do nothing.
PhaseGoes(t, x, y) ==
  /\ Phase(t) = x /\ Phase(t)' = y
  /\ \A u \in Thread \ {t} : stack'[u] = stack[u] /\ Phase(u)' = Phase(u)

LEMMA Executed ==
  ASSUME StackTyped, Ordered, NEW t \in Thread, ~Idle(t),
         NEW c \in Seq(Calls), Staged(c), Parted(c), Replace(t, c),
         c = <<>> \/ Phase(t) \in Last
  PROVE  /\ StackTyped' /\ Ordered' /\ Moves(t, c)
         /\ Goes(t, stack[t], c \o Tail(stack[t]))
         /\ PhaseGoes(t, Phase(t), IF c # <<>> THEN Phased(c)
                                   ELSE IF Phase(t) \in Last THEN "none" ELSE After(Phase(t)))
  <1> DEFINE q == stack[t]
             r == c \o Tail(q)
  <1>1. /\ StackTyped' /\ Moves(t, c) /\ Goes(t, q, r)
        /\ q \in Seq(Calls) /\ q # <<>>
    BY Replaces
  <1>2. Staged(q) /\ Parted(q) /\ Phase(t) = PhaseOf(Head(q))
    BY <1>1 DEF Ordered, Phase, Phased
  <1>3. Tail(q) \in Seq(Calls)
    BY <1>1, HeadTailProperties
  <1>4. /\ Staged(Tail(q)) /\ Parted(Tail(q))
        /\ Phase(t) \in Last => \A i \in DOMAIN Tail(q) : PhaseOf(Tail(q)[i]) = "none"
        /\ Phased(Tail(q)) = IF Phase(t) \in Last THEN "none" ELSE After(Phase(t))
    BY <1>1, <1>2, TailOrdered
  <1>5. c = <<>> => r = Tail(q)
    BY <1>3, ConcatEmptySeq
  <1>6. Staged(r) /\ Parted(r)
    BY <1>3, <1>4, <1>5, JoinOrdered
  <1>7. c # <<>> => Phased(r) = Phased(c)
    <2>1. c # <<>> => Len(c) \in Nat \ {0} /\ Head(c) = c[1]
      BY EmptySeq, LenProperties
    <2>2. /\ Len(Tail(q)) \in Nat /\ r \in Seq(Calls) /\ Len(r) = Len(c) + Len(Tail(q))
          /\ \A i \in 1 .. Len(c) + Len(Tail(q)) :
               r[i] = IF i <= Len(c) THEN c[i] ELSE Tail(q)[i - Len(c)]
      BY <1>3, ConcatProperties, LenProperties
    <2>3. c # <<>> => r[1] = c[1] /\ Len(r) # 0
      BY <2>1, <2>2
    <2>4. c # <<>> => r # <<>> /\ Head(r) = c[1]
      BY <2>2, <2>3, EmptySeq
    <2> QED
      BY <2>1, <2>4 DEF Phased
  <1>8. stack'[t] = r /\ \A u \in Thread \ {t} : stack'[u] = stack[u]
    BY <1>1 DEF Goes
  <1>9. Ordered'
    BY <1>6, <1>8 DEF Ordered
  <1> HIDE DEF r
  <1>10. Phase(t)' = Phased(r) /\ \A u \in Thread \ {t} : Phase(u)' = Phase(u)
    BY <1>8 DEF Phase
  <1>11. PhaseGoes(t, Phase(t), IF c # <<>> THEN Phased(c)
                               ELSE IF Phase(t) \in Last THEN "none" ELSE After(Phase(t)))
    BY <1>4, <1>5, <1>7, <1>8, <1>10 DEF PhaseGoes
  <1> QED
    BY <1>1, <1>9, <1>11 DEF r

LEMMA Begun ==
  ASSUME StackTyped, Ordered, NEW t, NEW c \in Seq(Calls), Staged(c), Parted(c), Start(t, c)
  PROVE  /\ StackTyped' /\ Ordered' /\ Adds(c) /\ t \in Thread
         /\ Goes(t, <<>>, c)
         /\ PhaseGoes(t, "none", Phased(c))
  <1>1. StackTyped' /\ t \in Thread /\ Goes(t, <<>>, c) /\ Adds(c)
    BY StartsCalls
  <1>2. /\ stack[t] = <<>> /\ stack'[t] = c
        /\ \A u \in Thread \ {t} : stack'[u] = stack[u]
    BY <1>1 DEF Goes
  <1>3. Ordered'
    BY <1>2 DEF Ordered
  <1>4. Phase(t) = "none" /\ Phase(t)' = Phased(c) /\ \A u \in Thread \ {t} : Phase(u)' = Phase(u)
    BY <1>2 DEF Phase, Phased
  <1> QED
    BY <1>1, <1>2, <1>3, <1>4 DEF PhaseGoes

-----------------------------------------------------------------------------
(* Kinds of calls.                                                         *)

\* The unlocking of the connection mutex, and the attempt of the timer to
\* lock it.
Unlockers == {UnlockConn}
Tries == {TryLockConn}

\* The calls after which the connection goes on: those that start and end an
\* accept or a disconnect, the receive that sets the timer, and those of a
\* write, whose end starts a receive or a disconnect.
Carriers ==
  {Begin("conn", op) : op \in {"accept", "disconnect"}}
  \cup {Complete("conn", op, r) : op \in {"accept", "disconnect"}, r \in Outcome}
  \cup {Receive, LockFile, WriteCall, Written("done"), Written("error")}

LEMMA KindsOfCalls ==
  Unlockers \in SUBSET Calls /\ Tries \in SUBSET Calls /\ Carriers \in SUBSET Calls
  BY FramesAreCalls DEF Unlockers, Tries, Carriers, Operation

\* How a call counts, for each kind.
LEMMA Hits ==
  ASSUME NEW f \in Calls
  PROVE  /\ Hit(f, Unlockers) = Bit(f.call = "unlock_conn")
         /\ Hit(f, Tries) = Bit(f.call = "try_lock_conn")
         /\ Hit(f, Carriers) =
              Bit(\/ f.call \in {"receive", "lock_file", "write", "written"}
                  \/ f.call \in {"begin", "complete"} /\ f.op \in {"accept", "disconnect"})
  <1>1. f \in Unlockers <=> f.call = "unlock_conn"
    BY FrameFields, CallNamed DEF Unlockers
  <1>2. f \in Tries <=> f.call = "try_lock_conn"
    BY FrameFields, CallNamed DEF Tries
  <1>3. f \in Carriers <=>
          \/ f.call \in {"receive", "lock_file", "write", "written"}
          \/ f.call \in {"begin", "complete"} /\ f.op \in {"accept", "disconnect"}
    <2>1. f \in {Begin("conn", op) : op \in {"accept", "disconnect"}} <=>
            f.call = "begin" /\ f.op \in {"accept", "disconnect"}
      BY FrameFields, CallNamed
    <2>2. f \in {Complete("conn", op, r) : op \in {"accept", "disconnect"}, r \in Outcome} <=>
            f.call = "complete" /\ f.op \in {"accept", "disconnect"}
      BY FrameFields, CallNamed
    <2>3. f \in {Receive, LockFile, WriteCall, Written("done"), Written("error")} <=>
            f.call \in {"receive", "lock_file", "write", "written"}
      BY FrameFields, CallNamed
    <2> QED
      BY <2>1, <2>2, <2>3 DEF Carriers
  <1> QED
    BY <1>1, <1>2, <1>3 DEF Hit, Bit

-----------------------------------------------------------------------------
(* The calls an action makes.                                              *)

\* The calls c: the phase the thread goes to, how many of them unlock the
\* connection mutex and carry on with the connection, and whether they may
\* move the file.  None of them tries to lock the connection mutex or ends
\* the callback of a timer.
Made(c, phase, unlocks, carries, moves) ==
  /\ c \in Seq(Calls) /\ c # <<>> /\ Staged(c) /\ Parted(c)
  /\ Phased(c) = phase
  /\ Tally(c, Unlockers) = unlocks
  /\ Tally(c, Carriers) = carries
  /\ Tally(c, Tries) = 0
  /\ \A i \in DOMAIN c : c[i].call # "timer_end" /\ (c[i] = MoveFile => moves)

DisconnectCall == Begin("conn", "disconnect")
StopConn == StopTimer(Connection_Timer)
StopFile == StopTimer(File_Timer)
CancelReceive == CancelIo("conn", "receive")

LEMMA Joined ==
  ASSUME NEW S, NEW p \in Seq(S), NEW q \in Seq(S), NEW r \in Seq(S),
         Len(r) = Len(p) + Len(q),
         \A i \in 1 .. Len(p) : r[i] = p[i],
         \A i \in 1 .. Len(q) : r[Len(p) + i] = q[i]
  PROVE  p \o q = r
  <1>1. /\ p \o q \in Seq(S) /\ Len(p \o q) = Len(p) + Len(q)
        /\ \A i \in 1 .. Len(p) + Len(q) :
             (p \o q)[i] = IF i <= Len(p) THEN p[i] ELSE q[i - Len(p)]
    BY ConcatProperties
  <1>2. Len(p) \in Nat /\ Len(q) \in Nat
    BY LenProperties
  <1>3. \A i \in 1 .. Len(r) : (p \o q)[i] = r[i]
    <2> SUFFICES ASSUME NEW i \in 1 .. Len(p) + Len(q) PROVE (p \o q)[i] = r[i]
      OBVIOUS
    <2>1. CASE i <= Len(p)
      BY <1>1, <1>2, <2>1
    <2>2. CASE i > Len(p)
      <3>1. i - Len(p) \in 1 .. Len(q) /\ Len(p) + (i - Len(p)) = i
        BY <1>2, <2>2
      <3> QED
        BY <1>1, <1>2, <2>2, <3>1
    <2> QED
      BY <1>2, <2>1, <2>2
  <1> QED
    BY <1>1, <1>3, SeqEqual

LEMMA OneCallMade ==
  ASSUME NEW f \in Calls, f.call # "timer_end", f.call # "try_lock_conn",
         PhaseOf(f) \in Last, f # StopConn
  PROVE  Made(<<f>>, PhaseOf(f), Hit(f, Unlockers), Hit(f, Carriers), FALSE)
  <1>1. <<f>> \in Seq(Calls) /\ Staged(<<f>>)
    BY DEF Staged
  <1>2. Parted(<<f>>)
    BY DEF Parted, StopConn
  <1>3. Hit(f, Tries) = 0
    BY Hits DEF Bit
  <1>4. f # MoveFile
    BY Phases DEF Last
  <1> QED
    BY <1>1, <1>2, <1>3, <1>4, TallyOne DEF Made, Phased

\* f is one of the calls that ask for nothing before or after them.
Simple(f) == /\ f \in Calls /\ f.call \notin {"timer_end", "try_lock_conn"}
             /\ PhaseOf(f) = "none" /\ f # StopConn

LEMMA SimpleCalls ==
  /\ Simple(LockFile) /\ Simple(UnlockConn) /\ Simple(Receive)
  /\ Simple(CancelReceive) /\ Simple(DisconnectCall)
  /\ \A op \in Operation : Simple(Begin("conn", op))
  /\ \A op \in Operation, r \in Outcome : Simple(Complete("conn", op, r))
  /\ Simple(SetPending("conn", "receive"))
  /\ Simple(AwaitTimer(Connection_Timer))
  <1>1. \A f \in Calls :
          f.call \in {"begin", "cancel", "io_pending", "complete", "lock_file", "receive",
                     "unlock_conn"} => Simple(f)
    BY FrameFields, NoPhase DEF Simple, StopConn
  <1>2. Simple(LockFile) /\ Simple(UnlockConn) /\ Simple(Receive)
    BY <1>1, FramesAreCalls, FrameFields
  <1>3. Simple(CancelReceive) /\ Simple(SetPending("conn", "receive"))
    BY <1>1, FramesAreCalls, FrameFields DEF CancelReceive
  <1>4. /\ \A op \in Operation : Simple(Begin("conn", op))
        /\ \A op \in Operation, r \in Outcome : Simple(Complete("conn", op, r))
    BY <1>1, FramesAreCalls, FrameFields
  <1>5. Simple(DisconnectCall)
    BY <1>4 DEF DisconnectCall, Operation
  <1>6. Simple(AwaitTimer(Connection_Timer))
    BY FramesAreCalls, FrameFields, NoPhase DEF Simple, StopConn, File_Timer, Connection_Timer
  <1> QED
    BY <1>2, <1>3, <1>4, <1>5, <1>6

LEMMA OneSimple ==
  ASSUME NEW f, Simple(f)
  PROVE  Made(<<f>>, "none", Hit(f, Unlockers), Hit(f, Carriers), FALSE)
  BY OneCallMade DEF Simple, Last

\* received(): the data is written, and the mutex unlocked.
LEMMA WriteMade == Made(<<LockFile, UnlockConn>>, "none", 1, 1, FALSE)
  <1> DEFINE c == <<LockFile, UnlockConn>>
  <1>1. Simple(LockFile) /\ Simple(UnlockConn)
    BY SimpleCalls
  <1>2. c \in Seq(Calls) /\ c # <<>> /\ Phased(c) = "none"
    BY <1>1 DEF Simple, Phased
  <1>3. Staged(c)
    BY <1>1 DEF Simple, Staged, Last
  <1>4. Parted(c)
    BY <1>1 DEF Simple, Parted, StopConn
  <1>5. \A F : Tally(c, F) = Hit(LockFile, F) + Hit(UnlockConn, F)
    BY TallyTwo
  <1>6. \A i \in DOMAIN c : c[i].call # "timer_end" /\ c[i] # MoveFile
    BY <1>1, Phases DEF Simple
  <1> HIDE DEF c
  <1>7. Tally(c, Unlockers) = 1 /\ Tally(c, Carriers) = 1 /\ Tally(c, Tries) = 0
    BY <1>1, <1>5, Hits, FrameFields DEF Simple, Bit
  <1>8. Made(c, "none", 1, 1, FALSE)
    BY <1>2, <1>3, <1>4, <1>6, <1>7 DEF Made
  <1> QED
    BY <1>8 DEF c

\* close_connection().
Closing == <<StopConn, CancelReceive, DisconnectCall>>

LEMMA CloseConnectionIs == CloseConnection = Closing
  <1> DEFINE p == <<StopConn>>
             q == <<CancelReceive, DisconnectCall>>
             r == <<StopConn, CancelReceive, DisconnectCall>>
  <1>0. StopConn \in Calls /\ CancelReceive \in Calls /\ DisconnectCall \in Calls
    BY FramesAreCalls DEF StopConn, CancelReceive, DisconnectCall, Operation
  <1>1. p \in Seq(Calls) /\ q \in Seq(Calls) /\ r \in Seq(Calls)
    BY <1>0
  <1>2. Len(r) = Len(p) + Len(q)
    OBVIOUS
  <1>3. \A i \in 1 .. Len(p) : r[i] = p[i]
    OBVIOUS
  <1>4. \A i \in 1 .. Len(q) : r[Len(p) + i] = q[i]
    OBVIOUS
  <1> HIDE DEF p, q, r
  <1>5. p \o q = r
    BY <1>1, <1>2, <1>3, <1>4, Joined
  <1> QED
    BY <1>5 DEF p, q, r, CloseConnection, Closing, Disconnects, StopConn, CancelReceive, DisconnectCall

LEMMA ClosingMade ==
  /\ Made(Closing, "none", 0, 1, FALSE)
  /\ \A i \in DOMAIN Closing : PhaseOf(Closing[i]) = "none"
  <1>1. /\ Simple(CancelReceive) /\ Simple(DisconnectCall)
        /\ StopConn \in Calls /\ PhaseOf(StopConn) = "none"
        /\ StopConn.call = "stop_timer"
    BY SimpleCalls, FramesAreCalls, FrameFields, NoPhase DEF StopConn, File_Timer, Connection_Timer
  <1>2. Closing \in Seq(Calls) /\ Closing # <<>> /\ Phased(Closing) = "none"
    BY <1>1 DEF Simple, Phased, Closing
  <1>3. Staged(Closing) /\ \A i \in DOMAIN Closing : PhaseOf(Closing[i]) = "none"
    BY <1>1 DEF Simple, Staged, Last, Closing
  <1>4. Parted(Closing)
    BY <1>1 DEF Simple, Parted, StopConn, Closing, DisconnectCall
  <1>5. \A F : Tally(Closing, F) = Hit(StopConn, F) + Hit(CancelReceive, F) + Hit(DisconnectCall, F)
    BY TallyThree DEF Closing
  <1>6. \A i \in DOMAIN Closing : Closing[i].call # "timer_end" /\ Closing[i] # MoveFile
    BY <1>1, Phases DEF Simple, Closing
  <1>7. /\ Tally(Closing, Unlockers) = 0 /\ Tally(Closing, Carriers) = 1
        /\ Tally(Closing, Tries) = 0
    BY <1>1, <1>5, Hits, FrameFields DEF Simple, Bit, CancelReceive, DisconnectCall
  <1> QED
    BY <1>2, <1>3, <1>4, <1>6, <1>7 DEF Made

\* Calls that have nothing to do with the file put after others.
LEMMA JoinMade ==
  ASSUME NEW c, NEW p, NEW u, NEW k, NEW m, Made(c, p, u, k, m),
         NEW d, NEW v, NEW n, Made(d, "none", v, n, FALSE),
         \A i \in DOMAIN d : PhaseOf(d[i]) = "none"
  PROVE  Made(c \o d, p, u + v, k + n, m)
  <1>1. /\ c \in Seq(Calls) /\ d \in Seq(Calls) /\ c # <<>>
        /\ Staged(c \o d) /\ Parted(c \o d)
    BY JoinOrdered DEF Made
  <1>2. /\ Len(c) \in Nat \ {0} /\ Len(d) \in Nat
        /\ DOMAIN c = 1 .. Len(c) /\ DOMAIN d = 1 .. Len(d) /\ Head(c) = c[1]
    BY <1>1, LenProperties, EmptySeq
  <1>3. /\ c \o d \in Seq(Calls) /\ Len(c \o d) = Len(c) + Len(d)
        /\ \A i \in 1 .. Len(c) + Len(d) :
             (c \o d)[i] = IF i <= Len(c) THEN c[i] ELSE d[i - Len(c)]
    BY <1>1, ConcatProperties
  <1>4. DOMAIN (c \o d) = 1 .. Len(c) + Len(d)
    BY <1>3, LenProperties
  <1>5. c \o d # <<>> /\ Head(c \o d) = c[1]
    <2>1. Len(c \o d) # 0 /\ (c \o d)[1] = c[1]
      BY <1>2, <1>3
    <2> QED
      BY <1>3, <2>1, EmptySeq
  <1>6. Phased(c \o d) = p
    BY <1>1, <1>2, <1>5 DEF Made, Phased
  <1>7. \A F : Tally(c \o d, F) = Tally(c, F) + Tally(d, F)
    <2> SUFFICES ASSUME NEW F PROVE Tally(c \o d, F) = Tally(c, F) + Tally(d, F)
      OBVIOUS
    <2> QED
      BY <1>1, TallyConcat
  <1>8. \A i \in DOMAIN (c \o d) :
          (c \o d)[i].call # "timer_end" /\ ((c \o d)[i] = MoveFile => m)
    <2> SUFFICES ASSUME NEW i \in 1 .. Len(c) + Len(d)
                 PROVE  (c \o d)[i].call # "timer_end" /\ ((c \o d)[i] = MoveFile => m)
      BY <1>4
    <2>1. CASE i <= Len(c)
      BY <1>2, <1>3, <2>1 DEF Made
    <2>2. CASE i > Len(c)
      <3>1. i - Len(c) \in DOMAIN d /\ (c \o d)[i] = d[i - Len(c)]
        BY <1>2, <1>3, <2>2
      <3> QED
        BY <3>1 DEF Made
    <2> QED
      BY <1>2, <2>1, <2>2
  <1> QED
    BY <1>1, <1>3, <1>5, <1>6, <1>7, <1>8 DEF Made

LEMMA AppendIs ==
  ASSUME NEW S, NEW q \in Seq(S), NEW f \in S
  PROVE  Append(q, f) = q \o <<f>>
  <1> DEFINE r == Append(q, f)
             p == <<f>>
  <1>1. r \in Seq(S) /\ p \in Seq(S) /\ Len(r) = Len(q) + Len(p)
    OBVIOUS
  <1>2. Len(q) \in Nat
    OBVIOUS
  <1>3. \A i \in 1 .. Len(q) : r[i] = q[i]
    BY AppendProperties
  <1>4. \A i \in 1 .. Len(p) : r[Len(q) + i] = p[i]
    BY AppendProperties
  <1> HIDE DEF r, p
  <1>5. q \o p = r
    BY <1>1, <1>3, <1>4, Joined
  <1> QED
    BY <1>5 DEF r, p

\* A call put after others.
LEMMA AppendMade ==
  ASSUME NEW c, NEW p, NEW u, NEW k, NEW m, Made(c, p, u, k, m), NEW f, Simple(f)
  PROVE  Made(Append(c, f), p, u + Hit(f, Unlockers), k + Hit(f, Carriers), m)
  <1>1. Append(c, f) = c \o <<f>>
    BY AppendIs DEF Made, Simple
  <1>2. Made(<<f>>, "none", Hit(f, Unlockers), Hit(f, Carriers), FALSE)
    BY OneSimple
  <1>3. \A i \in DOMAIN <<f>> : PhaseOf(<<f>>[i]) = "none"
    BY DEF Simple
  <1> HIDE DEF Made
  <1> QED
    BY <1>1, <1>2, <1>3, JoinMade

LEMMA CloseReceivedMade == Made(Append(CloseConnection, UnlockConn), "none", 1, 1, FALSE)
  <1>1. Made(CloseConnection, "none", 0, 1, FALSE)
    BY CloseConnectionIs, ClosingMade
  <1>2. Simple(UnlockConn) /\ Hit(UnlockConn, Unlockers) = 1 /\ Hit(UnlockConn, Carriers) = 0
    BY SimpleCalls, Hits, FrameFields DEF Simple, Bit
  <1>3. Made(Append(CloseConnection, UnlockConn), "none", 0 + 1, 1 + 0, FALSE)
    BY <1>1, <1>2, AppendMade
  <1> QED
    BY <1>3 DEF Made

\* close_connection() from the timer.
LEMMA CloseIdleMade == Made(Append(Disconnects, UnlockConn), "none", 1, 1, FALSE)
  <1> DEFINE c == <<CancelReceive, DisconnectCall>>
  <1>1. Simple(CancelReceive) /\ Simple(DisconnectCall)
    BY SimpleCalls
  <1>2. c \in Seq(Calls) /\ c # <<>> /\ Phased(c) = "none"
    BY <1>1 DEF Simple, Phased
  <1>3. Staged(c)
    BY <1>1 DEF Simple, Staged, Last
  <1>4. Parted(c)
    BY <1>1 DEF Simple, Parted, StopConn
  <1>5. \A F : Tally(c, F) = Hit(CancelReceive, F) + Hit(DisconnectCall, F)
    BY TallyTwo
  <1>6. \A i \in DOMAIN c : c[i].call # "timer_end" /\ c[i] # MoveFile
    BY <1>1, Phases DEF Simple
  <1>7. c = Disconnects
    BY DEF Disconnects, CancelReceive, DisconnectCall
  <1> HIDE DEF c
  <1>8. Tally(c, Unlockers) = 0 /\ Tally(c, Carriers) = 1 /\ Tally(c, Tries) = 0
    BY <1>1, <1>5, Hits, FrameFields DEF Simple, Bit, CancelReceive, DisconnectCall
  <1>9. Made(c, "none", 0, 1, FALSE)
    BY <1>2, <1>3, <1>4, <1>6, <1>8 DEF Made
  <1>10. Simple(UnlockConn) /\ Hit(UnlockConn, Unlockers) = 1 /\ Hit(UnlockConn, Carriers) = 0
    BY SimpleCalls, Hits, FrameFields DEF Simple, Bit
  <1>11. Made(Append(c, UnlockConn), "none", 0 + 1, 1 + 0, FALSE)
    BY <1>9, <1>10, AppendMade
  <1> QED
    BY <1>7, <1>11 DEF Made

\* The calls about the file, one at a time.
LEMMA FileCallMade ==
  /\ Made(<<WriteCall>>, "write", 0, 1, FALSE)
  /\ Made(<<Written("done")>>, "done", 0, 1, FALSE)
  /\ Made(<<Written("error")>>, "failed", 0, 1, FALSE)
  /\ Made(<<UnlockFile>>, "unlock", 0, 0, FALSE)
  <1>1. ASSUME NEW f \in {WriteCall, Written("done"), Written("error"), UnlockFile}
        PROVE  Made(<<f>>, PhaseOf(f), 0, Bit(f # UnlockFile), FALSE)
    <2>1. f \in Calls /\ f.call \in {"write", "written", "unlock_file"}
      BY FramesAreCalls, FrameFields
    <2>2. PhaseOf(f) \in Last /\ f # StopConn
      BY <2>1, Phases, FrameFields DEF Last, StopConn
    <2>3. Hit(f, Unlockers) = 0 /\ Hit(f, Carriers) = Bit(f # UnlockFile)
      BY <2>1, Hits, FrameFields DEF Bit
    <2> QED
      BY <2>1, <2>2, <2>3, OneCallMade
  <1>2. /\ Bit(WriteCall # UnlockFile) = 1 /\ Bit(UnlockFile # UnlockFile) = 0
        /\ \A r : Bit(Written(r) # UnlockFile) = 1
    BY FrameFields DEF Bit
  <1> QED
    BY <1>1, <1>2, Phases

\* open_file() has failed.
LEMMA CannotOpenMade == Made(<<UnlockFile>> \o CloseConnection, "unlock", 0, 1, FALSE)
  <1>1. Made(<<UnlockFile>> \o Closing, "unlock", 0 + 0, 0 + 1, FALSE)
    BY FileCallMade, ClosingMade, JoinMade
  <1> QED
    BY <1>1, CloseConnectionIs DEF Made

\* written(): the mutex is unlocked and the next receive started.
LEMMA GoOnMade == Made(<<>> \o <<UnlockFile, Receive>>, "unlock", 0, 1, FALSE)
  <1> DEFINE c == <<UnlockFile, Receive>>
  <1>1. UnlockFile \in Calls /\ PhaseOf(UnlockFile) = "unlock" /\ Simple(Receive)
    BY FramesAreCalls, Phases, SimpleCalls
  <1>2. c \in Seq(Calls) /\ c # <<>> /\ Phased(c) = "unlock"
    BY <1>1 DEF Simple, Phased
  <1>3. Staged(c)
    BY <1>1 DEF Simple, Staged, Last
  <1>4. UnlockFile.call = "unlock_file" /\ UnlockFile # StopConn /\ UnlockFile # MoveFile
    BY FrameFields DEF StopConn
  <1>5. Parted(c)
    BY <1>1, <1>4 DEF Simple, Parted, StopConn
  <1>6. \A F : Tally(c, F) = Hit(UnlockFile, F) + Hit(Receive, F)
    BY TallyTwo
  <1>7. \A i \in DOMAIN c : c[i].call # "timer_end" /\ c[i] # MoveFile
    BY <1>1, <1>4, Phases DEF Simple
  <1> HIDE DEF c
  <1>8. Tally(c, Unlockers) = 0 /\ Tally(c, Carriers) = 1 /\ Tally(c, Tries) = 0
    BY <1>1, <1>4, <1>6, Hits, FrameFields DEF Simple, Bit
  <1>9. <<>> \o c = c
    BY <1>2, ConcatEmptySeq
  <1>10. Made(c, "unlock", 0, 1, FALSE)
    BY <1>2, <1>3, <1>5, <1>7, <1>8 DEF Made
  <1> QED
    BY <1>9, <1>10 DEF c

\* close_file() and what follows it, in written() and error_writing_file().
LEMMA LeaveMade ==
  ASSUME NEW w \in {MoveFile, DeleteFile}
  PROVE  Made(<<StopFile, CloseCall, w, UnlockFile>>, "stop", 0, 0, w = MoveFile)
  <1> DEFINE c == <<StopFile, CloseCall, w, UnlockFile>>
  <1>1. /\ StopFile \in Calls /\ CloseCall \in Calls /\ w \in Calls /\ UnlockFile \in Calls
        /\ StopFile.call = "stop_timer" /\ CloseCall.call = "close_file"
        /\ w.call \in {"move_file", "delete_file"} /\ UnlockFile.call = "unlock_file"
        /\ PhaseOf(StopFile) = "stop" /\ PhaseOf(CloseCall) = "close"
        /\ PhaseOf(w) = "move" /\ PhaseOf(UnlockFile) = "unlock"
    BY FramesAreCalls, FrameFields, Phases DEF StopFile
  <1>2. StopFile # StopConn
    BY FrameFields DEF StopFile, StopConn, File_Timer, Connection_Timer
  <1>3. c \in Seq(Calls) /\ c # <<>> /\ Phased(c) = "stop"
    BY <1>1 DEF Phased
  <1>4. Staged(c)
    BY <1>1 DEF Staged, Last, After
  <1>5. Parted(c)
    <2>1. CloseCall # StopConn /\ w # StopConn /\ UnlockFile # StopConn
      BY <1>1, FrameFields DEF StopConn
    <2> QED
      BY <1>2, <2>1 DEF Parted, StopConn
  <1>6. \A F : Tally(c, F) = Hit(StopFile, F) + Hit(CloseCall, F) + Hit(w, F) + Hit(UnlockFile, F)
    BY TallyFour
  <1>7. \A i \in DOMAIN c : c[i].call # "timer_end" /\ (c[i] = MoveFile => w = MoveFile)
    BY <1>1, Phases
  <1> HIDE DEF c
  <1>8. Tally(c, Unlockers) = 0 /\ Tally(c, Carriers) = 0 /\ Tally(c, Tries) = 0
    BY <1>1, <1>6, Hits DEF Bit
  <1>9. Made(c, "stop", 0, 0, w = MoveFile)
    BY <1>3, <1>4, <1>5, <1>7, <1>8 DEF Made
  <1> QED
    BY <1>9 DEF c

LEMMA FinishMade == Made(CloseAndMove \o <<UnlockFile, Receive>>, "stop", 0, 1, TRUE)
  <1>0. StopFile \in Calls /\ CloseCall \in Calls /\ MoveFile \in Calls /\ UnlockFile \in Calls
        /\ Receive \in Calls
    BY FramesAreCalls DEF StopFile
  <1> DEFINE p == <<StopFile, CloseCall, MoveFile>>
             q == <<UnlockFile, Receive>>
             c == <<StopFile, CloseCall, MoveFile, UnlockFile>>
             r == <<StopFile, CloseCall, MoveFile, UnlockFile, Receive>>
  <1>1. p \in Seq(Calls) /\ q \in Seq(Calls) /\ r \in Seq(Calls)
    BY <1>0
  <1>2. Len(r) = Len(p) + Len(q)
    OBVIOUS
  <1>3. \A i \in 1 .. Len(p) : r[i] = p[i]
    OBVIOUS
  <1>4. \A i \in 1 .. Len(q) : r[Len(p) + i] = q[i]
    OBVIOUS
  <1>5. Made(c, "stop", 0, 0, MoveFile = MoveFile)
    BY LeaveMade
  <1> HIDE DEF p, q, c, r
  <1>6. p \o q = r
    BY <1>1, <1>2, <1>3, <1>4, Joined
  <1>7. Simple(Receive) /\ Hit(Receive, Unlockers) = 0 /\ Hit(Receive, Carriers) = 1
    BY SimpleCalls, Hits, FrameFields DEF Simple, Bit
  <1>8. Made(Append(c, Receive), "stop", 0 + 0, 0 + 1, MoveFile = MoveFile)
    BY <1>5, <1>7, AppendMade
  <1>9. Append(c, Receive) = r
    <2> DEFINE d == <<Receive>>
    <2>1. c \in Seq(Calls) /\ d \in Seq(Calls) /\ Append(c, Receive) = c \o d
      BY <1>0, AppendIs DEF c
    <2>2. Len(r) = Len(c) + Len(d)
      BY DEF r, c
    <2>3. \A i \in 1 .. Len(c) : r[i] = c[i]
      BY DEF r, c
    <2>4. \A i \in 1 .. Len(d) : r[Len(c) + i] = d[i]
      BY DEF r, c
    <2> HIDE DEF d
    <2> QED
      BY <1>1, <2>1, <2>2, <2>3, <2>4, Joined
  <1>10. Made(r, "stop", 0, 1, TRUE)
    BY <1>8, <1>9 DEF Made
  <1> QED
    BY <1>6, <1>10 DEF p, q, CloseAndMove, StopFile

LEMMA WriteFailedMade ==
  ASSUME NEW w \in {MoveFile, DeleteFile}
  PROVE  Made(<<StopTimer(File_Timer), CloseCall, w, UnlockFile>> \o CloseConnection,
              "stop", 0, 1, w = MoveFile)
  <1>1. Made(<<StopFile, CloseCall, w, UnlockFile>> \o Closing, "stop", 0 + 0, 0 + 1, w = MoveFile)
    BY LeaveMade, ClosingMade, JoinMade
  <1> QED
    BY <1>1, CloseConnectionIs DEF StopFile, Made

\* file_timer().
LEMMA CloseOldMade == Made(CloseOldCalls, "close", 0, 0, TRUE)
  <1> DEFINE c == <<CloseCall, MoveFile, UnlockFile>>
  <1>1. /\ CloseCall \in Calls /\ MoveFile \in Calls /\ UnlockFile \in Calls
        /\ CloseCall.call = "close_file" /\ MoveFile.call = "move_file"
        /\ UnlockFile.call = "unlock_file"
        /\ PhaseOf(CloseCall) = "close" /\ PhaseOf(MoveFile) = "move"
        /\ PhaseOf(UnlockFile) = "unlock"
    BY FramesAreCalls, FrameFields, Phases
  <1>2. c \in Seq(Calls) /\ c # <<>> /\ Phased(c) = "close"
    BY <1>1 DEF Phased
  <1>3. Staged(c)
    BY <1>1 DEF Staged, Last, After
  <1>4. Parted(c)
    <2>1. CloseCall # StopConn /\ MoveFile # StopConn /\ UnlockFile # StopConn
      BY <1>1, FrameFields DEF StopConn
    <2> QED
      BY <2>1 DEF Parted, StopConn
  <1>5. \A F : Tally(c, F) = Hit(CloseCall, F) + Hit(MoveFile, F) + Hit(UnlockFile, F)
    BY TallyThree
  <1>6. \A i \in DOMAIN c : c[i].call # "timer_end"
    BY <1>1
  <1> HIDE DEF c
  <1>7. Tally(c, Unlockers) = 0 /\ Tally(c, Carriers) = 0 /\ Tally(c, Tries) = 0
    BY <1>1, <1>5, Hits DEF Bit
  <1>8. Made(c, "close", 0, 0, TRUE)
    BY <1>2, <1>3, <1>4, <1>6, <1>7 DEF Made
  <1> QED
    BY <1>8 DEF c, CloseOldCalls

-----------------------------------------------------------------------------
(* What a step does to the phases and to the numbers of calls.             *)

\* Nobody but thread t comes to hold the call that moves the file, and t
\* only when moves says so.
MovesOnly(t, moves) ==
  \A u \in Thread : OnStack(u, MoveFile)' => OnStack(u, MoveFile) \/ (moves /\ u = t)

\* Nor does the callback of a timer begin.
Keeps(t, moves) ==
  MovesOnly(t, moves) /\ \A u \in Thread, x \in Timers : InCallback(u, x)' => InCallback(u, x)

Numbered ==
  /\ Count(stack, Unlockers) \in Nat /\ Count(stack', Unlockers) \in Nat
  /\ Count(stack, Carriers) \in Nat /\ Count(stack', Carriers) \in Nat
  /\ Count(stack, Tries) \in Nat /\ Count(stack', Tries) \in Nat

\* Thread t goes from phase x to phase y.  It takes u1 calls that unlock the
\* connection mutex, k1 that carry on and w1 that try to lock it off its
\* stack and puts u2, k2 and none there.
Effect(t, x, y, u1, k1, w1, u2, k2, moves) ==
  /\ StackTyped' /\ Ordered' /\ PhaseGoes(t, x, y) /\ Keeps(t, moves) /\ Numbered
  /\ Count(stack', Unlockers) + u1 = Count(stack, Unlockers) + u2
  /\ Count(stack', Carriers) + k1 = Count(stack, Carriers) + k2
  /\ Count(stack', Tries) + w1 = Count(stack, Tries)

\* The calls of a stack are those of the calls made and what was left.
LEMMA MadeOrLeft ==
  ASSUME NEW q \in Seq(Calls), q # <<>>, NEW c \in Seq(Calls),
         NEW i \in DOMAIN (c \o Tail(q))
  PROVE  \/ \E j \in DOMAIN c : (c \o Tail(q))[i] = c[j]
         \/ \E j \in DOMAIN q : (c \o Tail(q))[i] = q[j]
  <1> DEFINE r == c \o Tail(q)
  <1>1. /\ Len(q) \in Nat \ {0} /\ DOMAIN q = 1 .. Len(q)
        /\ Tail(q) \in Seq(Calls) /\ Len(Tail(q)) = Len(q) - 1
        /\ \A j \in 1 .. Len(q) - 1 : Tail(q)[j] = q[j + 1]
        /\ Len(c) \in Nat /\ DOMAIN c = 1 .. Len(c)
    BY HeadTailProperties, LenProperties, EmptySeq
  <1>2. /\ r \in Seq(Calls) /\ Len(r) = Len(c) + (Len(q) - 1)
        /\ \A j \in 1 .. Len(c) + (Len(q) - 1) :
             r[j] = IF j <= Len(c) THEN c[j] ELSE Tail(q)[j - Len(c)]
    BY <1>1, ConcatProperties
  <1>3. DOMAIN r = 1 .. Len(c) + (Len(q) - 1)
    BY <1>2, LenProperties
  <1>4. CASE i <= Len(c)
    BY <1>1, <1>2, <1>3, <1>4
  <1>5. CASE i > Len(c)
    <2>1. i - Len(c) \in 1 .. Len(q) - 1 /\ r[i] = Tail(q)[i - Len(c)]
      BY <1>1, <1>2, <1>3, <1>5
    <2>2. r[i] = q[(i - Len(c)) + 1] /\ (i - Len(c)) + 1 \in DOMAIN q
      BY <1>1, <2>1
    <2> QED
      BY <2>2
  <1> QED
    BY <1>1, <1>3, <1>4, <1>5

LEMMA KeepsCalls ==
  ASSUME NEW t \in Thread, stack[t] \in Seq(Calls), stack[t] # <<>>, NEW c \in Seq(Calls),
         Goes(t, stack[t], c \o Tail(stack[t])), NEW moves,
         \A i \in DOMAIN c : c[i].call # "timer_end" /\ (c[i] = MoveFile => moves)
  PROVE  Keeps(t, moves)
  <1> DEFINE q == stack[t]
             r == c \o Tail(q)
  <1>1. ASSUME NEW i \in DOMAIN r
        PROVE  (\E j \in DOMAIN c : r[i] = c[j]) \/ (\E j \in DOMAIN q : r[i] = q[j])
    BY MadeOrLeft
  <1>2. stack'[t] = r /\ \A u \in Thread \ {t} : stack'[u] = stack[u]
    BY DEF Goes
  <1> HIDE DEF r
  <1>3. ASSUME NEW u \in Thread, NEW x, InCallback(u, x)' PROVE InCallback(u, x)
    <2>1. PICK i \in DOMAIN stack'[u] : stack'[u][i] = TimerEnd(x)
      BY <1>3 DEF InCallback, OnStack
    <2>2. CASE u # t
      BY <1>2, <2>1, <2>2 DEF InCallback, OnStack
    <2>3. CASE u = t
      <3>1. TimerEnd(x).call = "timer_end"
        BY FrameFields
      <3> QED
        BY <1>1, <1>2, <2>1, <2>3, <3>1 DEF InCallback, OnStack
    <2> QED
      BY <2>2, <2>3
  <1>4. ASSUME NEW u \in Thread, OnStack(u, MoveFile)'
        PROVE  OnStack(u, MoveFile) \/ (moves /\ u = t)
    <2>1. PICK i \in DOMAIN stack'[u] : stack'[u][i] = MoveFile
      BY <1>4 DEF OnStack, MoveFile, Call, Frame
    <2>2. CASE u # t
      BY <1>2, <2>1, <2>2 DEF OnStack
    <2>3. CASE u = t
      BY <1>1, <1>2, <2>1, <2>3 DEF OnStack
    <2> QED
      BY <2>2, <2>3
  <1> QED
    BY <1>3, <1>4 DEF Keeps, MovesOnly

LEMMA Act ==
  ASSUME StackTyped, Ordered, NEW t \in Thread, ~Idle(t), Phase(t) \in Last,
         NEW c, NEW y, NEW u, NEW k, NEW m, Made(c, y, u, k, m), Replace(t, c)
  PROVE  Effect(t, Phase(t), y, Hit(Head(stack[t]), Unlockers), Hit(Head(stack[t]), Carriers),
                Hit(Head(stack[t]), Tries), u, k, m)
  <1>1. c \in Seq(Calls) /\ c # <<>> /\ Staged(c) /\ Parted(c) /\ Phased(c) = y
    BY DEF Made
  <1>2. /\ StackTyped' /\ Ordered' /\ Moves(t, c)
        /\ Goes(t, stack[t], c \o Tail(stack[t])) /\ PhaseGoes(t, Phase(t), y)
    BY <1>1, Executed
  <1>3. Keeps(t, m)
    <2>1. stack[t] \in Seq(Calls) /\ stack[t] # <<>>
      BY DEF StackTyped, Idle
    <2> QED
      BY <1>1, <1>2, <2>1, KeepsCalls DEF Made
  <1>4. /\ Numbered
        /\ Count(stack', Unlockers) + Hit(Head(stack[t]), Unlockers)
             = Count(stack, Unlockers) + u
        /\ Count(stack', Carriers) + Hit(Head(stack[t]), Carriers) = Count(stack, Carriers) + k
        /\ Count(stack', Tries) + Hit(Head(stack[t]), Tries) = Count(stack, Tries)
    BY <1>2, KindsOfCalls DEF Moves, Made, Numbered
  <1> QED
    BY <1>2, <1>3, <1>4 DEF Effect

LEMMA Returned ==
  ASSUME StackTyped, Ordered, NEW t \in Thread, ~Idle(t), Return(t)
  PROVE  Effect(t, Phase(t), IF Phase(t) \in Last THEN "none" ELSE After(Phase(t)),
                Hit(Head(stack[t]), Unlockers), Hit(Head(stack[t]), Carriers),
                Hit(Head(stack[t]), Tries), 0, 0, FALSE)
  <1> DEFINE c == <<>>
             y == IF Phase(t) \in Last THEN "none" ELSE After(Phase(t))
  <1>1. /\ c \in Seq(Calls) /\ Staged(c) /\ Parted(c) /\ Replace(t, c)
        /\ \A i \in DOMAIN c : c[i].call # "timer_end" /\ (c[i] = MoveFile => FALSE)
        /\ c = <<>> /\ \A F : Tally(c, F) = 0
    BY TallyNone DEF Staged, Parted, Return
  <1> HIDE DEF c
  <1>2. /\ StackTyped' /\ Ordered' /\ Moves(t, c)
        /\ Goes(t, stack[t], c \o Tail(stack[t])) /\ PhaseGoes(t, Phase(t), y)
    BY <1>1, Executed
  <1>3. Keeps(t, FALSE)
    <2>1. stack[t] \in Seq(Calls) /\ stack[t] # <<>>
      BY DEF StackTyped, Idle
    <2> QED
      BY <1>1, <1>2, <2>1, KeepsCalls
  <1>4. /\ Numbered
        /\ Count(stack', Unlockers) + Hit(Head(stack[t]), Unlockers)
             = Count(stack, Unlockers) + 0
        /\ Count(stack', Carriers) + Hit(Head(stack[t]), Carriers) = Count(stack, Carriers) + 0
        /\ Count(stack', Tries) + Hit(Head(stack[t]), Tries) = Count(stack, Tries)
    BY <1>1, <1>2, KindsOfCalls DEF Moves, Numbered
  <1> HIDE DEF y
  <1>5. Effect(t, Phase(t), y, Hit(Head(stack[t]), Unlockers), Hit(Head(stack[t]), Carriers),
               Hit(Head(stack[t]), Tries), 0, 0, FALSE)
    BY <1>2, <1>3, <1>4 DEF Effect
  <1> QED
    BY <1>5 DEF y

\* What is known of the call thread t executes.
LEMMA Executing ==
  ASSUME StackTyped, NEW t \in Thread, NEW name, Running(t, name)
  PROVE  /\ ~Idle(t) /\ Head(stack[t]) \in Calls /\ Head(stack[t]).call = name
         /\ Phase(t) = PhaseOf(Head(stack[t]))
         /\ Op(t) = Head(stack[t]).op /\ On(t) = Head(stack[t]).on /\ Arg(t) = Head(stack[t]).arg
         /\ Hit(Head(stack[t]), Unlockers) = Bit(name = "unlock_conn")
         /\ Hit(Head(stack[t]), Tries) = Bit(name = "try_lock_conn")
         /\ Hit(Head(stack[t]), Carriers) =
              Bit(\/ name \in {"receive", "lock_file", "write", "written"}
                  \/ name \in {"begin", "complete"} /\ Op(t) \in {"accept", "disconnect"})
  <1>1. ~Idle(t) /\ Head(stack[t]).call = name /\ stack[t] \in Seq(Calls) /\ stack[t] # <<>>
    BY DEF Running, Idle, StackTyped
  <1>2. Head(stack[t]) \in Calls
    BY <1>1, HeadTailProperties
  <1> QED
    BY <1>1, <1>2, Hits DEF Phase, Phased, Op, On, Arg

-----------------------------------------------------------------------------
(* The actions.                                                            *)

\* Calls that have nothing to do with the file.
Unfiled == {"begin", "cancel", "io_pending", "complete", "lock_file", "receive",
            "try_lock_conn", "unlock_conn", "timer_end"}

\* 1 when the call thread t executes, of this name, carries on.
Carrying(t, name) ==
  Bit(\/ name \in {"receive", "lock_file", "write", "written"}
      \/ name \in {"begin", "complete"} /\ Op(t) \in {"accept", "disconnect"})

LEMMA UnfiledActs ==
  ASSUME StackTyped, Ordered, NEW t \in Thread, NEW name \in Unfiled, Running(t, name),
         NEW c, NEW y, NEW u, NEW k, NEW m, Made(c, y, u, k, m), Replace(t, c)
  PROVE  Effect(t, "none", y, Bit(name = "unlock_conn"), Carrying(t, name),
                Bit(name = "try_lock_conn"), u, k, m)
  <1>1. Phase(t) = "none"
    BY Executing, NoPhase DEF Unfiled
  <1>2. ~Idle(t) /\ Phase(t) \in Last
    BY <1>1, Executing DEF Last
  <1>3. Effect(t, Phase(t), y, Hit(Head(stack[t]), Unlockers), Hit(Head(stack[t]), Carriers),
               Hit(Head(stack[t]), Tries), u, k, m)
    BY <1>2, Act
  <1>4. /\ Hit(Head(stack[t]), Unlockers) = Bit(name = "unlock_conn")
        /\ Hit(Head(stack[t]), Carriers) = Carrying(t, name)
        /\ Hit(Head(stack[t]), Tries) = Bit(name = "try_lock_conn")
    BY Executing DEF Carrying
  <1> QED
    BY <1>1, <1>3, <1>4

LEMMA UnfiledReturns ==
  ASSUME StackTyped, Ordered, NEW t \in Thread, NEW name \in Unfiled, Running(t, name), Return(t)
  PROVE  Effect(t, "none", "none", Bit(name = "unlock_conn"), Carrying(t, name),
                Bit(name = "try_lock_conn"), 0, 0, FALSE)
  <1>1. Phase(t) = "none"
    BY Executing, NoPhase DEF Unfiled
  <1> QED
    BY <1>1, Executing, Returned DEF Last, Carrying

LEMMA SimpleMade ==
  /\ Made(<<Receive>>, "none", 0, 1, FALSE)
  /\ Made(<<Begin("conn", "accept")>>, "none", 0, 1, FALSE)
  /\ Made(<<Begin("conn", "receive")>>, "none", 0, 0, FALSE)
  /\ \A op \in Operation, r \in Outcome :
       Made(<<Complete("conn", op, r)>>, "none", 0, Bit(op \in {"accept", "disconnect"}), FALSE)
  /\ Made(<<SetPending("conn", "receive")>>, "none", 0, 0, FALSE)
  /\ Made(<<AwaitTimer(Connection_Timer)>>, "none", 0, 0, FALSE)
  <1>1. ASSUME NEW f, Simple(f), f.call # "unlock_conn", NEW n,
               n = Bit(\/ f.call \in {"receive", "lock_file", "write", "written"}
                       \/ f.call \in {"begin", "complete"} /\ f.op \in {"accept", "disconnect"})
        PROVE  Made(<<f>>, "none", 0, n, FALSE)
    <2>1. Hit(f, Unlockers) = 0 /\ Hit(f, Carriers) = n
      BY <1>1, Hits DEF Simple, Bit
    <2> QED
      BY <1>1, <2>1, OneSimple
  <1>2. Made(<<Receive>>, "none", 0, 1, FALSE)
    BY <1>1, SimpleCalls, FrameFields DEF Bit
  <1>3. /\ Made(<<Begin("conn", "accept")>>, "none", 0, 1, FALSE)
        /\ Made(<<Begin("conn", "receive")>>, "none", 0, 0, FALSE)
    <2>1. /\ "accept" \in Operation /\ "receive" \in Operation
          /\ Bit(TRUE) = 1 /\ Bit(FALSE) = 0
      BY DEF Operation, Bit
    <2>2. Made(<<Begin("conn", "accept")>>, "none", 0, 1, FALSE)
      <3> DEFINE f == Begin("conn", "accept")
      <3>1. Simple(f) /\ f.call = "begin" /\ f.op = "accept"
        BY <2>1, SimpleCalls, FrameFields
      <3> HIDE DEF f
      <3>2. Made(<<f>>, "none", 0, 1, FALSE)
        BY <1>1, <3>1 DEF Bit
      <3> QED
        BY <3>2 DEF f
    <2>3. Made(<<Begin("conn", "receive")>>, "none", 0, 0, FALSE)
      <3> DEFINE f == Begin("conn", "receive")
      <3>1. Simple(f) /\ f.call = "begin" /\ f.op = "receive"
        BY <2>1, SimpleCalls, FrameFields
      <3> HIDE DEF f
      <3>2. Made(<<f>>, "none", 0, 0, FALSE)
        BY <1>1, <3>1 DEF Bit
      <3> QED
        BY <3>2 DEF f
    <2> QED
      BY <2>2, <2>3
  <1>4. ASSUME NEW op \in Operation, NEW r \in Outcome
        PROVE  Made(<<Complete("conn", op, r)>>, "none", 0, Bit(op \in {"accept", "disconnect"}),
                    FALSE)
    <2> DEFINE f == Complete("conn", op, r)
               n == Bit(op \in {"accept", "disconnect"})
    <2>1. Simple(f) /\ f.call = "complete" /\ f.op = op
      BY SimpleCalls, FrameFields
    <2>2. n = Bit(\/ f.call \in {"receive", "lock_file", "write", "written"}
                  \/ f.call \in {"begin", "complete"} /\ f.op \in {"accept", "disconnect"})
      BY <2>1 DEF Bit
    <2> HIDE DEF f, n
    <2>3. Made(<<f>>, "none", 0, n, FALSE)
      BY <1>1, <2>1, <2>2
    <2> QED
      BY <2>3 DEF f, n
  <1>5. Made(<<SetPending("conn", "receive")>>, "none", 0, 0, FALSE)
    BY <1>1, SimpleCalls, FrameFields DEF Bit
  <1>6. Made(<<AwaitTimer(Connection_Timer)>>, "none", 0, 0, FALSE)
    BY <1>1, SimpleCalls, FrameFields DEF Bit
  <1> QED
    BY <1>2, <1>3, <1>4, <1>5, <1>6

\* accepted(), and the end of a session or of a failed accept.
LEMMA AcceptsEffect ==
  ASSUME StackTyped, Ordered, NEW t \in Thread,
         Accepted(t) \/ AcceptFailed(t) \/ Disconnected(t)
  PROVE  Effect(t, "none", "none", 0, 1, 0, 0, 1, FALSE)
  <1>1. /\ Running(t, "complete") /\ Op(t) \in {"accept", "disconnect"}
        /\ Replace(t, <<Receive>>) \/ Replace(t, <<Begin("conn", "accept")>>)
    BY DEF Accepted, AcceptFailed, Disconnected, Told
  <1>2. Carrying(t, "complete") = 1
    BY <1>1 DEF Carrying, Bit
  <1> QED
    BY <1>1, <1>2, SimpleMade, UnfiledActs DEF Unfiled, Bit

LEMMA StartReceiveEffect ==
  ASSUME StackTyped, Ordered, NEW t \in Thread, StartReceive(t)
  PROVE  Effect(t, "none", "none", 0, 1, 0, 0, 0, FALSE)
  <1>1. Running(t, "receive") /\ Replace(t, <<Begin("conn", "receive")>>)
    BY DEF StartReceive
  <1>2. Carrying(t, "receive") = 1
    BY DEF Carrying, Bit
  <1> QED
    BY <1>1, <1>2, SimpleMade, UnfiledActs DEF Unfiled, Bit

LEMMA ReceivedEffect ==
  ASSUME StackTyped, Ordered, NEW t \in Thread
  PROVE  /\ Received(t) => Effect(t, "none", "none", 0, 0, 0, 1, 1, FALSE)
         /\ ReceivedInVain(t) \/ ReceiveAborted(t) =>
              Effect(t, "none", "none", 0, 0, 0, 0, 0, FALSE)
         /\ ReceiveFailed(t) => Effect(t, "none", "none", 0, 0, 0, 0, 1, FALSE)
  <1>1. ASSUME Running(t, "complete"), Op(t) = "receive"
        PROVE  Carrying(t, "complete") = 0
    BY <1>1 DEF Carrying, Bit
  <1>2. CASE Received(t)
    <2>1. /\ Running(t, "complete") /\ Op(t) = "receive"
          /\ Replace(t, <<LockFile, UnlockConn>>) \/ Replace(t, Append(CloseConnection, UnlockConn))
      BY <1>2 DEF Received, Told
    <2> QED
      BY <1>1, <1>2, <2>1, WriteMade, CloseReceivedMade, UnfiledActs
         DEF Unfiled, Bit, Received, ReceivedInVain, ReceiveAborted, ReceiveFailed, Told
  <1>3. ReceivedInVain(t) \/ ReceiveAborted(t) =>
          Effect(t, "none", "none", 0, 0, 0, 0, 0, FALSE)
    <2>1. ReceivedInVain(t) \/ ReceiveAborted(t) =>
            Running(t, "complete") /\ Op(t) = "receive" /\ Return(t)
      BY DEF ReceivedInVain, ReceiveAborted, Told
    <2> QED
      BY <1>1, <2>1, UnfiledReturns DEF Unfiled, Bit
  <1>4. ReceiveFailed(t) => Effect(t, "none", "none", 0, 0, 0, 0, 1, FALSE)
    <2>1. ReceiveFailed(t) =>
            Running(t, "complete") /\ Op(t) = "receive" /\ Replace(t, CloseConnection)
      BY DEF ReceiveFailed, Told
    <2> QED
      BY <1>1, <2>1, CloseConnectionIs, ClosingMade, UnfiledActs DEF Unfiled, Bit
  <1> QED
    BY <1>2, <1>3, <1>4

LEMMA UnlockConnectionEffect ==
  ASSUME StackTyped, Ordered, NEW t \in Thread, UnlockConnection(t)
  PROVE  Effect(t, "none", "none", 1, 0, 0, 0, 0, FALSE)
  <1>1. Running(t, "unlock_conn") /\ Return(t)
    BY DEF UnlockConnection
  <1>2. Carrying(t, "unlock_conn") = 0
    BY DEF Carrying, Bit
  <1> QED
    BY <1>1, <1>2, UnfiledReturns DEF Unfiled, Bit

LEMMA WriteEffect ==
  ASSUME StackTyped, Ordered, NEW t \in Thread
  PROVE  /\ WriteToOpen(t) \/ WriteToNew(t) => Effect(t, "none", "write", 0, 1, 0, 0, 1, FALSE)
         /\ CannotOpen(t) => Effect(t, "none", "unlock", 0, 1, 0, 0, 1, FALSE)
  <1>1. Carrying(t, "lock_file") = 1
    BY DEF Carrying, Bit
  <1>2. WriteToOpen(t) \/ WriteToNew(t) => Effect(t, "none", "write", 0, 1, 0, 0, 1, FALSE)
    <2>1. WriteToOpen(t) \/ WriteToNew(t) =>
            Running(t, "lock_file") /\ Replace(t, <<WriteCall>>)
      BY DEF WriteToOpen, WriteToNew
    <2> QED
      BY <1>1, <2>1, FileCallMade, UnfiledActs DEF Unfiled, Bit
  <1>3. CannotOpen(t) => Effect(t, "none", "unlock", 0, 1, 0, 0, 1, FALSE)
    <2>1. CannotOpen(t) =>
            Running(t, "lock_file") /\ Replace(t, <<UnlockFile>> \o CloseConnection)
      BY DEF CannotOpen
    <2> QED
      BY <1>1, <2>1, CannotOpenMade, UnfiledActs DEF Unfiled, Bit
  <1> QED
    BY <1>2, <1>3

\* What phase the thread is in, by the call it executes.
LEMMA FiledPhase ==
  ASSUME StackTyped, NEW t \in Thread
  PROVE  /\ Running(t, "write") <=> Phase(t) = "write"
         /\ Running(t, "written") /\ Arg(t) = "done" <=> Phase(t) = "done"
         /\ Running(t, "written") /\ Arg(t) = "error" <=> Phase(t) = "failed"
         /\ Running(t, "written") => Arg(t) \in {"done", "error"}
         /\ Running(t, "unlock_file") <=> Phase(t) = "unlock"
         /\ Running(t, "move_file") \/ Running(t, "delete_file") <=> Phase(t) = "move"
         /\ Running(t, "close_file") <=> Phase(t) = "close"
         /\ Running(t, "await_timer") /\ On(t) = File_Timer <=> Phase(t) = "await"
         /\ Running(t, "stop_timer") /\ On(t) = File_Timer <=> Phase(t) = "stop"
         /\ Running(t, "try_lock_file") <=> Phase(t) = "try"
         /\ Running(t, "lock_file") => Phase(t) = "none"
  <1>1. CASE Idle(t)
    BY <1>1 DEF Running, Phase, Phased, Idle
  <1>2. CASE ~Idle(t)
    <2>1. Head(stack[t]) \in Calls /\ Phase(t) = PhaseOf(Head(stack[t]))
      BY <1>2, HeadTailProperties DEF StackTyped, Idle, Phase, Phased
    <2> QED
      BY <1>2, <2>1, PhaseNamed, NoPhase, CallNamed DEF Running, On, Arg
  <1> QED
    BY <1>1, <1>2

LEMMA WriteFileEffect ==
  ASSUME StackTyped, Ordered, NEW t \in Thread
  PROVE  /\ WriteAtOnce(t, "done") => Effect(t, "write", "done", 0, 1, 0, 0, 1, FALSE)
         /\ WriteAtOnce(t, "error") => Effect(t, "write", "failed", 0, 1, 0, 0, 1, FALSE)
         /\ WritePending(t) => Effect(t, "write", "none", 0, 1, 0, 0, 0, FALSE)
  <1>1. SUFFICES ASSUME Running(t, "write")
                 PROVE  /\ Replace(t, <<Written("done")>>) =>
                             Effect(t, "write", "done", 0, 1, 0, 0, 1, FALSE)
                        /\ Replace(t, <<Written("error")>>) =>
                             Effect(t, "write", "failed", 0, 1, 0, 0, 1, FALSE)
                        /\ Return(t) => Effect(t, "write", "none", 0, 1, 0, 0, 0, FALSE)
    BY DEF WriteAtOnce, WritePending
  <1>2. /\ Phase(t) = "write" /\ ~Idle(t)
        /\ Hit(Head(stack[t]), Unlockers) = 0 /\ Hit(Head(stack[t]), Carriers) = 1
        /\ Hit(Head(stack[t]), Tries) = 0
    BY <1>1, FiledPhase, Executing DEF Bit
  <1>3. Replace(t, <<Written("done")>>) => Effect(t, "write", "done", 0, 1, 0, 0, 1, FALSE)
    BY <1>2, FileCallMade, Act DEF Last
  <1>4. Replace(t, <<Written("error")>>) => Effect(t, "write", "failed", 0, 1, 0, 0, 1, FALSE)
    BY <1>2, FileCallMade, Act DEF Last
  <1>5. Return(t) => Effect(t, "write", "none", 0, 1, 0, 0, 0, FALSE)
    BY <1>2, Returned DEF Last
  <1> QED
    BY <1>3, <1>4, <1>5

\* written(): the file is closed when it has ended.
LEMMA DataWrittenEffect ==
  ASSUME StackTyped, Ordered, NEW t \in Thread, DataWritten(t)
  PROVE  \E old \in Aged :
           IF Finished(filesize', old)
           THEN Effect(t, "done", "stop", 0, 1, 0, 0, 1, TRUE)
           ELSE Effect(t, "done", "unlock", 0, 1, 0, 0, 1, FALSE)
  <1>1. PICK old \in Aged :
          Replace(t, (IF Finished(filesize', old) THEN CloseAndMove ELSE <<>>)
                     \o <<UnlockFile, Receive>>)
    BY DEF DataWritten
  <1>2. /\ Phase(t) = "done" /\ ~Idle(t)
        /\ Hit(Head(stack[t]), Unlockers) = 0 /\ Hit(Head(stack[t]), Carriers) = 1
        /\ Hit(Head(stack[t]), Tries) = 0
    BY FiledPhase, Executing DEF Bit, DataWritten
  <1>3. CASE Finished(filesize', old)
    <2>1. Replace(t, CloseAndMove \o <<UnlockFile, Receive>>)
      BY <1>1, <1>3
    <2>2. Effect(t, "done", "stop", 0, 1, 0, 0, 1, TRUE)
      BY <1>2, <2>1, FinishMade, Act DEF Last
    <2> QED
      BY <1>3, <2>2
  <1>4. CASE ~Finished(filesize', old)
    <2>1. Replace(t, <<>> \o <<UnlockFile, Receive>>)
      BY <1>1, <1>4
    <2>2. Effect(t, "done", "unlock", 0, 1, 0, 0, 1, FALSE)
      BY <1>2, <2>1, GoOnMade, Act DEF Last
    <2> QED
      BY <1>4, <2>2
  <1> QED
    BY <1>3, <1>4

LEMMA WriteFailedEffect ==
  ASSUME StackTyped, Ordered, NEW t \in Thread, WriteFailed(t)
  PROVE  Effect(t, "failed", "stop", 0, 1, 0, 0, 1, WhatIsLeft = MoveFile)
  <1>1. Replace(t, <<StopTimer(File_Timer), CloseCall, WhatIsLeft, UnlockFile>>
                   \o CloseConnection)
    BY DEF WriteFailed
  <1>2. WhatIsLeft \in {MoveFile, DeleteFile}
    BY DEF WhatIsLeft
  <1>3. /\ Phase(t) = "failed" /\ ~Idle(t)
        /\ Hit(Head(stack[t]), Unlockers) = 0 /\ Hit(Head(stack[t]), Carriers) = 1
        /\ Hit(Head(stack[t]), Tries) = 0
    BY FiledPhase, Executing DEF Bit, WriteFailed
  <1> QED
    BY <1>1, <1>2, <1>3, WriteFailedMade, Act DEF Last

\* The calls that take a file from phase to phase and return.
LEMMA FiledReturns ==
  ASSUME StackTyped, Ordered, NEW t \in Thread
  PROVE  /\ CloseFile(t) => Effect(t, "close", "move", 0, 0, 0, 0, 0, FALSE)
         /\ Relocate(t) => Effect(t, "move", "unlock", 0, 0, 0, 0, 0, FALSE)
         /\ UnlockFileMutex(t) => Effect(t, "unlock", "none", 0, 0, 0, 0, 0, FALSE)
  <1>1. ASSUME NEW name \in {"close_file", "move_file", "delete_file", "unlock_file"},
               Running(t, name), Return(t)
        PROVE  Effect(t, Phase(t), IF Phase(t) \in Last THEN "none" ELSE After(Phase(t)),
                      0, 0, 0, 0, 0, FALSE)
    <2>1. /\ ~Idle(t)
          /\ Hit(Head(stack[t]), Unlockers) = 0 /\ Hit(Head(stack[t]), Carriers) = 0
          /\ Hit(Head(stack[t]), Tries) = 0
      BY <1>1, Executing DEF Bit
    <2> QED
      BY <1>1, <2>1, Returned
  <1>2. CloseFile(t) => Effect(t, "close", "move", 0, 0, 0, 0, 0, FALSE)
    BY <1>1, FiledPhase DEF CloseFile, FileClose, Last, After
  <1>3. Relocate(t) => Effect(t, "move", "unlock", 0, 0, 0, 0, 0, FALSE)
    BY <1>1, FiledPhase DEF Relocate, Last, After
  <1>4. UnlockFileMutex(t) => Effect(t, "unlock", "none", 0, 0, 0, 0, 0, FALSE)
    BY <1>1, FiledPhase DEF UnlockFileMutex, Last, After
  <1> QED
    BY <1>2, <1>3, <1>4

\* The callbacks of the timers that get their mutex, and those that do not.
LEMMA TimerActsEffect ==
  ASSUME StackTyped, Ordered, NEW t \in Thread
  PROVE  /\ CloseIdle(t) => Effect(t, "none", "none", 0, 0, 1, 1, 1, FALSE)
         /\ CloseOld(t) => Effect(t, "try", "close", 0, 0, 0, 0, 0, TRUE)
         /\ TimerInVain(t) =>
              \/ /\ Running(t, "try_lock_conn") /\ connection_mutex # 0
                 /\ Effect(t, "none", "none", 0, 0, 1, 0, 0, FALSE)
              \/ /\ Running(t, "try_lock_file") /\ file_mutex # 0
                 /\ Effect(t, "try", "none", 0, 0, 0, 0, 0, FALSE)
  <1>1. Carrying(t, "try_lock_conn") = 0
    BY DEF Carrying, Bit
  <1>2. CloseIdle(t) => Effect(t, "none", "none", 0, 0, 1, 1, 1, FALSE)
    <2>1. CloseIdle(t) =>
            Running(t, "try_lock_conn") /\ Replace(t, Append(Disconnects, UnlockConn))
      BY DEF CloseIdle, CloseIdleCalls
    <2> QED
      BY <1>1, <2>1, CloseIdleMade, UnfiledActs DEF Unfiled, Bit
  <1>3. Running(t, "try_lock_file") =>
          /\ Phase(t) = "try" /\ ~Idle(t)
          /\ Hit(Head(stack[t]), Unlockers) = 0 /\ Hit(Head(stack[t]), Carriers) = 0
          /\ Hit(Head(stack[t]), Tries) = 0
    BY FiledPhase, Executing DEF Bit
  <1>4. CloseOld(t) => Effect(t, "try", "close", 0, 0, 0, 0, 0, TRUE)
    BY <1>3, CloseOldMade, Act DEF CloseOld, Last
  <1>5. Running(t, "try_lock_conn") /\ Return(t) => Effect(t, "none", "none", 0, 0, 1, 0, 0, FALSE)
    BY <1>1, UnfiledReturns DEF Unfiled, Bit
  <1>6. Running(t, "try_lock_file") /\ Return(t) => Effect(t, "try", "none", 0, 0, 0, 0, 0, FALSE)
    BY <1>3, Returned DEF Last
  <1> QED
    BY <1>2, <1>4, <1>5, <1>6 DEF TimerInVain

\* timer::cancel() of the file timer puts off the closing of the file.  When
\* the connection timer is cancelled, the disconnect is on the stack.
LEMMA DisarmEffect ==
  ASSUME StackTyped, Ordered, NEW t \in Thread, Disarm(t)
  PROVE  \/ On(t) = File_Timer /\ Effect(t, "stop", "await", 0, 0, 0, 0, 0, FALSE)
         \/ /\ On(t) = Connection_Timer /\ Count(stack, Carriers) > 0
            /\ Effect(t, "none", "none", 0, 0, 0, 0, 0, FALSE)
  <1>1. Running(t, "stop_timer") /\ Replace(t, <<AwaitTimer(On(t))>>)
    BY DEF Disarm
  <1>2. /\ ~Idle(t) /\ Head(stack[t]) \in Calls /\ Head(stack[t]).call = "stop_timer"
        /\ Phase(t) = PhaseOf(Head(stack[t])) /\ On(t) = Head(stack[t]).on
        /\ Hit(Head(stack[t]), Unlockers) = 0 /\ Hit(Head(stack[t]), Carriers) = 0
        /\ Hit(Head(stack[t]), Tries) = 0
    BY <1>1, Executing DEF Bit
  <1>3. On(t) \in {File_Timer, Connection_Timer} /\ Head(stack[t]) = StopTimer(On(t))
    BY <1>2, CallNamed
  <1>4. /\ stack[t] \in Seq(Calls) /\ stack[t] # <<>> /\ Staged(stack[t]) /\ Parted(stack[t])
        /\ t \in DOMAIN stack
    BY <1>2 DEF StackTyped, Ordered, Idle
  <1>5. CASE On(t) = File_Timer
    <2> DEFINE c == <<AwaitTimer(File_Timer)>>
               r == c \o Tail(stack[t])
    <2>1. c \in Seq(Calls) /\ Replace(t, c)
      BY <1>1, <1>5, FramesAreCalls
    <2>2. \A F : Tally(c, F) = Hit(AwaitTimer(File_Timer), F)
      BY TallyOne
    <2>3. AwaitTimer(File_Timer) \in Calls /\ AwaitTimer(File_Timer).call = "await_timer"
      BY FramesAreCalls, FrameFields
    <2>4. \A i \in DOMAIN c : c[i].call # "timer_end" /\ (c[i] = MoveFile => FALSE)
      BY <2>3, FrameFields
    <2>5. c # <<>> /\ Phased(c) = "await"
      BY Phases DEF Phased
    <2> HIDE DEF c
    <2>6. StackTyped' /\ Goes(t, stack[t], r) /\ Moves(t, c)
      BY <1>2, <2>1, Replaces
    <2>7. Phase(t) = "stop"
      BY <1>2, <1>3, <1>5, Phases
    <2>8. Tail(stack[t]) \in Seq(Calls)
      BY <1>4, HeadTailProperties
    <2>9. Staged(Tail(stack[t])) /\ Parted(Tail(stack[t])) /\ Phased(Tail(stack[t])) = "close"
      BY <1>2, <1>4, <2>7, TailOrdered DEF Last, After
    <2>10. Staged(r) /\ Parted(r)
      BY <2>8, <2>9, AwaitOrdered DEF c
    <2>11. Phased(r) = "await"
      <3>1. Len(c) \in Nat \ {0} /\ Head(c) = c[1]
        BY <2>1, <2>5, EmptySeq, LenProperties
      <3>2. /\ Len(Tail(stack[t])) \in Nat /\ r \in Seq(Calls)
            /\ Len(r) = Len(c) + Len(Tail(stack[t]))
            /\ \A i \in 1 .. Len(c) + Len(Tail(stack[t])) :
                 r[i] = IF i <= Len(c) THEN c[i] ELSE Tail(stack[t])[i - Len(c)]
        BY <2>1, <2>8, ConcatProperties, LenProperties
      <3>3. r[1] = c[1] /\ Len(r) # 0
        BY <3>1, <3>2
      <3>4. r # <<>> /\ Head(r) = c[1]
        BY <3>2, <3>3, EmptySeq
      <3> QED
        BY <2>5, <3>1, <3>4 DEF Phased
    <2> HIDE DEF r
    <2>12. stack'[t] = r /\ \A u \in Thread \ {t} : stack'[u] = stack[u]
      BY <2>6 DEF Goes
    <2>13. Ordered'
      BY <2>10, <2>12 DEF Ordered
    <2>14. PhaseGoes(t, "stop", "await")
      BY <2>7, <2>11, <2>12 DEF PhaseGoes, Phase
    <2>15. Keeps(t, FALSE)
      BY <1>4, <2>1, <2>4, <2>6, KeepsCalls DEF r
    <2>16. Tally(c, Unlockers) = 0 /\ Tally(c, Carriers) = 0 /\ Tally(c, Tries) = 0
      BY <2>2, <2>3, Hits DEF Bit
    <2>17. /\ Numbered
           /\ Count(stack', Unlockers) + 0 = Count(stack, Unlockers) + 0
           /\ Count(stack', Carriers) + 0 = Count(stack, Carriers) + 0
           /\ Count(stack', Tries) + 0 = Count(stack, Tries)
      BY <1>2, <2>6, <2>16, KindsOfCalls DEF Moves, Numbered
    <2>18. Effect(t, "stop", "await", 0, 0, 0, 0, 0, FALSE)
      BY <2>6, <2>13, <2>14, <2>15, <2>17 DEF Effect
    <2> QED
      BY <1>5, <2>18
  <1>6. CASE On(t) = Connection_Timer
    <2>1. Phase(t) = "none"
      BY <1>2, <1>6, NoPhase DEF File_Timer, Connection_Timer
    <2>2. Effect(t, "none", "none", 0, 0, 0, 0, 0, FALSE)
      BY <1>1, <1>2, <1>6, <2>1, SimpleMade, Act DEF Last
    <2>3. 1 \in DOMAIN stack[t] /\ stack[t][1] = StopTimer(Connection_Timer)
      BY <1>3, <1>4, <1>6, EmptySeq, LenProperties
    <2>4. 1 + 2 \in DOMAIN stack[t] /\ stack[t][1 + 2] \in Carriers
      BY <1>4, <2>3 DEF Parted, Carriers
    <2>5. IsFiniteSet(Places(stack, Carriers))
      BY KindsOfCalls, CountSubset DEF StackTyped, Finite
    <2>6. Count(stack, Carriers) > 0
      BY <1>4, <2>4, <2>5, Counted
    <2> QED
      BY <1>6, <2>2, <2>6
  <1> QED
    BY <1>3, <1>5, <1>6

\* The callbacks of the timer have ended; the callback itself ends.
LEMMA AwaitedEffect ==
  ASSUME StackTyped, Ordered, NEW t \in Thread
  PROVE  /\ CallbacksAwaited(t) =>
              \/ On(t) = File_Timer /\ Effect(t, "await", "close", 0, 0, 0, 0, 0, FALSE)
              \/ On(t) = Connection_Timer /\ Effect(t, "none", "none", 0, 0, 0, 0, 0, FALSE)
         /\ CallbackEnds(t) => Effect(t, "none", "none", 0, 0, 0, 0, 0, FALSE)
  <1>1. CASE CallbacksAwaited(t)
    <2>1. Running(t, "await_timer") /\ Return(t)
      BY <1>1 DEF CallbacksAwaited
    <2>2. /\ ~Idle(t) /\ Head(stack[t]) \in Calls /\ Head(stack[t]).call = "await_timer"
          /\ Phase(t) = PhaseOf(Head(stack[t])) /\ On(t) = Head(stack[t]).on
          /\ Hit(Head(stack[t]), Unlockers) = 0 /\ Hit(Head(stack[t]), Carriers) = 0
          /\ Hit(Head(stack[t]), Tries) = 0
      BY <2>1, Executing DEF Bit
    <2>3. On(t) \in {File_Timer, Connection_Timer}
      BY <2>2, CallNamed
    <2>4. /\ On(t) = File_Timer => Phase(t) = "await"
          /\ On(t) = Connection_Timer => Phase(t) = "none"
      BY <2>1, <2>2, FiledPhase, NoPhase DEF File_Timer, Connection_Timer
    <2>5. ~CallbackEnds(t)
      BY <2>2 DEF CallbackEnds, Running
    <2> QED
      BY <2>1, <2>2, <2>3, <2>4, <2>5, Returned DEF Last, After
  <1>2. CASE CallbackEnds(t)
    <2>1. Running(t, "timer_end") /\ Return(t)
      BY <1>2 DEF CallbackEnds
    <2>2. Carrying(t, "timer_end") = 0
      BY DEF Carrying, Bit
    <2>3. ~CallbacksAwaited(t)
      BY <2>1 DEF CallbacksAwaited, Running
    <2> QED
      BY <2>1, <2>2, <2>3, UnfiledReturns DEF Unfiled, Bit
  <1> QED
    BY <1>1, <1>2

-----------------------------------------------------------------------------
(* The operations of the socket.                                           *)

LEMMA BeginHead ==
  ASSUME StackTyped, NEW t \in Thread, Running(t, "begin")
  PROVE  On(t) = "conn" /\ Op(t) \in Operation /\ Head(stack[t]) = Begin("conn", Op(t))
  <1>1. /\ Head(stack[t]) \in Calls /\ Head(stack[t]).call = "begin"
        /\ On(t) = Head(stack[t]).on /\ Op(t) = Head(stack[t]).op
    BY Executing
  <1> QED
    BY <1>1, CallNamed

\* Does the operation carry on with the connection?
Carries(op) == Bit(op \in {"accept", "disconnect"})

LEMMA StartsEffect ==
  ASSUME StackTyped, Ordered, NEW t \in Thread, Running(t, "begin")
  PROVE  /\ \A r \in Outcome : AtOnce(t, r) =>
              Effect(t, "none", "none", 0, Carries(Op(t)), 0, 0, Carries(Op(t)), FALSE)
         /\ Pending(t) => Effect(t, "none", "none", 0, Carries(Op(t)), 0, 0, 0, FALSE)
  <1>1. Carrying(t, "begin") = Carries(Op(t)) /\ On(t) = "conn" /\ Op(t) \in Operation
    BY BeginHead DEF Carrying, Carries, Bit
  <1>2. ASSUME NEW r \in Outcome, AtOnce(t, r)
        PROVE  Effect(t, "none", "none", 0, Carries(Op(t)), 0, 0, Carries(Op(t)), FALSE)
    <2>1. Replace(t, <<Complete("conn", Op(t), r)>>)
      BY <1>1, <1>2 DEF AtOnce
    <2>2. Made(<<Complete("conn", Op(t), r)>>, "none", 0, Carries(Op(t)), FALSE)
      BY <1>1, SimpleMade DEF Carries
    <2> QED
      BY <1>1, <2>1, <2>2, UnfiledActs DEF Unfiled, Bit
  <1>3. ASSUME Pending(t)
        PROVE  Effect(t, "none", "none", 0, Carries(Op(t)), 0, 0, 0, FALSE)
    <2>1. Replace(t, Mark("conn", Op(t)))
      BY <1>1, <1>3 DEF Pending
    <2>2. CASE Op(t) \in Tracked
      <3>1. Mark("conn", Op(t)) = <<SetPending("conn", "receive")>>
        BY <2>2, ReceiverAssumption DEF Mark, SetPending
      <3> QED
        BY <1>1, <2>1, <3>1, SimpleMade, UnfiledActs DEF Unfiled, Bit
    <2>3. CASE Op(t) \notin Tracked
      <3>1. Return(t)
        BY <2>1, <2>3 DEF Mark, Return
      <3> QED
        BY <1>1, <3>1, UnfiledReturns DEF Unfiled, Bit
    <2> QED
      BY <2>2, <2>3
  <1> QED
    BY <1>2, <1>3

LEMMA CancelEffect ==
  ASSUME StackTyped, Ordered, NEW t \in Thread, Cancel(t) \/ SetIoPending(t)
  PROVE  /\ On(t) = "conn" /\ Op(t) = "receive"
         /\ Effect(t, "none", "none", 0, 0, 0, 0, 0, FALSE)
  <1>1. PICK name \in {"cancel", "io_pending"} : Running(t, name) /\ Return(t)
    BY DEF Cancel, SetIoPending
  <1>2. Carrying(t, name) = 0
    BY DEF Carrying, Bit
  <1>3. Effect(t, "none", "none", 0, 0, 0, 0, 0, FALSE)
    BY <1>1, <1>2, UnfiledReturns DEF Unfiled, Bit
  <1>4. On(t) = "conn" /\ Op(t) = "receive"
    <2>1. /\ Head(stack[t]) \in Calls /\ Head(stack[t]).call = name
          /\ On(t) = Head(stack[t]).on /\ Op(t) = Head(stack[t]).op
      BY <1>1, Executing
    <2>2. Head(stack[t]) = CancelIo("conn", "receive") \/ Head(stack[t]) = SetPending("conn", "receive")
      BY <2>1, CallNamed
    <2> QED
      BY <2>1, <2>2, FrameFields
  <1> QED
    BY <1>3, <1>4

-----------------------------------------------------------------------------
(* The callbacks the pool runs.                                            *)

LEMMA StartMade ==
  ASSUME StackTyped, Ordered, NEW t, NEW c, NEW y, NEW u, NEW k, Made(c, y, u, k, FALSE),
         Start(t, c)
  PROVE  t \in Thread /\ Effect(t, "none", y, 0, 0, 0, u, k, FALSE)
  <1>1. c \in Seq(Calls) /\ c # <<>> /\ Staged(c) /\ Parted(c) /\ Phased(c) = y
    BY DEF Made
  <1>2. /\ StackTyped' /\ Ordered' /\ Adds(c) /\ t \in Thread
        /\ Goes(t, <<>>, c) /\ PhaseGoes(t, "none", y)
    BY <1>1, Begun
  <1>3. stack'[t] = c /\ \A v \in Thread \ {t} : stack'[v] = stack[v]
    BY <1>2 DEF Goes
  <1>4. \A i \in DOMAIN c : c[i].call # "timer_end" /\ c[i] # MoveFile
    BY DEF Made
  <1>5. Keeps(t, FALSE)
    <2>1. \A x : TimerEnd(x).call = "timer_end"
      BY FrameFields
    <2>2. \A v \in Thread \ {t} :
            /\ \A x : InCallback(v, x)' => InCallback(v, x)
            /\ OnStack(v, MoveFile)' => OnStack(v, MoveFile)
      BY <1>3 DEF InCallback, OnStack
    <2>3. \A x : ~InCallback(t, x)'
      BY <1>3, <1>4, <2>1 DEF InCallback, OnStack
    <2>4. ~OnStack(t, MoveFile)'
      BY <1>3, <1>4 DEF OnStack
    <2> QED
      BY <2>2, <2>3, <2>4 DEF Keeps, MovesOnly
  <1>6. /\ Numbered
        /\ Count(stack', Unlockers) + 0 = Count(stack, Unlockers) + u
        /\ Count(stack', Carriers) + 0 = Count(stack, Carriers) + k
        /\ Count(stack', Tries) + 0 = Count(stack, Tries)
    BY <1>2, KindsOfCalls DEF Adds, Made, Numbered
  <1> QED
    BY <1>2, <1>5, <1>6 DEF Effect

LEMMA CompletionEffect ==
  ASSUME StackTyped, Ordered, NEW t, NEW s \in Sock, NEW op \in Operation, NEW r \in Outcome,
         Completion(t, s, op, r)
  PROVE  t \in Thread /\ Effect(t, "none", "none", 0, 0, 0, 0, Carries(op), FALSE)
  <1>1. Start(t, <<Complete("conn", op, r)>>)
    BY ReceiverAssumption DEF Completion, Deliver
  <1>2. Made(<<Complete("conn", op, r)>>, "none", 0, Carries(op), FALSE)
    BY SimpleMade DEF Carries
  <1> QED
    BY <1>1, <1>2, StartMade

LEMMA WriteCompletionEffect ==
  ASSUME StackTyped, Ordered, NEW t
  PROVE  /\ WriteCompletion(t, "done") =>
              t \in Thread /\ Effect(t, "none", "done", 0, 0, 0, 0, 1, FALSE)
         /\ WriteCompletion(t, "error") =>
              t \in Thread /\ Effect(t, "none", "failed", 0, 0, 0, 0, 1, FALSE)
  <1>1. /\ WriteCompletion(t, "done") => Start(t, <<Written("done")>>)
        /\ WriteCompletion(t, "error") => Start(t, <<Written("error")>>)
    BY DEF WriteCompletion, WriteEnds
  <1> QED
    BY <1>1, FileCallMade, StartMade

\* A timer fires: thread t is in its callback.
Fires(t, x, f, y, tries) ==
  /\ t \in Thread /\ StackTyped' /\ Ordered' /\ PhaseGoes(t, "none", y) /\ Numbered
  /\ Goes(t, <<>>, <<f, TimerEnd(x)>>)
  /\ Count(stack', Unlockers) = Count(stack, Unlockers)
  /\ Count(stack', Carriers) = Count(stack, Carriers)
  /\ Count(stack', Tries) = Count(stack, Tries) + tries

LEMMA PairIs ==
  ASSUME NEW f \in Calls, NEW g \in Calls
  PROVE  <<f>> \o <<g>> = <<f, g>>
  <1> DEFINE p == <<f>>
             q == <<g>>
             r == <<f, g>>
  <1>1. p \in Seq(Calls) /\ q \in Seq(Calls) /\ r \in Seq(Calls)
    OBVIOUS
  <1>2. Len(r) = Len(p) + Len(q)
    OBVIOUS
  <1>3. \A i \in 1 .. Len(p) : r[i] = p[i]
    OBVIOUS
  <1>4. \A i \in 1 .. Len(q) : r[Len(p) + i] = q[i]
    OBVIOUS
  <1> HIDE DEF p, q, r
  <1>5. p \o q = r
    BY <1>1, <1>2, <1>3, <1>4, Joined
  <1> QED
    BY <1>5 DEF p, q, r

LEMMA FireEffect ==
  ASSUME StackTyped, Ordered, NEW t
  PROVE  /\ ConnectionTimerExpires(t) =>
              Fires(t, Connection_Timer, TryLockConn, "none", 1)
         /\ FileTimerExpires(t) => Fires(t, File_Timer, TryLockFile, "try", 0)
  <1>1. ASSUME NEW x \in {File_Timer, Connection_Timer}, NEW f \in {TryLockConn, TryLockFile},
               Start(t, <<f>> \o <<TimerEnd(x)>>)
        PROVE  Fires(t, x, f, PhaseOf(f), Bit(f = TryLockConn))
    <2> DEFINE e == TimerEnd(x)
               c == <<f, e>>
    <2>1. /\ f \in Calls /\ e \in Calls /\ f.call \in {"try_lock_conn", "try_lock_file"}
          /\ e.call = "timer_end"
          /\ f.call = "try_lock_conn" <=> f = TryLockConn
      BY FramesAreCalls, FrameFields
    <2>2. PhaseOf(e) = "none" /\ PhaseOf(f) \in Last /\ e # StopConn /\ f # StopConn
      BY <2>1, NoPhase, Phases, FrameFields DEF Last, StopConn
    <2> HIDE DEF e
    <2>3. c \in Seq(Calls) /\ c # <<>> /\ Phased(c) = PhaseOf(f)
      BY <2>1 DEF Phased
    <2>4. Staged(c)
      BY <2>2, Phases DEF Staged, Last
    <2>5. Parted(c)
      BY <2>2 DEF Parted, StopConn
    <2>6. \A F : Tally(c, F) = Hit(f, F) + Hit(e, F)
      BY TallyTwo
    <2>7. Start(t, c)
      BY <1>1, <2>1, PairIs DEF e
    <2> HIDE DEF c
    <2>8. /\ StackTyped' /\ Ordered' /\ Adds(c) /\ t \in Thread
          /\ Goes(t, <<>>, c) /\ PhaseGoes(t, "none", PhaseOf(f))
      BY <2>3, <2>4, <2>5, <2>7, Begun
    <2>9. /\ Tally(c, Unlockers) = 0 /\ Tally(c, Carriers) = 0
          /\ Tally(c, Tries) = Bit(f = TryLockConn)
      BY <2>1, <2>6, Hits DEF Bit
    <2>10. /\ Numbered
           /\ Count(stack', Unlockers) = Count(stack, Unlockers)
           /\ Count(stack', Carriers) = Count(stack, Carriers)
           /\ Count(stack', Tries) = Count(stack, Tries) + Bit(f = TryLockConn)
      BY <2>8, <2>9, KindsOfCalls DEF Adds, Numbered
    <2> QED
      BY <2>8, <2>10 DEF Fires, c, e
  <1>2. /\ ConnectionTimerExpires(t) => Start(t, <<TryLockConn>> \o <<TimerEnd(Connection_Timer)>>)
        /\ FileTimerExpires(t) => Start(t, <<TryLockFile>> \o <<TimerEnd(File_Timer)>>)
    BY DEF ConnectionTimerExpires, FileTimerExpires, Expire
  <1>3. /\ PhaseOf(TryLockConn) = "none" /\ PhaseOf(TryLockFile) = "try"
        /\ Bit(TryLockConn = TryLockConn) = 1 /\ Bit(TryLockFile = TryLockConn) = 0
    BY NoPhase, Phases, FrameFields DEF Bit
  <1> QED
    BY <1>1, <1>2, <1>3

=============================================================================

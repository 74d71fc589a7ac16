----------------------------- MODULE ThreadPool -----------------------------
(***************************************************************************)
(* The threads the classes of winasync run on: the threads of the Windows  *)
(* thread pool (net/async/thread_pool.cpp) and the main thread.  The code  *)
(* is continuation-passing: a completion that is immediate runs its        *)
(* callback on the stack of the call that started the operation, and a     *)
(* completion that is not runs it on any idle thread of the pool.  A       *)
(* thread is therefore its stack of calls that are still to be executed:   *)
(* a step of a thread executes the call at the head of its stack and       *)
(* puts the calls that call makes, in order, in its place.                 *)
(***************************************************************************)
EXTENDS Sequences

CONSTANTS Pool,   \* the threads of the pool (minthreads .. maxthreads)
          Main    \* the thread that runs main()

ASSUME ThreadAssumption == Main \notin Pool

VARIABLE stack    \* stack[t]: the calls thread t has still to execute

Thread == Pool \cup {Main}

\* A call: what is called, on which object, for which operation and with
\* which argument (the outcome handed to a callback, a flag).
Frame(call, on, op, arg) == [call |-> call, on |-> on, op |-> op, arg |-> arg]

Idle(t) == stack[t] = <<>>

\* Thread t is about to execute call.
Running(t, call) == ~Idle(t) /\ Head(stack[t]).call = call

\* The object and the operation thread t is about to act upon.
On(t) == Head(stack[t]).on
Op(t) == Head(stack[t]).op
Arg(t) == Head(stack[t]).arg

\* The call thread t executes makes the calls of the sequence calls.
Replace(t, calls) == stack' = [stack EXCEPT ![t] = calls \o Tail(@)]

Return(t) == Replace(t, <<>>)

\* The pool runs a callback, which makes calls, on its idle thread t.
Start(t, calls) ==
  /\ t \in Pool
  /\ Idle(t)
  /\ stack' = [stack EXCEPT ![t] = calls]

\* f is still to be executed by thread t.
OnStack(t, f) == \E i \in DOMAIN stack[t] : stack[t][i] = f

=============================================================================

--------------------------- MODULE ConnectorProofs ---------------------------
(***************************************************************************)
(* Proofs about the connector, for any number of connections, threads,     *)
(* transfers and loops: an inductive invariant, and from it that a         *)
(* connection is driven by one activity at a time and that the contract of *)
(* the Windows API is kept.                                                *)
(***************************************************************************)
EXTENDS Connector, SequenceTheorems, FiniteSetTheorems, TLAPS

\* The event is set when the last running connection has ended.
EventAtZero == stop_event => nrunning = 0

\* The strengthening: one activity is not inductive without what that
\* activity presupposes of the handle and of the counters.
IInv == TypeOK /\ OneActivity /\ InStep /\ NoBreach /\ RunningCounted /\ EventAtZero

-----------------------------------------------------------------------------
(* Sequences of calls.                                                     *)

\* What is on the stack after the calls `calls' have been put on rest.
LEMMA Pushed ==
  ASSUME NEW S, NEW calls \in Seq(S), NEW rest \in Seq(S)
  PROVE  /\ calls \o rest \in Seq(S)
         /\ \A i \in DOMAIN (calls \o rest) :
              \/ i \in DOMAIN calls /\ (calls \o rest)[i] = calls[i]
              \/ /\ i \in Nat
                 /\ i > Len(calls)
                 /\ i - Len(calls) \in DOMAIN rest
                 /\ (calls \o rest)[i] = rest[i - Len(calls)]
  <1>1. /\ Len(calls) \in Nat /\ Len(rest) \in Nat
        /\ DOMAIN calls = 1 .. Len(calls) /\ DOMAIN rest = 1 .. Len(rest)
    BY LenProperties
  <1>2. /\ calls \o rest \in Seq(S)
        /\ Len(calls \o rest) = Len(calls) + Len(rest)
        /\ \A i \in 1 .. Len(calls) + Len(rest) :
             (calls \o rest)[i] = IF i <= Len(calls) THEN calls[i] ELSE rest[i - Len(calls)]
    BY ConcatProperties
  <1>3. DOMAIN (calls \o rest) = 1 .. Len(calls) + Len(rest)
    BY <1>2, LenProperties
  <1>4. ASSUME NEW i \in 1 .. Len(calls) + Len(rest)
        PROVE  \/ i \in 1 .. Len(calls) /\ (calls \o rest)[i] = calls[i]
               \/ /\ i \in Nat
                  /\ i > Len(calls)
                  /\ i - Len(calls) \in 1 .. Len(rest)
                  /\ (calls \o rest)[i] = rest[i - Len(calls)]
    BY <1>1, <1>2
  <1> QED
    BY <1>1, <1>2, <1>3, <1>4

\* The stack without its head.
LEMMA Popped ==
  ASSUME NEW S, NEW q \in Seq(S), q # <<>>
  PROVE  /\ Head(q) \in S
         /\ Head(q) = q[1]
         /\ 1 \in DOMAIN q
         /\ Tail(q) \in Seq(S)
         /\ \A i \in DOMAIN Tail(q) : i + 1 \in DOMAIN q /\ Tail(q)[i] = q[i + 1]
  <1>1. /\ Len(q) \in Nat \ {0} /\ DOMAIN q = 1 .. Len(q)
    BY EmptySeq, LenProperties
  <1>2. /\ Head(q) \in S /\ Tail(q) \in Seq(S) /\ Len(Tail(q)) = Len(q) - 1
        /\ \A i \in 1 .. Len(Tail(q)) : Tail(q)[i] = q[i + 1]
    BY HeadTailProperties
  <1>3. DOMAIN Tail(q) = 1 .. Len(q) - 1
    BY <1>2, LenProperties
  <1> QED
    BY <1>1, <1>2, <1>3

-----------------------------------------------------------------------------
(* One step of one connection.                                             *)

Carrying(f) == f.call \in {"begin", "complete"}

\* The other connections are left alone.
OthersKept(c) ==
  \A d \in Sock \ {c} : /\ sock'[d] = sock[d]
                        /\ inflight'[d] = inflight[d]
                        /\ nloops'[d] = nloops[d]
                        /\ ntransfers'[d] = ntransfers[d]

\* rest, what remains of the stack of t without its first off calls, and the
\* other stacks hold no call that carries c on.
Without(t, c, rest, off) ==
  /\ \A i \in DOMAIN rest : i + off \in DOMAIN stack[t] /\ rest[i] = stack[t][i + off]
  /\ \A u \in Thread : \A i \in DOMAIN stack[u] : Carries(u, i, c) => u = t /\ i <= off

\* After the step calls are calls of c that are in order: at most one of them
\* carries c on, with nothing of c in flight, and finds the handle it needs;
\* and what is in flight is one operation that finds the handle it needs.
InOrder(c, calls) ==
  /\ \A i \in DOMAIN calls : calls[i].on = c
  /\ \A i, j \in DOMAIN calls : Carrying(calls[i]) /\ Carrying(calls[j]) => i = j
  /\ \A i \in DOMAIN calls :
       Carrying(calls[i]) => /\ HasToDo(c, calls[i].op)'
                             /\ sock'[c] = HandleAt(calls[i])
                             /\ \A op \in Operation : inflight'[c][op] = "none"
  /\ \A op \in Operation :
       inflight'[c][op] # "none" => HasToDo(c, op)' /\ sock'[c] = HandleDuring(op)
  /\ \A o, p \in Operation :
       inflight'[c][o] # "none" /\ inflight'[c][p] # "none" => o = p

\* A thread puts calls of connection c, which are in order, in the place of
\* the only activity of c: the invariants are preserved, for all connections.
\* That is what the actions have in common.
LEMMA Placed ==
  ASSUME stack \in [Thread -> Seq(Calls)], OneActivity, InStep,
         NEW t \in Thread, NEW c \in Sock,
         NEW calls \in Seq(Calls), NEW rest \in Seq(Calls), NEW off \in {0, 1},
         stack' = [stack EXCEPT ![t] = calls \o rest],
         Without(t, c, rest, off), OthersKept(c), InOrder(c, calls)
  PROVE  stack' \in [Thread -> Seq(Calls)] /\ OneActivity' /\ InStep'
  <1> USE DEF Without, InOrder
  <1>1. /\ calls \o rest \in Seq(Calls)
        /\ \A i \in DOMAIN (calls \o rest) :
             \/ i \in DOMAIN calls /\ (calls \o rest)[i] = calls[i]
             \/ /\ i \in Nat
                /\ i > Len(calls)
                /\ i - Len(calls) \in DOMAIN rest
                /\ (calls \o rest)[i] = rest[i - Len(calls)]
    BY Pushed
  <1>2. Len(calls) \in Nat
    BY LenProperties
  <1>3. stack' \in [Thread -> Seq(Calls)]
    BY <1>1
  \* Where a call on a stack comes from: it is new, or it was there at k.
  <1> DEFINE New(u, i) == u = t /\ i \in DOMAIN calls /\ stack'[u][i] = calls[i]
             Was(u, i) == IF u = t THEN i - Len(calls) + off ELSE i
             Old(u, i) == /\ Was(u, i) \in DOMAIN stack[u]
                          /\ stack'[u][i] = stack[u][Was(u, i)]
                          /\ u = t => i \in Nat /\ i > Len(calls)
  <1>4. ASSUME NEW u \in Thread, NEW i \in DOMAIN stack'[u]
        PROVE  New(u, i) \/ Old(u, i)
    <2>1. CASE u # t
      <3>1. stack'[u] = stack[u]
        BY <2>1
      <3> QED
        BY <2>1, <3>1
    <2>2. CASE u = t
      <3>1. stack'[u] = calls \o rest
        BY <2>2
      <3>2. \/ i \in DOMAIN calls /\ stack'[u][i] = calls[i]
            \/ /\ i \in Nat
               /\ i > Len(calls)
               /\ i - Len(calls) \in DOMAIN rest
               /\ stack'[u][i] = rest[i - Len(calls)]
        BY <1>1, <3>1
      <3>3. CASE i \in DOMAIN calls /\ stack'[u][i] = calls[i]
        BY <2>2, <3>3
      <3>4. CASE /\ i \in Nat
                 /\ i > Len(calls)
                 /\ i - Len(calls) \in DOMAIN rest
                 /\ stack'[u][i] = rest[i - Len(calls)]
        <4>1. /\ (i - Len(calls)) + off \in DOMAIN stack[t]
              /\ rest[i - Len(calls)] = stack[t][(i - Len(calls)) + off]
          BY <3>4
        <4> QED
          BY <2>2, <3>4, <4>1
      <3> QED
        BY <3>2, <3>3, <3>4
    <2> QED
      BY <2>1, <2>2
  <1> HIDE DEF New, Old
  \* The calls that carry c on are new, those of the others are old.
  <1>5. ASSUME NEW u \in Thread, NEW i \in DOMAIN stack'[u],
               Carrying(stack'[u][i]), stack'[u][i].on = c
        PROVE  New(u, i)
    <2>1. SUFFICES ASSUME Old(u, i) PROVE FALSE
      BY <1>4
    <2>2. /\ Was(u, i) \in DOMAIN stack[u]
          /\ stack'[u][i] = stack[u][Was(u, i)]
          /\ u = t => i \in Nat /\ i > Len(calls)
      BY <2>1 DEF Old
    <2>3. Carries(u, Was(u, i), c)
      BY <1>5, <2>2 DEF Carries, Carrying
    <2>4. u = t /\ Was(u, i) <= off
      BY <2>2, <2>3
    <2> QED
      BY <2>2, <2>4, <1>2
  <1>6. ASSUME NEW u \in Thread, NEW i \in DOMAIN stack'[u], stack'[u][i].on # c
        PROVE  Old(u, i)
    BY <1>4, <1>6 DEF New
  <1>7. ASSUME NEW d \in Sock, NEW u \in Thread, NEW v \in Thread,
               NEW i \in DOMAIN stack'[u], NEW j \in DOMAIN stack'[v],
               Carries(u, i, d)', Carries(v, j, d)'
        PROVE  u = v /\ i = j
    <2>1. /\ stack'[u][i].on = d /\ Carrying(stack'[u][i])
          /\ stack'[v][j].on = d /\ Carrying(stack'[v][j])
      BY <1>7 DEF Carries, Carrying
    <2>2. CASE d = c
      <3>1. New(u, i) /\ New(v, j)
        BY <1>5, <2>1, <2>2
      <3> QED
        BY <2>1, <3>1 DEF New
    <2>3. CASE d # c
      <3>1. Old(u, i) /\ Old(v, j)
        BY <1>6, <2>1, <2>3
      <3>2. Carries(u, Was(u, i), d) /\ Carries(v, Was(v, j), d)
        BY <2>1, <3>1 DEF Old, Carries, Carrying
      <3>3. u = v /\ Was(u, i) = Was(v, j)
        BY <3>1, <3>2 DEF Old, OneActivity
      <3> QED
        BY <1>2, <3>1, <3>3 DEF Old
    <2> QED
      BY <2>2, <2>3
  <1>8. ASSUME NEW d \in Sock, OnCpu(d)'
        PROVE  ~InWindows(d)'
    <2>1. PICK u \in Thread : \E i \in DOMAIN stack'[u] : Carries(u, i, d)'
      BY <1>8 DEF OnCpu
    <2>2. PICK i \in DOMAIN stack'[u] : Carries(u, i, d)'
      BY <2>1
    <2>3. stack'[u][i].on = d /\ Carrying(stack'[u][i])
      BY <2>2 DEF Carries, Carrying
    <2>4. CASE d = c
      BY <1>5, <2>3, <2>4 DEF New, InWindows, InUse
    <2>5. CASE d # c
      <3>1. Old(u, i)
        BY <1>6, <2>3, <2>5
      <3>2. Carries(u, Was(u, i), d)
        BY <2>3, <3>1 DEF Old, Carries, Carrying
      <3>3. ~InWindows(d)
        BY <3>1, <3>2 DEF Old, OneActivity, OnCpu
      <3> QED
        BY <2>5, <3>3 DEF InWindows, InUse, OthersKept
    <2> QED
      BY <2>4, <2>5
  <1>9. ASSUME NEW d \in Sock, NEW o \in Operation, NEW p \in Operation,
               InUse(d, o)', InUse(d, p)'
        PROVE  o = p
    <2>1. CASE d = c
      BY <1>9, <2>1 DEF InUse
    <2>2. CASE d # c
      <3>1. InUse(d, o) /\ InUse(d, p)
        BY <1>9, <2>2 DEF InUse, OthersKept
      <3> QED
        BY <3>1 DEF OneActivity
    <2> QED
      BY <2>1, <2>2
  <1>10. OneActivity'
    BY <1>7, <1>8, <1>9 DEF OneActivity
  <1>11. ASSUME NEW u \in Thread, NEW i \in DOMAIN stack'[u],
                Carries(u, i, stack[u][i].on)'
         PROVE  /\ HasToDo(stack[u][i].on, stack[u][i].op)'
                /\ sock'[stack'[u][i].on] = HandleAt(stack'[u][i])
    <2>1. Carrying(stack'[u][i])
      BY <1>11 DEF Carries, Carrying
    <2>2. CASE stack'[u][i].on = c
      BY <1>5, <2>1, <2>2 DEF New, HasToDo
    <2>3. CASE stack'[u][i].on # c
      <3>1. Old(u, i)
        BY <1>6, <2>3
      <3> DEFINE f == stack[u][Was(u, i)]
      <3>2. stack'[u][i] = f /\ f \in Calls
        BY <3>1, ElementOfSeq, LenProperties DEF Old
      <3>3. Carries(u, Was(u, i), f.on) /\ f.on \in Sock
        BY <2>1, <3>2 DEF Carries, Carrying, Calls
      <3>4. HasToDo(f.on, f.op) /\ sock[f.on] = HandleAt(f)
        BY <3>1, <3>3 DEF Old, InStep
      <3>5. /\ sock'[f.on] = sock[f.on]
            /\ nloops'[f.on] = nloops[f.on] /\ ntransfers'[f.on] = ntransfers[f.on]
        <4>1. f.on \in Sock /\ f.on # c
          BY <2>3, <3>2, <3>3
        <4> HIDE DEF f
        <4> QED
          BY <4>1 DEF OthersKept
      <3> QED
        BY <3>2, <3>4, <3>5 DEF HasToDo
    <2> QED
      BY <2>2, <2>3
  <1>12. ASSUME NEW d \in Sock, NEW op \in Operation, InUse(d, op)'
         PROVE  HasToDo(d, op)' /\ sock'[d] = HandleDuring(op)
    <2>1. CASE d = c
      BY <1>12, <2>1 DEF InUse
    <2>2. CASE d # c
      <3>1. /\ sock'[d] = sock[d] /\ inflight'[d] = inflight[d]
            /\ nloops'[d] = nloops[d] /\ ntransfers'[d] = ntransfers[d]
        BY <2>2 DEF OthersKept
      <3>2. InUse(d, op)
        BY <1>12, <3>1 DEF InUse
      <3>3. HasToDo(d, op) /\ sock[d] = HandleDuring(op)
        BY <3>2 DEF InStep
      <3> QED
        BY <3>1, <3>3 DEF HasToDo
    <2> QED
      BY <2>1, <2>2
  <1>13. InStep'
    BY <1>11, <1>12 DEF InStep
  <1> QED
    BY <1>3, <1>10, <1>13

\* The thread executes a call that carries connection On(t) on: that is the
\* only activity of the connection, which has nothing in flight.
LEMMA Leading ==
  ASSUME TypeOK, OneActivity, InStep,
         NEW t \in Thread, stack[t] # <<>>, Carrying(Head(stack[t]))
  PROVE  /\ Head(stack[t]) \in Calls
         /\ Tail(stack[t]) \in Seq(Calls)
         /\ \A i \in DOMAIN Tail(stack[t]) :
              i + 1 \in DOMAIN stack[t] /\ Tail(stack[t])[i] = stack[t][i + 1]
         /\ \A u \in Thread : \A i \in DOMAIN stack[u] :
              Carries(u, i, On(t)) => u = t /\ i <= 1
         /\ \A op \in Operation : inflight[On(t)][op] = "none"
         /\ HasToDo(On(t), Op(t))
         /\ sock[On(t)] = HandleAt(Head(stack[t]))
  <1>1. stack[t] \in Seq(Calls)
    BY DEF TypeOK
  <1>2. /\ Head(stack[t]) \in Calls
        /\ Head(stack[t]) = stack[t][1]
        /\ 1 \in DOMAIN stack[t]
        /\ Tail(stack[t]) \in Seq(Calls)
        /\ \A i \in DOMAIN Tail(stack[t]) :
             i + 1 \in DOMAIN stack[t] /\ Tail(stack[t])[i] = stack[t][i + 1]
    BY <1>1, Popped
  <1>3. On(t) \in Sock /\ Carries(t, 1, On(t))
    BY <1>2 DEF On, Carries, Carrying, Calls
  <1>4. \A u \in Thread : \A i \in DOMAIN stack[u] :
          Carries(u, i, On(t)) => u = t /\ i <= 1
    BY <1>2, <1>3 DEF OneActivity
  <1>5. ~InWindows(On(t))
    BY <1>2, <1>3 DEF OneActivity, OnCpu
  <1>6. \A op \in Operation : inflight[On(t)][op] = "none"
    BY <1>5 DEF InWindows, InUse
  <1>7. HasToDo(On(t), Op(t)) /\ sock[On(t)] = HandleAt(Head(stack[t]))
    BY <1>2, <1>3 DEF InStep, On, Op
  <1> QED
    BY <1>2, <1>4, <1>6, <1>7

\* The thread executes such a call, which makes other calls: Placed.
LEMMA Moved ==
  ASSUME TypeOK, OneActivity, InStep,
         NEW t \in Thread, stack[t] # <<>>, Carrying(Head(stack[t])),
         NEW c \in Sock, c = On(t), OthersKept(c),
         NEW calls \in Seq(Calls), Replace(t, calls), InOrder(c, calls)
  PROVE  stack' \in [Thread -> Seq(Calls)] /\ OneActivity' /\ InStep'
  <1>1. stack \in [Thread -> Seq(Calls)]
    BY DEF TypeOK
  <1>2. Tail(stack[t]) \in Seq(Calls) /\ Without(t, c, Tail(stack[t]), 1)
    BY Leading DEF Without
  <1>3. stack' = [stack EXCEPT ![t] = calls \o Tail(stack[t])]
    BY DEF Replace
  <1> QED
    BY <1>1, <1>2, <1>3, Placed

\* The frequent case of Moved: one call of c instead of another.
LEMMA MovedOn ==
  ASSUME TypeOK, OneActivity, InStep,
         NEW t \in Thread, stack[t] # <<>>, Carrying(Head(stack[t])),
         NEW c \in Sock, c = On(t), OthersKept(c),
         NEW f \in Calls, f.on = c, Replace(t, <<f>>),
         HasToDo(c, f.op)', sock'[c] = HandleAt(f),
         \A op \in Operation : inflight'[c][op] = "none"
  PROVE  stack' \in [Thread -> Seq(Calls)] /\ OneActivity' /\ InStep'
  <1>1. <<f>> \in Seq(Calls) /\ InOrder(c, <<f>>)
    BY DEF InOrder
  <1> QED
    BY <1>1, Moved

\* The thread is done with a call that does not carry a connection on.
LEMMA Dropped ==
  ASSUME TypeOK, OneActivity, InStep,
         NEW t \in Thread, stack[t] # <<>>, ~Carrying(Head(stack[t])), Return(t),
         UNCHANGED <<sock, nloops, ntransfers>>,
         \A c \in Sock, op \in Operation : InUse(c, op)' <=> InUse(c, op)
  PROVE  stack' \in [Thread -> Seq(Calls)] /\ OneActivity' /\ InStep'
  <1> DEFINE Was(u, i) == IF u = t THEN i + 1 ELSE i
  <1>1. stack[t] \in Seq(Calls)
    BY DEF TypeOK
  <1>2. /\ Tail(stack[t]) \in Seq(Calls)
        /\ \A i \in DOMAIN Tail(stack[t]) :
             i + 1 \in DOMAIN stack[t] /\ Tail(stack[t])[i] = stack[t][i + 1]
    BY <1>1, Popped
  <1>3. stack' = [stack EXCEPT ![t] = Tail(stack[t])]
    <2>1. <<>> \o Tail(stack[t]) = Tail(stack[t])
      BY <1>2, ConcatEmptySeq
    <2> QED
      BY <2>1 DEF Return, Replace
  <1>4. stack' \in [Thread -> Seq(Calls)]
    BY <1>2, <1>3 DEF TypeOK
  <1>5. ASSUME NEW u \in Thread, NEW i \in DOMAIN stack'[u]
        PROVE  /\ i \in Nat
               /\ Was(u, i) \in DOMAIN stack[u]
               /\ stack'[u][i] = stack[u][Was(u, i)]
    <2>1. i \in Nat
      BY <1>4, <1>5, LenProperties
    <2>2. CASE u = t
      BY <1>2, <1>3, <2>1, <2>2 DEF TypeOK
    <2>3. CASE u # t
      BY <1>3, <2>1, <2>3 DEF TypeOK
    <2> QED
      BY <2>2, <2>3
  <1>6. ASSUME NEW u \in Thread, NEW i \in DOMAIN stack'[u], NEW c
        PROVE  Carries(u, i, c)' <=> Carries(u, Was(u, i), c)
    BY <1>5 DEF Carries
  <1>7. ASSUME NEW u \in Thread, NEW v \in Thread,
               NEW i \in DOMAIN stack'[u], NEW j \in DOMAIN stack'[v],
               u = v, Was(u, i) = Was(v, j)
        PROVE  i = j
    BY <1>5, <1>7
  <1> HIDE DEF Was
  <1>8. \A c \in Sock : OnCpu(c)' => OnCpu(c)
    BY <1>5, <1>6 DEF OnCpu
  <1>9. \A c \in Sock : InWindows(c)' <=> InWindows(c)
    BY DEF InWindows
  <1>10. OneActivity'
    <2>1. ASSUME NEW c \in Sock, NEW u \in Thread, NEW v \in Thread,
                 NEW i \in DOMAIN stack'[u], NEW j \in DOMAIN stack'[v],
                 Carries(u, i, c)', Carries(v, j, c)'
          PROVE  u = v /\ i = j
      BY <1>5, <1>6, <1>7, <2>1 DEF OneActivity
    <2>2. ASSUME NEW c \in Sock, OnCpu(c)'
          PROVE  ~InWindows(c)'
      BY <1>8, <1>9, <2>2 DEF OneActivity
    <2>3. ASSUME NEW c \in Sock, NEW o \in Operation, NEW p \in Operation,
                 InUse(c, o)', InUse(c, p)'
          PROVE  o = p
      BY <2>3 DEF OneActivity
    <2> QED
      BY <2>1, <2>2, <2>3 DEF OneActivity
  <1>11. InStep'
    <2>1. ASSUME NEW u \in Thread, NEW i \in DOMAIN stack'[u],
                 Carries(u, i, stack[u][i].on)'
          PROVE  /\ HasToDo(stack[u][i].on, stack[u][i].op)'
                 /\ sock'[stack'[u][i].on] = HandleAt(stack'[u][i])
      <3> DEFINE f == stack[u][Was(u, i)]
      <3>1. stack'[u][i] = f /\ Was(u, i) \in DOMAIN stack[u]
        BY <1>5
      <3>2. Carries(u, Was(u, i), f.on)
        BY <1>6, <2>1, <3>1
      <3>3. HasToDo(f.on, f.op) /\ sock[f.on] = HandleAt(f)
        BY <3>1, <3>2 DEF InStep
      <3> QED
        BY <3>1, <3>3 DEF HasToDo
    <2>2. ASSUME NEW c \in Sock, NEW op \in Operation, InUse(c, op)'
          PROVE  HasToDo(c, op)' /\ sock'[c] = HandleDuring(op)
      BY <2>2 DEF InStep, HasToDo
    <2> QED
      BY <2>1, <2>2 DEF InStep
  <1> QED
    BY <1>4, <1>10, <1>11

-----------------------------------------------------------------------------
(* The callbacks of the connection.                                        *)

\* The number of connections with loops to go.
LEMMA LoopsToGo ==
  /\ IsFiniteSet({c \in Sock : nloops[c] < Loops})
  /\ Cardinality({c \in Sock : nloops[c] < Loops}) \in 0 .. Cardinality(Sock)
  /\ Cardinality(Sock) \in Nat
  <1>1. IsFiniteSet(Sock)
    BY ConnectorAssumption
  <1>2. {c \in Sock : nloops[c] < Loops} \in SUBSET Sock
    OBVIOUS
  <1> QED
    BY <1>1, <1>2, FS_Subset, FS_CardinalityType

\* What a callback is called with: c is the connection it acts upon.
LEMMA CallbackOf ==
  ASSUME IInv, NEW t \in Thread, Running(t, "complete")
  PROVE  /\ stack[t] # <<>>
         /\ Carrying(Head(stack[t]))
         /\ On(t) \in Sock
         /\ Op(t) \in Operation
         /\ \A op \in Operation : inflight[On(t)][op] = "none"
         /\ HasToDo(On(t), Op(t))
         /\ sock[On(t)] = IF Op(t) = "disconnect" \/ (Op(t) = "connect" /\ Arg(t) = "error")
                          THEN "closed" ELSE "up"
  <1>1. /\ stack[t] # <<>>
        /\ Carrying(Head(stack[t]))
        /\ Head(stack[t]).call = "complete"
    BY DEF Running, Idle, Carrying
  <1>2. /\ Head(stack[t]) \in Calls
        /\ \A op \in Operation : inflight[On(t)][op] = "none"
        /\ HasToDo(On(t), Op(t))
        /\ sock[On(t)] = HandleAt(Head(stack[t]))
    BY <1>1, Leading DEF IInv
  <1> QED
    BY <1>1, <1>2 DEF On, Op, Arg, HandleAt, Calls

\* connection::connected() preserves the invariant.
LEMMA ConnectedKeeps ==
  ASSUME IInv, NEW t \in Thread, Connected(t)
  PROVE  IInv'
  <1>1. /\ Running(t, "complete") /\ Op(t) = "connect" /\ Arg(t) = "done"
        /\ UNCHANGED <<socketVars, nloops, nrunning, stop_event>>
    BY DEF Connected, Told
  <1>2. PICK c \in Sock :
          /\ c = On(t)
          /\ stack[t] # <<>> /\ Carrying(Head(stack[t]))
          /\ \A op \in Operation : inflight[c][op] = "none"
          /\ HasToDo(c, "connect")
          /\ sock[c] = "up"
    BY <1>1, CallbackOf
  <1>3. /\ ntransfers' = [ntransfers EXCEPT ![c] = 0]
        /\ left' = [left EXCEPT ![c] = Length]
        /\ Replace(t, <<Begin(c, "send")>>)
    BY <1>2 DEF Connected
  <1>4. Begin(c, "send") \in Calls /\ Begin(c, "send").on = c /\ Begin(c, "send").op = "send"
    BY DEF Calls, Begin, Frame, Operation
  <1>5. OthersKept(c)
    BY <1>1, <1>3 DEF OthersKept, socketVars, IInv, TypeOK
  <1>6. HasToDo(c, "send")' /\ sock'[c] = HandleAt(Begin(c, "send"))
    BY <1>1, <1>2, <1>3, ConnectorAssumption
       DEF HasToDo, HandleAt, Begin, Frame, socketVars, IInv, TypeOK
  <1>7. \A op \in Operation : inflight'[c][op] = "none"
    BY <1>1, <1>2 DEF socketVars
  <1>8. stack' \in [Thread -> Seq(Calls)] /\ OneActivity' /\ InStep'
    BY <1>2, <1>3, <1>4, <1>5, <1>6, <1>7, MovedOn DEF IInv
  <1>9. TypeOK'
    BY <1>1, <1>3, <1>8, ConnectorAssumption DEF IInv, TypeOK, SocketTypeOK, socketVars
  <1> QED
    BY <1>1, <1>8, <1>9 DEF IInv, NoBreach, RunningCounted, EventAtZero, socketVars

\* connection::sent(), of a part, preserves the invariant.
LEMMA SentPartKeeps ==
  ASSUME IInv, NEW t \in Thread, SentPart(t)
  PROVE  IInv'
  <1>1. /\ Running(t, "complete") /\ Op(t) = "send" /\ Arg(t) = "done"
        /\ UNCHANGED <<socketVars, ntransfers, nloops, nrunning, stop_event>>
    BY DEF SentPart, Told
  <1>2. PICK c \in Sock :
          /\ c = On(t)
          /\ stack[t] # <<>> /\ Carrying(Head(stack[t]))
          /\ \A op \in Operation : inflight[c][op] = "none"
          /\ HasToDo(c, "send")
          /\ sock[c] = "up"
    BY <1>1, CallbackOf
  <1>3. /\ \E count \in 1 .. left[c] - 1 : left' = [left EXCEPT ![c] = @ - count]
        /\ Replace(t, <<Begin(c, "send")>>)
    BY <1>2 DEF SentPart
  <1>4. Begin(c, "send") \in Calls /\ Begin(c, "send").on = c /\ Begin(c, "send").op = "send"
    BY DEF Calls, Begin, Frame, Operation
  <1>5. OthersKept(c)
    BY <1>1 DEF OthersKept, socketVars
  <1>6. HasToDo(c, "send")' /\ sock'[c] = HandleAt(Begin(c, "send"))
    BY <1>1, <1>2 DEF HasToDo, HandleAt, Begin, Frame, socketVars
  <1>7. \A op \in Operation : inflight'[c][op] = "none"
    BY <1>1, <1>2 DEF socketVars
  <1>8. stack' \in [Thread -> Seq(Calls)] /\ OneActivity' /\ InStep'
    BY <1>2, <1>3, <1>4, <1>5, <1>6, <1>7, MovedOn DEF IInv
  <1>9. left' \in [Sock -> 0 .. Length]
    <2>1. left \in [Sock -> 0 .. Length] /\ Length \in Nat
      BY ConnectorAssumption DEF IInv, TypeOK
    <2>2. PICK count \in 1 .. left[c] - 1 : left' = [left EXCEPT ![c] = left[c] - count]
      BY <1>3
    <2>3. left[c] - count \in 0 .. Length
      BY <2>1, <2>2
    <2> QED
      BY <2>1, <2>2, <2>3
  <1>10. TypeOK'
    BY <1>1, <1>8, <1>9 DEF IInv, TypeOK, SocketTypeOK, socketVars
  <1> QED
    BY <1>1, <1>8, <1>10 DEF IInv, NoBreach, RunningCounted, EventAtZero, socketVars

\* close() puts a cancellation and a disconnect on the stack, of which only
\* the disconnect carries the connection on.
LEMMA CloseInOrder ==
  ASSUME NEW c \in Sock, HasToDo(c, "disconnect")', sock'[c] = "up",
         \A op \in Operation : inflight'[c][op] = "none"
  PROVE  CloseCalls(c) \in Seq(Calls) /\ InOrder(c, CloseCalls(c))
  <1>1. CancelIo(c, "send") \in Calls /\ Begin(c, "disconnect") \in Calls
    BY DEF CancelIo, Begin, Frame, Calls, Operation
  <1>2. /\ CloseCalls(c) \in Seq(Calls)
        /\ DOMAIN CloseCalls(c) = {1, 2}
        /\ CloseCalls(c)[1] = CancelIo(c, "send")
        /\ CloseCalls(c)[2] = Begin(c, "disconnect")
    BY <1>1 DEF CloseCalls
  <1>3. /\ CancelIo(c, "send").on = c /\ ~Carrying(CancelIo(c, "send"))
        /\ Begin(c, "disconnect").on = c /\ Begin(c, "disconnect").op = "disconnect"
        /\ HandleAt(Begin(c, "disconnect")) = "up"
    BY DEF CancelIo, Begin, Frame, Carrying, HandleAt
  <1> QED
    BY <1>2, <1>3 DEF InOrder

\* connection::sent(), of everything, preserves the invariant.
LEMMA SentAllKeeps ==
  ASSUME IInv, NEW t \in Thread, SentAll(t)
  PROVE  IInv'
  <1>1. /\ Running(t, "complete") /\ Op(t) = "send" /\ Arg(t) = "done"
        /\ UNCHANGED <<socketVars, nloops, nrunning, stop_event>>
    BY DEF SentAll, Told
  <1>2. PICK c \in Sock :
          /\ c = On(t)
          /\ stack[t] # <<>> /\ Carrying(Head(stack[t]))
          /\ \A op \in Operation : inflight[c][op] = "none"
          /\ HasToDo(c, "send")
          /\ sock[c] = "up"
    BY <1>1, CallbackOf
  <1>3. PICK again \in BOOLEAN :
          /\ again <=> ntransfers[c] + 1 < Transfers
          /\ ntransfers' = [ntransfers EXCEPT ![c] = @ + 1]
          /\ left' = IF again THEN [left EXCEPT ![c] = Length] ELSE left
          /\ Replace(t, IF again THEN <<Begin(c, "send")>> ELSE CloseCalls(c))
    BY <1>2 DEF SentAll, TransfersAgain
  <1>4. /\ ntransfers[c] + 1 \in 0 .. Transfers
        /\ ntransfers' \in [Sock -> 0 .. Transfers]
        /\ ntransfers'[c] = ntransfers[c] + 1
    BY <1>2, <1>3, ConnectorAssumption DEF HasToDo, IInv, TypeOK
  <1>5. OthersKept(c)
    BY <1>1, <1>3 DEF OthersKept, socketVars, IInv, TypeOK
  <1>6. \A op \in Operation : inflight'[c][op] = "none"
    BY <1>1, <1>2 DEF socketVars
  <1>7. stack' \in [Thread -> Seq(Calls)] /\ OneActivity' /\ InStep'
    <2>1. CASE again
      <3>1. Begin(c, "send") \in Calls /\ Begin(c, "send").on = c /\ Begin(c, "send").op = "send"
        BY DEF Calls, Begin, Frame, Operation
      <3>2. HasToDo(c, "send")' /\ sock'[c] = HandleAt(Begin(c, "send"))
        BY <1>1, <1>2, <1>3, <1>4, <2>1 DEF HasToDo, HandleAt, Begin, Frame, socketVars
      <3>3. Replace(t, <<Begin(c, "send")>>)
        BY <1>3, <2>1
      <3> QED
        BY <1>2, <1>5, <1>6, <3>1, <3>2, <3>3, MovedOn DEF IInv
    <2>2. CASE ~again
      <3>1. HasToDo(c, "disconnect")' /\ sock'[c] = "up"
        BY <1>1, <1>2 DEF HasToDo, socketVars
      <3>2. CloseCalls(c) \in Seq(Calls) /\ InOrder(c, CloseCalls(c))
        BY <1>6, <3>1, CloseInOrder
      <3>3. Replace(t, CloseCalls(c))
        BY <1>3, <2>2
      <3> QED
        BY <1>2, <1>5, <3>2, <3>3, Moved DEF IInv
    <2> QED
      BY <2>1, <2>2
  <1>8. left' \in [Sock -> 0 .. Length]
    BY <1>3, ConnectorAssumption DEF IInv, TypeOK
  <1>9. TypeOK'
    BY <1>1, <1>4, <1>7, <1>8 DEF IInv, TypeOK, SocketTypeOK, socketVars
  <1> QED
    BY <1>1, <1>7, <1>9 DEF IInv, NoBreach, RunningCounted, EventAtZero, socketVars

\* connection::complete() of a failed send, which closes, preserves the
\* invariant.
LEMMA SendFailedKeeps ==
  ASSUME IInv, NEW t \in Thread, SendFailed(t)
  PROVE  IInv'
  <1>1. /\ Running(t, "complete") /\ Op(t) = "send" /\ Arg(t) = "error"
        /\ UNCHANGED <<socketVars, ownVars>>
    BY DEF SendFailed, Told
  <1>2. PICK c \in Sock :
          /\ c = On(t)
          /\ stack[t] # <<>> /\ Carrying(Head(stack[t]))
          /\ \A op \in Operation : inflight[c][op] = "none"
          /\ HasToDo(c, "send")
          /\ sock[c] = "up"
    BY <1>1, CallbackOf
  <1>3. Replace(t, CloseCalls(c))
    BY <1>2 DEF SendFailed
  <1>4. OthersKept(c)
    BY <1>1 DEF OthersKept, socketVars, ownVars
  <1>5. HasToDo(c, "disconnect")' /\ sock'[c] = "up"
    BY <1>1, <1>2 DEF HasToDo, socketVars, ownVars
  <1>6. \A op \in Operation : inflight'[c][op] = "none"
    BY <1>1, <1>2 DEF socketVars
  <1>7. CloseCalls(c) \in Seq(Calls) /\ InOrder(c, CloseCalls(c))
    BY <1>5, <1>6, CloseInOrder
  <1>8. stack' \in [Thread -> Seq(Calls)] /\ OneActivity' /\ InStep'
    BY <1>2, <1>3, <1>4, <1>7, Moved DEF IInv
  <1>9. TypeOK'
    BY <1>1, <1>8 DEF IInv, TypeOK, SocketTypeOK, socketVars, ownVars
  <1> QED
    BY <1>1, <1>8, <1>9 DEF IInv, NoBreach, RunningCounted, EventAtZero, socketVars, ownVars

\* connection::complete() where it does nothing preserves the invariant.
LEMMA IgnoredKeeps ==
  ASSUME IInv, NEW t \in Thread, Ignored(t)
  PROVE  IInv'
  <1>1. Running(t, "complete") /\ Return(t) /\ UNCHANGED <<socketVars, ownVars>>
    BY DEF Ignored
  <1>2. PICK c \in Sock :
          /\ c = On(t)
          /\ stack[t] # <<>> /\ Carrying(Head(stack[t]))
          /\ \A op \in Operation : inflight[c][op] = "none"
    BY <1>1, CallbackOf
  <1>3. <<>> \in Seq(Calls) /\ Replace(t, <<>>) /\ InOrder(c, <<>>)
    BY <1>1, <1>2 DEF Return, InOrder, socketVars
  <1>4. OthersKept(c)
    BY <1>1 DEF OthersKept, socketVars, ownVars
  <1>5. stack' \in [Thread -> Seq(Calls)] /\ OneActivity' /\ InStep'
    BY <1>2, <1>3, <1>4, Moved DEF IInv
  <1>6. TypeOK'
    BY <1>1, <1>5 DEF IInv, TypeOK, SocketTypeOK, socketVars, ownVars
  <1> QED
    BY <1>1, <1>5, <1>6 DEF IInv, NoBreach, RunningCounted, EventAtZero, socketVars, ownVars

\* connection::disconnected() preserves the invariant: when the last loop of
\* c ends, nrunning and the set of the connections it counts lose one.
LEMMA DisconnectedKeeps ==
  ASSUME IInv, NEW t \in Thread, Disconnected(t)
  PROVE  IInv'
  <1>1. /\ Running(t, "complete") /\ Op(t) = "disconnect"
        /\ UNCHANGED <<socketVars, ntransfers, left>>
    BY DEF Disconnected, Told
  <1>2. PICK c \in Sock :
          /\ c = On(t)
          /\ stack[t] # <<>> /\ Carrying(Head(stack[t]))
          /\ \A op \in Operation : inflight[c][op] = "none"
          /\ HasToDo(c, "disconnect")
          /\ sock[c] = "closed"
    BY <1>1, CallbackOf
  <1>3. nloops' = [nloops EXCEPT ![c] = @ + 1]
    BY <1>2 DEF Disconnected
  <1>4. /\ nloops[c] < Loops
        /\ nloops' \in [Sock -> 0 .. Loops]
        /\ nloops'[c] = nloops[c] + 1
        /\ nloops[c] + 1 <= Loops
    BY <1>2, <1>3, ConnectorAssumption DEF HasToDo, IInv, TypeOK
  <1>5. OthersKept(c)
    BY <1>1, <1>3 DEF OthersKept, socketVars, IInv, TypeOK
  <1>6. \A op \in Operation : inflight'[c][op] = "none"
    BY <1>1, <1>2 DEF socketVars
  <1> DEFINE Going == {d \in Sock : nloops[d] < Loops}
  <1>7. CASE nloops'[c] < Loops
    <2>1. Replace(t, <<Begin(c, "connect")>>) /\ UNCHANGED <<nrunning, stop_event>>
      BY <1>2, <1>7 DEF Disconnected, LoopsAgain
    <2>2. /\ Begin(c, "connect") \in Calls
          /\ Begin(c, "connect").on = c
          /\ Begin(c, "connect").op = "connect"
      BY DEF Calls, Begin, Frame, Operation
    <2>3. HasToDo(c, "connect")' /\ sock'[c] = HandleAt(Begin(c, "connect"))
      BY <1>1, <1>2, <1>7 DEF HasToDo, HandleAt, Begin, Frame, socketVars
    <2>4. stack' \in [Thread -> Seq(Calls)] /\ OneActivity' /\ InStep'
      BY <1>2, <1>5, <1>6, <2>1, <2>2, <2>3, MovedOn DEF IInv
    <2>5. TypeOK'
      BY <1>1, <1>4, <2>1, <2>4 DEF IInv, TypeOK, SocketTypeOK, socketVars
    <2>6. {d \in Sock : nloops'[d] < Loops} = Going
      BY <1>3, <1>4, <1>7 DEF IInv, TypeOK
    <2>7. RunningCounted'
      BY <2>1, <2>6 DEF IInv, RunningCounted
    <2> QED
      BY <1>1, <2>1, <2>4, <2>5, <2>7 DEF IInv, NoBreach, EventAtZero, socketVars
  <1>8. CASE ~(nloops'[c] < Loops)
    <2>1. /\ Return(t)
          /\ nrunning' = nrunning - 1
          /\ stop_event' = (stop_event \/ nrunning' = 0)
      BY <1>2, <1>8 DEF Disconnected, LoopsAgain, LastOne
    <2>2. <<>> \in Seq(Calls) /\ Replace(t, <<>>) /\ InOrder(c, <<>>)
      BY <1>6, <2>1 DEF Return, InOrder
    <2>3. stack' \in [Thread -> Seq(Calls)] /\ OneActivity' /\ InStep'
      BY <1>2, <1>5, <2>2, Moved DEF IInv
    <2>4. {d \in Sock : nloops'[d] < Loops} = Going \ {c}
      BY <1>3, <1>4, <1>8 DEF IInv, TypeOK
    <2>5. c \in Going /\ IsFiniteSet(Going) /\ Cardinality(Going) \in 0 .. Cardinality(Sock)
      BY <1>4, LoopsToGo
    <2>6. Cardinality(Going \ {c}) = Cardinality(Going) - 1
      BY <2>5, FS_RemoveElement
    <2>7. Cardinality(Going) - 1 \in 0 .. Cardinality(Sock)
      <3>1. IsFiniteSet(Going \ {c}) /\ Cardinality(Going \ {c}) \in Nat
        BY <2>5, FS_RemoveElement, FS_CardinalityType
      <3> QED
        BY <2>5, <2>6, <3>1, LoopsToGo
    <2>8. nrunning = Cardinality(Going)
      BY DEF IInv, RunningCounted
    <2>9. RunningCounted'
      BY <2>1, <2>4, <2>6, <2>8 DEF RunningCounted
    <2>10. nrunning' \in 0 .. Cardinality(Sock)
      BY <2>1, <2>7, <2>8
    <2>11. stop_event' \in BOOLEAN
      BY <2>1
    <2>12. TypeOK'
      BY <1>1, <1>4, <2>3, <2>10, <2>11 DEF IInv, TypeOK, SocketTypeOK, socketVars
    <2>13. EventAtZero'
      <3>1. nrunning # 0
        BY <2>6, <2>7, <2>8, LoopsToGo
      <3> QED
        BY <2>1, <3>1 DEF IInv, EventAtZero
    <2> QED
      BY <1>1, <2>3, <2>9, <2>12, <2>13 DEF IInv, NoBreach, socketVars
  <1> QED
    BY <1>7, <1>8

-----------------------------------------------------------------------------
(* The operations of the socket.                                           *)

\* What an operation is started for: connection c, which needs it.
LEMMA StartOf ==
  ASSUME IInv, NEW t \in Thread, Running(t, "begin")
  PROVE  /\ stack[t] # <<>>
         /\ Carrying(Head(stack[t]))
         /\ On(t) \in Sock
         /\ Op(t) \in {"connect", "send", "disconnect"}
         /\ \A op \in Operation : inflight[On(t)][op] = "none"
         /\ HasToDo(On(t), Op(t))
         /\ sock[On(t)] = IF Op(t) = "connect" THEN "closed" ELSE "up"
         /\ Misuse(On(t), Op(t)) = "none"
  <1>1. /\ stack[t] # <<>>
        /\ Carrying(Head(stack[t]))
        /\ Head(stack[t]).call = "begin"
    BY DEF Running, Idle, Carrying
  <1>2. /\ Head(stack[t]) \in Calls
        /\ \A op \in Operation : inflight[On(t)][op] = "none"
        /\ HasToDo(On(t), Op(t))
        /\ sock[On(t)] = HandleAt(Head(stack[t]))
    BY <1>1, Leading DEF IInv
  <1>3. /\ On(t) \in Sock
        /\ Op(t) \in {"connect", "send", "disconnect"}
        /\ sock[On(t)] = IF Op(t) = "connect" THEN "closed" ELSE "up"
    BY <1>1, <1>2 DEF On, Op, HandleAt, HasToDo, Calls
  <1>4. ~ \E o \in IF Op(t) \in Establishing THEN Establishing ELSE {Op(t)} : InUse(On(t), o)
    BY <1>2, <1>3 DEF InUse, Operation, Establishing
  <1>5. Misuse(On(t), Op(t)) = "none"
    BY <1>3, <1>4 DEF Misuse, Establishing
  <1> QED
    BY <1>1, <1>2, <1>3, <1>5

\* What the thread may still have to do once Windows has operation op of c:
\* the late write of io_pending carries nothing on.
LEMMA MarkInOrder ==
  ASSUME NEW c \in Sock, NEW op \in Operation,
         HasToDo(c, op)', sock'[c] = HandleDuring(op),
         \A o \in Operation : inflight'[c][o] # "none" => o = op
  PROVE  Mark(c, op) \in Seq(Calls) /\ InOrder(c, Mark(c, op))
  <1>1. CASE op \in Tracked
    <2> DEFINE f == Frame("io_pending", c, op, "none")
    <2>1. f \in Calls /\ f.on = c /\ ~Carrying(f)
      BY DEF Calls, Frame, Carrying
    <2>2. Mark(c, op) = <<f>>
      BY <1>1 DEF Mark
    <2> HIDE DEF f
    <2>3. <<f>> \in Seq(Calls) /\ InOrder(c, <<f>>)
      BY <2>1 DEF InOrder
    <2> QED
      BY <2>2, <2>3
  <1>2. CASE op \notin Tracked
    <2>1. Mark(c, op) = <<>>
      BY <1>2 DEF Mark
    <2>2. <<>> \in Seq(Calls) /\ InOrder(c, <<>>)
      BY DEF InOrder
    <2> QED
      BY <2>1, <2>2
  <1> QED
    BY <1>1, <1>2

\* socket::connect() preserves the invariant.
LEMMA EstablishKeeps ==
  ASSUME IInv, NEW t \in Thread, Establish(t, {"done", "error"}), UNCHANGED ownVars
  PROVE  IInv'
  <1>1. /\ Running(t, "begin") /\ Op(t) \in Establishing
        /\ UNCHANGED <<io_pending, fault>> /\ UNCHANGED ownVars
    BY DEF Establish, Starts
  <1>2. PICK c \in Sock :
          /\ c = On(t)
          /\ stack[t] # <<>> /\ Carrying(Head(stack[t]))
          /\ \A op \in Operation : inflight[c][op] = "none"
          /\ HasToDo(c, "connect")
          /\ sock[c] = "closed"
          /\ Op(t) = "connect"
    BY <1>1, StartOf DEF Establishing
  <1>3. /\ sock \in [Sock -> Handle] /\ inflight \in [Sock -> [Operation -> Flight]]
        /\ "connect" \in Operation
    BY DEF IInv, TypeOK, SocketTypeOK, Operation
  <1>4. HasToDo(c, "connect")'
    BY <1>1, <1>2 DEF HasToDo, ownVars
  <1>5. SUFFICES /\ sock' \in [Sock -> Handle] /\ inflight' \in [Sock -> [Operation -> Flight]]
                 /\ stack' \in [Thread -> Seq(Calls)] /\ OneActivity' /\ InStep'
    BY <1>1 DEF IInv, TypeOK, SocketTypeOK, NoBreach, RunningCounted, EventAtZero, ownVars
  <1>6. ASSUME NEW r \in {"done", "error"},
               Replace(t, <<Complete(c, "connect", r)>>), UNCHANGED inflight,
               sock' = [sock EXCEPT ![c] = IF r = "done" THEN "up" ELSE "closed"]
        PROVE  /\ sock' \in [Sock -> Handle] /\ inflight' \in [Sock -> [Operation -> Flight]]
               /\ stack' \in [Thread -> Seq(Calls)] /\ OneActivity' /\ InStep'
    <2> DEFINE f == Complete(c, "connect", r)
    <2>1. f \in Calls /\ f.on = c /\ f.op = "connect"
      BY DEF Calls, Complete, Frame, Operation, Outcome
    <2>2. sock'[c] = HandleAt(f) /\ sock' \in [Sock -> Handle]
      BY <1>3, <1>6 DEF HandleAt, Complete, Frame, Handle
    <2>3. OthersKept(c)
      BY <1>1, <1>3, <1>6 DEF OthersKept, ownVars
    <2>4. \A op \in Operation : inflight'[c][op] = "none"
      BY <1>2, <1>6
    <2> HIDE DEF f
    <2>5. Replace(t, <<f>>)
      BY <1>6 DEF f
    <2> QED
      BY <1>2, <1>3, <1>4, <1>6, <2>1, <2>2, <2>3, <2>4, <2>5, MovedOn DEF IInv
  <1>7. CASE /\ sock' = [sock EXCEPT ![On(t)] = "up"]
             /\ AtOnce(t, "done")
             /\ UNCHANGED inflight
    BY <1>2, <1>6, <1>7 DEF AtOnce
  <1>8. CASE AtOnce(t, "error") /\ UNCHANGED <<sock, inflight>>
    <2>1. sock' = [sock EXCEPT ![c] = "closed"]
      BY <1>2, <1>3, <1>8
    <2> QED
      BY <1>2, <1>6, <1>8, <2>1 DEF AtOnce
  <1>9. CASE sock' = [sock EXCEPT ![On(t)] = "fresh"] /\ Pending(t)
    <2>1. /\ sock' = [sock EXCEPT ![c] = "fresh"]
          /\ inflight' = [inflight EXCEPT ![c]["connect"] = "active"]
          /\ Replace(t, Mark(c, "connect"))
      BY <1>2, <1>9 DEF Pending
    <2>2. /\ sock' \in [Sock -> Handle] /\ inflight' \in [Sock -> [Operation -> Flight]]
          /\ sock'[c] = HandleDuring("connect")
      BY <1>3, <2>1 DEF Handle, Flight, HandleDuring
    <2>3. \A op \in Operation : inflight'[c][op] # "none" => op = "connect"
      BY <1>2, <1>3, <2>1
    <2>4. Mark(c, "connect") \in Seq(Calls) /\ InOrder(c, Mark(c, "connect"))
      BY <1>3, <1>4, <2>2, <2>3, MarkInOrder
    <2>5. OthersKept(c)
      BY <1>1, <1>3, <2>1 DEF OthersKept, ownVars
    <2> QED
      BY <1>2, <2>1, <2>2, <2>4, <2>5, Moved DEF IInv
  <1> QED
    BY <1>7, <1>8, <1>9 DEF Establish

\* socket::send() preserves the invariant.
LEMMA TransferKeeps ==
  ASSUME IInv, NEW t \in Thread, Transfer(t), UNCHANGED ownVars
  PROVE  IInv'
  <1>1. /\ Running(t, "begin") /\ Op(t) \in {"receive", "send"}
        /\ UNCHANGED <<sock, io_pending, fault>> /\ UNCHANGED ownVars
    BY DEF Transfer, Starts
  <1>2. PICK c \in Sock :
          /\ c = On(t)
          /\ stack[t] # <<>> /\ Carrying(Head(stack[t]))
          /\ \A op \in Operation : inflight[c][op] = "none"
          /\ HasToDo(c, "send")
          /\ sock[c] = "up"
          /\ Op(t) = "send"
    BY <1>1, StartOf
  <1>3. /\ inflight \in [Sock -> [Operation -> Flight]]
        /\ "send" \in Operation
    BY DEF IInv, TypeOK, SocketTypeOK, Operation
  <1>4. HasToDo(c, "send")'
    BY <1>1, <1>2 DEF HasToDo, ownVars
  <1>5. SUFFICES /\ inflight' \in [Sock -> [Operation -> Flight]]
                 /\ stack' \in [Thread -> Seq(Calls)] /\ OneActivity' /\ InStep'
    BY <1>1 DEF IInv, TypeOK, SocketTypeOK, NoBreach, RunningCounted, EventAtZero, ownVars
  <1>6. CASE (AtOnce(t, "error") \/ AtOnce(t, "done")) /\ UNCHANGED inflight
    <2>1. PICK r \in {"done", "error"} : Replace(t, <<Complete(c, "send", r)>>)
      BY <1>2, <1>6 DEF AtOnce
    <2> DEFINE f == Complete(c, "send", r)
    <2>2. f \in Calls /\ f.on = c /\ f.op = "send"
      BY DEF Calls, Complete, Frame, Operation, Outcome
    <2>3. sock'[c] = HandleAt(f)
      BY <1>1, <1>2 DEF HandleAt, Complete, Frame
    <2>4. OthersKept(c)
      BY <1>1, <1>6 DEF OthersKept, ownVars
    <2>5. \A op \in Operation : inflight'[c][op] = "none"
      BY <1>2, <1>6
    <2>6. Replace(t, <<f>>)
      BY <2>1
    <2> HIDE DEF f
    <2> QED
      BY <1>2, <1>3, <1>4, <1>6, <2>2, <2>3, <2>4, <2>5, <2>6, MovedOn DEF IInv
  <1>7. CASE Pending(t)
    <2>1. /\ inflight' = [inflight EXCEPT ![c]["send"] = "active"]
          /\ Replace(t, Mark(c, "send"))
      BY <1>2, <1>7 DEF Pending
    <2>2. /\ inflight' \in [Sock -> [Operation -> Flight]]
          /\ sock'[c] = HandleDuring("send")
      BY <1>1, <1>2, <1>3, <2>1 DEF Flight, HandleDuring
    <2>3. \A op \in Operation : inflight'[c][op] # "none" => op = "send"
      BY <1>2, <1>3, <2>1
    <2>4. Mark(c, "send") \in Seq(Calls) /\ InOrder(c, Mark(c, "send"))
      BY <1>3, <1>4, <2>2, <2>3, MarkInOrder
    <2>5. OthersKept(c)
      BY <1>1, <1>3, <2>1 DEF OthersKept, ownVars
    <2> QED
      BY <1>2, <2>1, <2>2, <2>4, <2>5, Moved DEF IInv
  <1> QED
    BY <1>6, <1>7 DEF Transfer

\* socket::disconnect() preserves the invariant.
LEMMA DisconnectKeeps ==
  ASSUME IInv, NEW t \in Thread, Disconnect(t), UNCHANGED ownVars
  PROVE  IInv'
  <1>1. /\ Running(t, "begin") /\ Op(t) = "disconnect"
        /\ UNCHANGED <<io_pending, fault>> /\ UNCHANGED ownVars
    BY DEF Disconnect, Starts
  <1>2. PICK c \in Sock :
          /\ c = On(t)
          /\ stack[t] # <<>> /\ Carrying(Head(stack[t]))
          /\ \A op \in Operation : inflight[c][op] = "none"
          /\ HasToDo(c, "disconnect")
          /\ sock[c] = "up"
    BY <1>1, StartOf
  <1>3. /\ sock \in [Sock -> Handle] /\ inflight \in [Sock -> [Operation -> Flight]]
        /\ "disconnect" \in Operation
    BY DEF IInv, TypeOK, SocketTypeOK, Operation
  <1>4. HasToDo(c, "disconnect")'
    BY <1>1, <1>2 DEF HasToDo, ownVars
  <1>5. SUFFICES /\ sock' \in [Sock -> Handle] /\ inflight' \in [Sock -> [Operation -> Flight]]
                 /\ stack' \in [Thread -> Seq(Calls)] /\ OneActivity' /\ InStep'
    BY <1>1 DEF IInv, TypeOK, SocketTypeOK, NoBreach, RunningCounted, EventAtZero, ownVars
  <1>6. CASE (AtOnce(t, "error") \/ AtOnce(t, "done")) /\ Shut(c)
    <2>1. PICK r \in {"done", "error"} : Replace(t, <<Complete(c, "disconnect", r)>>)
      BY <1>1, <1>2, <1>6 DEF AtOnce
    <2> DEFINE f == Complete(c, "disconnect", r)
    <2>2. f \in Calls /\ f.on = c /\ f.op = "disconnect"
      BY DEF Calls, Complete, Frame, Operation, Outcome
    <2>3. /\ sock' = [sock EXCEPT ![c] = "closed"]
          /\ inflight' = [inflight EXCEPT ![c] = Doom(inflight[c])]
      BY <1>6 DEF Shut
    <2>4. Doom(inflight[c]) = [op \in Operation |-> "none"]
      BY <1>2 DEF Doom
    <2>5. /\ sock' \in [Sock -> Handle] /\ inflight' \in [Sock -> [Operation -> Flight]]
          /\ \A op \in Operation : inflight'[c][op] = "none"
      BY <1>3, <2>3, <2>4 DEF Handle, Flight
    <2>6. sock'[c] = HandleAt(f)
      BY <1>3, <2>3 DEF HandleAt, Complete, Frame
    <2>7. OthersKept(c)
      BY <1>1, <1>3, <2>3 DEF OthersKept, ownVars
    <2>8. Replace(t, <<f>>)
      BY <2>1
    <2> HIDE DEF f
    <2> QED
      BY <1>2, <1>4, <2>2, <2>5, <2>6, <2>7, <2>8, MovedOn DEF IInv
  <1>7. CASE sock' = [sock EXCEPT ![On(t)] = "down"] /\ Pending(t)
    <2>1. /\ sock' = [sock EXCEPT ![c] = "down"]
          /\ inflight' = [inflight EXCEPT ![c]["disconnect"] = "active"]
          /\ Replace(t, Mark(c, "disconnect"))
      BY <1>1, <1>2, <1>7 DEF Pending
    <2>2. /\ sock' \in [Sock -> Handle] /\ inflight' \in [Sock -> [Operation -> Flight]]
          /\ sock'[c] = HandleDuring("disconnect")
      BY <1>3, <2>1 DEF Handle, Flight, HandleDuring
    <2>3. \A op \in Operation : inflight'[c][op] # "none" => op = "disconnect"
      BY <1>2, <1>3, <2>1
    <2>4. Mark(c, "disconnect") \in Seq(Calls) /\ InOrder(c, Mark(c, "disconnect"))
      BY <1>3, <1>4, <2>2, <2>3, MarkInOrder
    <2>5. OthersKept(c)
      BY <1>1, <1>3, <2>1 DEF OthersKept, ownVars
    <2> QED
      BY <1>2, <2>1, <2>2, <2>4, <2>5, Moved DEF IInv
  <1> QED
    BY <1>2, <1>6, <1>7 DEF Disconnect

\* socket::cancel() and the late write of io_pending preserve the invariant:
\* neither carries a connection on.
LEMMA CancelKeeps ==
  ASSUME IInv, NEW t \in Thread, Cancel(t) \/ SetIoPending(t), UNCHANGED ownVars
  PROVE  IInv'
  <1>1. /\ stack[t] # <<>> /\ ~Carrying(Head(stack[t])) /\ Return(t)
        /\ UNCHANGED <<sock, fault>> /\ UNCHANGED ownVars
    BY DEF Cancel, SetIoPending, Running, Idle, Carrying
  <1>2. inflight \in [Sock -> [Operation -> Flight]]
    BY DEF IInv, TypeOK, SocketTypeOK
  <1>3. /\ inflight' \in [Sock -> [Operation -> Flight]]
        /\ \A c \in Sock, op \in Operation : InUse(c, op)' <=> InUse(c, op)
    <2>1. CASE UNCHANGED inflight
      BY <1>2, <2>1 DEF InUse
    <2>2. CASE /\ inflight[On(t)][Op(t)] = "active"
               /\ inflight' = [inflight EXCEPT ![On(t)][Op(t)] = "doomed"]
      BY <1>2, <2>2 DEF InUse, Flight
    <2> QED
      BY <2>1, <2>2 DEF Cancel, SetIoPending
  <1>4. io_pending' \in [Sock -> [Tracked -> BOOLEAN]]
    <2>1. io_pending \in [Sock -> [Tracked -> BOOLEAN]]
      BY DEF IInv, TypeOK, SocketTypeOK
    <2>2. CASE UNCHANGED io_pending
      BY <2>1, <2>2
    <2>3. CASE io_pending' = [io_pending EXCEPT ![On(t)][Op(t)] = TRUE]
      BY <2>1, <2>3
    <2> QED
      BY <2>2, <2>3 DEF Cancel, SetIoPending
  <1>5. stack' \in [Thread -> Seq(Calls)] /\ OneActivity' /\ InStep'
    BY <1>1, <1>3, Dropped DEF IInv, ownVars
  <1> QED
    BY <1>1, <1>3, <1>4, <1>5
       DEF IInv, TypeOK, SocketTypeOK, NoBreach, RunningCounted, EventAtZero, ownVars

-----------------------------------------------------------------------------
(* The completion callback, and all the steps together.                    *)

\* io_completion_callback() preserves the invariant: the operation it ends is
\* all that goes on with connection s.
LEMMA CompletionKeeps ==
  ASSUME IInv, NEW t \in Pool, NEW s \in Sock, NEW op \in Operation, NEW r \in Outcome,
         Deliver(t, s, op, r), UNCHANGED ownVars
  PROVE  IInv'
  <1>1. InUse(s, op) /\ r \in Outcomes(s, op) /\ UNCHANGED ownVars
    BY DEF Deliver
  <1>2. /\ HasToDo(s, op)
        /\ op \in {"connect", "send", "disconnect"}
        /\ sock[s] = HandleDuring(op)
        /\ ~OnCpu(s)
        /\ \A o \in Operation : o # op => inflight[s][o] = "none"
    BY <1>1 DEF IInv, InStep, OneActivity, HasToDo, InWindows, InUse
  <1>3. /\ sock \in [Sock -> Handle] /\ inflight \in [Sock -> [Operation -> Flight]]
        /\ io_pending \in [Sock -> [Tracked -> BOOLEAN]]
        /\ stack \in [Thread -> Seq(Calls)]
        /\ t \in Thread
    BY DEF IInv, TypeOK, SocketTypeOK, Thread
  <1> DEFINE f == Complete(s, op, r)
             closes == op = "disconnect" \/ (op = "connect" /\ r = "error")
             landed == [inflight[s] EXCEPT ![op] = "none"]
  <1>4. landed = [o \in Operation |-> "none"] /\ Doom(landed) = landed
    BY <1>2, <1>3 DEF Doom
  <1>5. /\ sock' = [sock EXCEPT ![s] = IF closes THEN "closed"
                                       ELSE IF op = "connect" THEN "up" ELSE sock[s]]
        /\ inflight' = [inflight EXCEPT ![s] = landed]
        /\ stack[t] = <<>>
        /\ stack' = [stack EXCEPT ![t] = <<f>>]
    BY <1>2, <1>4 DEF Deliver, Establishing, Start, Idle
  <1>6. io_pending' \in [Sock -> [Tracked -> BOOLEAN]]
    BY <1>3 DEF Deliver
  <1>7. fault' = fault
    BY <1>2 DEF Deliver, Establishing, HandleDuring
  <1>8. /\ sock' \in [Sock -> Handle] /\ inflight' \in [Sock -> [Operation -> Flight]]
        /\ \A o \in Operation : inflight'[s][o] = "none"
    BY <1>3, <1>4, <1>5 DEF Handle, Flight
  <1>9. sock'[s] = HandleAt(f)
    BY <1>2, <1>3, <1>5 DEF HandleAt, HandleDuring, Complete, Frame
  <1>10. f \in Calls /\ f.on = s /\ f.op = op
    BY DEF Calls, Complete, Frame
  <1>11. OthersKept(s)
    BY <1>1, <1>3, <1>5 DEF OthersKept, ownVars
  <1>12. HasToDo(s, op)'
    BY <1>1, <1>2 DEF HasToDo, ownVars
  <1> HIDE DEF f
  <1>13. <<f>> \in Seq(Calls) /\ InOrder(s, <<f>>)
    BY <1>8, <1>9, <1>10, <1>12 DEF InOrder
  <1>14. <<>> \in Seq(Calls) /\ Without(t, s, <<>>, 0) /\ <<f>> \o <<>> = <<f>>
    BY <1>2, <1>10 DEF Without, OnCpu
  <1>15. stack' \in [Thread -> Seq(Calls)] /\ OneActivity' /\ InStep'
    BY <1>3, <1>5, <1>11, <1>13, <1>14, Placed DEF IInv
  <1> QED
    BY <1>1, <1>6, <1>7, <1>8, <1>15
       DEF IInv, TypeOK, SocketTypeOK, NoBreach, RunningCounted, EventAtZero, ownVars

\* connections::create() establishes the invariant: main() has one call for
\* each connection, and nothing has begun.
LEMMA InitEstablishes == Init => IInv
  <1> SUFFICES ASSUME Init PROVE IInv
    OBVIOUS
  <1> DEFINE N == Cardinality(Sock)
  <1>1. N \in Nat /\ Sock = 1 .. N
    BY ConnectorAssumption, FS_CardinalityType
  <1>2. \A c \in Sock : Begin(c, "connect") \in Calls
    BY DEF Begin, Frame, Calls, Operation
  <1>3. [c \in Sock |-> Begin(c, "connect")] \in Seq(Calls)
    BY <1>1, <1>2
  <1>4. stack \in [Thread -> Seq(Calls)]
    BY <1>3 DEF Init
  <1>5. \A t \in Thread : \A i \in DOMAIN stack[t] :
          t = Main /\ i \in Sock /\ stack[t][i] = Begin(i, "connect")
    BY DEF Init
  <1>6. \A c \in Sock, op \in Operation : ~InUse(c, op)
    BY DEF Init, SocketInit, InUse
  <1>7. OneActivity
    <2>1. ASSUME NEW t \in Thread, NEW i \in DOMAIN stack[t], NEW c \in Sock,
                 Carries(t, i, c)
          PROVE  i = c
      <3>1. stack[t][i] = Begin(i, "connect") /\ Begin(i, "connect").on = i
        BY <1>5 DEF Begin, Frame
      <3> QED
        BY <2>1, <3>1 DEF Carries
    <2>2. ASSUME NEW c \in Sock, NEW t \in Thread, NEW u \in Thread,
                 NEW i \in DOMAIN stack[t], NEW j \in DOMAIN stack[u],
                 Carries(t, i, c), Carries(u, j, c)
          PROVE  t = u /\ i = j
      BY <1>5, <2>1, <2>2
    <2>3. \A c \in Sock : ~InWindows(c)
      BY <1>6 DEF InWindows
    <2> QED
      BY <1>6, <2>2, <2>3 DEF OneActivity
  <1>8. InStep
    <2>1. \A c \in Sock : HasToDo(c, "connect") /\ sock[c] = HandleAt(Begin(c, "connect"))
      BY ConnectorAssumption DEF Init, SocketInit, HasToDo, HandleAt, Begin, Frame
    <2>2. \A c \in Sock : Begin(c, "connect").on = c /\ Begin(c, "connect").op = "connect"
      BY DEF Begin, Frame
    <2> QED
      BY <1>5, <1>6, <2>1, <2>2 DEF InStep
  <1>9. RunningCounted
    <2>1. {c \in Sock : nloops[c] < Loops} = Sock
      BY ConnectorAssumption DEF Init
    <2> QED
      BY <2>1 DEF Init, RunningCounted
  <1>10. SocketTypeOK
    BY DEF Init, SocketInit, SocketTypeOK, Handle, Flight, Fault
  <1>11. nrunning \in 0 .. Cardinality(Sock)
    BY <1>1 DEF Init
  <1>12. TypeOK
    <2>1. Transfers \in Nat /\ Loops \in Nat /\ Length \in Nat
      BY ConnectorAssumption
    <2>2. 0 \in 0 .. Transfers /\ 0 \in 0 .. Loops /\ 0 \in 0 .. Length
      BY <2>1
    <2>3. /\ ntransfers \in [Sock -> 0 .. Transfers]
          /\ nloops \in [Sock -> 0 .. Loops]
          /\ left \in [Sock -> 0 .. Length]
          /\ stop_event \in BOOLEAN
      BY <2>2 DEF Init
    <2> QED
      BY <1>4, <1>10, <1>11, <2>3 DEF TypeOK
  <1> QED
    BY <1>7, <1>8, <1>9, <1>12 DEF IInv, NoBreach, EventAtZero, Init, SocketInit

\* Every step of the program preserves the invariant.
LEMMA NextKeeps == IInv /\ [Next]_vars => IInv'
  <1> SUFFICES ASSUME IInv, [Next]_vars PROVE IInv'
    OBVIOUS
  <1>1. ASSUME NEW t \in Thread, Callback(t)
        PROVE  IInv'
    BY <1>1, ConnectedKeeps, SentPartKeeps, SentAllKeeps, SendFailedKeeps,
       DisconnectedKeeps, IgnoredKeeps DEF Callback
  <1>2. ASSUME NEW t \in Thread, Operate(t)
        PROVE  IInv'
    <2>1. ~MisusedStart(t)
      BY StartOf DEF MisusedStart
    <2>2. UNCHANGED ownVars
      BY <1>2 DEF Operate
    <2>3. \/ Establish(t, {"done", "error"})
          \/ Transfer(t)
          \/ Disconnect(t)
          \/ Cancel(t) \/ SetIoPending(t)
      BY <1>2, <2>1 DEF Operate
    <2> QED
      BY <2>2, <2>3, EstablishKeeps, TransferKeeps, DisconnectKeeps, CancelKeeps
  <1>3. ASSUME NEW t \in Pool, NEW s \in Sock, NEW op \in Operation, NEW r \in Outcome,
               Completion(t, s, op, r)
        PROVE  IInv'
    BY <1>3, CompletionKeeps DEF Completion
  <1>4. CASE UNCHANGED vars
    <2>1. UNCHANGED <<stack, sock, io_pending, inflight, fault>>
          /\ UNCHANGED <<ntransfers, nloops, left, nrunning, stop_event>>
      BY <1>4 DEF vars, socketVars, ownVars
    <2>2. TypeOK'
      BY <2>1 DEF IInv, TypeOK, SocketTypeOK
    <2>3. OneActivity'
      BY <2>1 DEF IInv, OneActivity, OnCpu, InWindows, InUse, Carries
    <2>4. InStep'
      BY <2>1 DEF IInv, InStep, InUse, Carries, HasToDo
    <2> QED
      BY <2>1, <2>2, <2>3, <2>4 DEF IInv, NoBreach, RunningCounted, EventAtZero
  <1> QED
    BY <1>1, <1>2, <1>3, <1>4 DEF Next, Execute

-----------------------------------------------------------------------------
(* Theorems.                                                               *)

\* The invariant of the connector.
THEOREM Invariant == Spec => []IInv
  BY InitEstablishes, NextKeeps, PTL DEF Spec

\* Type correctness: among others, nloops, ntransfers and nrunning stay
\* within what number_loops(), number_transfers_per_connection() and the
\* number of connections allow.
THEOREM TypeCorrect == Spec => []TypeOK
  <1>1. IInv => TypeOK
    BY DEF IInv
  <1> QED
    BY <1>1, Invariant, PTL

\* The callbacks and operations of a connection never overlap, whatever the
\* number of connections, threads, loops and transfers.
THEOREM OneActivityAlways == Spec => []OneActivity
  <1>1. IInv => OneActivity
    BY DEF IInv
  <1> QED
    BY <1>1, Invariant, PTL

\* Whenever a connection starts or ends an operation, its handle is in the
\* state that operation needs.
THEOREM InStepAlways == Spec => []InStep
  <1>1. IInv => InStep
    BY DEF IInv
  <1> QED
    BY <1>1, Invariant, PTL

\* class socket is never misused: no operation is started on a released
\* I/O completion object, with an OVERLAPPED in use or over an open handle.
THEOREM ContractKept == Spec => []NoBreach
  <1>1. IInv => NoBreach
    BY DEF IInv
  <1> QED
    BY <1>1, Invariant, PTL

\* close() cancels the send and then disconnects: a cancellation is followed,
\* on the same stack, by the start of an operation.
LeadsOn(calls, i) == calls[i].call = "cancel" =>
                       i + 1 \in DOMAIN calls /\ calls[i + 1].call = "begin"

CancelLeadsOn == \A t \in Thread : \A i \in DOMAIN stack[t] : LeadsOn(stack[t], i)

\* It stays so when thread t makes calls of which this is true.
LEMMA LeadOnAfter ==
  ASSUME TypeOK, CancelLeadsOn, NEW t \in Thread, stack[t] # <<>>,
         NEW calls \in Seq(Calls), Replace(t, calls),
         \A i \in DOMAIN calls : LeadsOn(calls, i)
  PROVE  CancelLeadsOn'
  <1> DEFINE rest == Tail(stack[t])
             now == calls \o rest
  <1>1. stack \in [Thread -> Seq(Calls)]
    BY DEF TypeOK
  <1>2. /\ rest \in Seq(Calls)
        /\ \A i \in DOMAIN rest : i + 1 \in DOMAIN stack[t] /\ rest[i] = stack[t][i + 1]
    BY <1>1, Popped
  <1>3. \A i \in DOMAIN rest : LeadsOn(rest, i)
    <2> SUFFICES ASSUME NEW i \in DOMAIN rest, rest[i].call = "cancel"
                 PROVE  i + 1 \in DOMAIN rest /\ rest[i + 1].call = "begin"
      BY DEF LeadsOn
    <2>1. i + 2 \in DOMAIN stack[t] /\ stack[t][i + 2].call = "begin"
      <3>1. i + 1 \in DOMAIN stack[t] /\ stack[t][i + 1].call = "cancel"
        BY <1>2
      <3>2. LeadsOn(stack[t], i + 1)
        BY <3>1 DEF CancelLeadsOn
      <3>3. (i + 1) + 1 = i + 2
        <4>1. i \in Nat
          BY <1>2, LenProperties
        <4> QED
          BY <4>1
      <3> QED
        BY <3>1, <3>2, <3>3 DEF LeadsOn
    <2>2. i + 1 \in DOMAIN rest
      BY <1>1, <1>2, <2>1, HeadTailProperties, LenProperties
    <2>3. rest[i + 1] = stack[t][i + 2]
      BY <1>2, <2>2, LenProperties
    <2> QED
      BY <2>1, <2>2, <2>3
  <1>4. \A i \in DOMAIN now : LeadsOn(now, i)
    <2> HIDE DEF rest
    <2>1. /\ Len(calls) \in Nat /\ Len(rest) \in Nat
          /\ DOMAIN calls = 1 .. Len(calls) /\ DOMAIN rest = 1 .. Len(rest)
      BY <1>2, LenProperties
    <2>2. /\ now \in Seq(Calls)
          /\ Len(now) = Len(calls) + Len(rest)
          /\ \A i \in 1 .. Len(calls) + Len(rest) :
               now[i] = IF i <= Len(calls) THEN calls[i] ELSE rest[i - Len(calls)]
      BY <1>2, ConcatProperties
    <2>3. DOMAIN now = 1 .. Len(calls) + Len(rest)
      BY <2>2, LenProperties
    <2> HIDE DEF now
    <2> SUFFICES ASSUME NEW i \in 1 .. Len(calls) + Len(rest), now[i].call = "cancel"
                 PROVE  i + 1 \in DOMAIN now /\ now[i + 1].call = "begin"
      BY <2>3 DEF LeadsOn
    <2>4. CASE i <= Len(calls)
      <3>1. now[i] = calls[i] /\ i \in DOMAIN calls
        BY <2>1, <2>2, <2>4
      <3>2. i + 1 \in DOMAIN calls /\ calls[i + 1].call = "begin"
        BY <3>1 DEF LeadsOn
      <3> QED
        BY <2>1, <2>2, <2>3, <3>2
    <2>5. CASE i > Len(calls)
      <3> DEFINE j == i - Len(calls)
      <3>1. now[i] = rest[j] /\ j \in DOMAIN rest
        BY <2>1, <2>2, <2>5
      <3>2. j + 1 \in DOMAIN rest /\ rest[j + 1].call = "begin"
        BY <1>3, <3>1 DEF LeadsOn
      <3>3. i + 1 \in 1 .. Len(calls) + Len(rest) /\ ~(i + 1 <= Len(calls))
            /\ (i + 1) - Len(calls) = j + 1
        BY <2>1, <2>5, <3>2
      <3>4. now[i + 1] = rest[(i + 1) - Len(calls)]
        BY <2>2, <3>3
      <3> QED
        BY <2>3, <3>2, <3>3, <3>4
    <2> QED
      BY <2>1, <2>4, <2>5
  <1>5. stack' = [stack EXCEPT ![t] = now]
    BY DEF Replace
  <1> HIDE DEF now
  <1> QED
    BY <1>1, <1>4, <1>5 DEF CancelLeadsOn

\* The frequent cases: one call that is no cancellation, or none.
LEMMA LeadOnAfterOne ==
  ASSUME TypeOK, CancelLeadsOn, NEW t \in Thread, stack[t] # <<>>,
         \/ Return(t)
         \/ \E f \in Calls : f.call # "cancel" /\ Replace(t, <<f>>)
  PROVE  CancelLeadsOn'
  <1>1. CASE Return(t)
    <2>1. <<>> \in Seq(Calls) /\ \A i \in DOMAIN <<>> : LeadsOn(<<>>, i)
      OBVIOUS
    <2> QED
      BY <1>1, <2>1, LeadOnAfter DEF Return
  <1>2. ASSUME NEW f \in Calls, f.call # "cancel", Replace(t, <<f>>)
        PROVE  CancelLeadsOn'
    <2>1. <<f>> \in Seq(Calls) /\ \A i \in DOMAIN <<f>> : LeadsOn(<<f>>, i)
      BY <1>2 DEF LeadsOn
    <2> QED
      BY <1>2, <2>1, LeadOnAfter
  <1> QED
    BY <1>1, <1>2

\* The calls of close().
LEMMA LeadOnAfterClose ==
  ASSUME TypeOK, CancelLeadsOn, NEW t \in Thread, stack[t] # <<>>,
         NEW c \in Sock, Replace(t, CloseCalls(c))
  PROVE  CancelLeadsOn'
  <1>1. CancelIo(c, "send") \in Calls /\ Begin(c, "disconnect") \in Calls
    BY DEF CancelIo, Begin, Frame, Calls, Operation
  <1>2. /\ CloseCalls(c) \in Seq(Calls)
        /\ DOMAIN CloseCalls(c) = {1, 2}
        /\ CloseCalls(c)[1] = CancelIo(c, "send")
        /\ CloseCalls(c)[2] = Begin(c, "disconnect")
    BY <1>1 DEF CloseCalls
  <1>3. Begin(c, "disconnect").call = "begin"
    BY DEF Begin, Frame
  <1>4. \A i \in DOMAIN CloseCalls(c) : LeadsOn(CloseCalls(c), i)
    <2>1. LeadsOn(CloseCalls(c), 1)
      BY <1>2, <1>3 DEF LeadsOn
    <2>2. LeadsOn(CloseCalls(c), 2)
      BY <1>2, <1>3 DEF LeadsOn
    <2> QED
      BY <1>2, <2>1, <2>2
  <1> QED
    BY <1>2, <1>4, LeadOnAfter

\* A callback of the connector calls close(), or something else once, or
\* nothing.
LEMMA CallbackLeadsOn ==
  ASSUME IInv, CancelLeadsOn, NEW t \in Thread, Callback(t)
  PROVE  CancelLeadsOn'
  <1> DEFINE c == On(t)
  <1>1. Running(t, "complete")
    BY DEF Callback, Connected, SentPart, SentAll, SendFailed, Disconnected, Ignored, Told
  <1>2. stack[t] # <<>> /\ c \in Sock /\ TypeOK
    BY <1>1, CallbackOf DEF IInv
  <1>3. \A op \in {"connect", "send"} : Begin(c, op) \in Calls /\ Begin(c, op).call # "cancel"
    BY <1>2 DEF Begin, Frame, Calls, Operation
  <1>4. \/ Return(t)
        \/ \E op \in {"connect", "send"} : Replace(t, <<Begin(c, op)>>)
        \/ Replace(t, CloseCalls(c))
    BY DEF Callback, Connected, SentPart, SentAll, SendFailed, Disconnected, Ignored
  <1> QED
    BY <1>2, <1>3, <1>4, LeadOnAfterOne, LeadOnAfterClose

\* So does an operation: it calls the callback, or the flag is still to be
\* written, or nothing is left to do.
LEMMA OperationLeadsOn ==
  ASSUME IInv, CancelLeadsOn, NEW t \in Thread, Operate(t)
  PROVE  CancelLeadsOn'
  <1> DEFINE c == On(t)
             op == Op(t)
  <1>1. TypeOK
    BY DEF IInv
  <1>2. CASE Running(t, "begin")
    <2>1. stack[t] # <<>> /\ c \in Sock /\ op \in Operation /\ ~MisusedStart(t)
      BY <1>2, StartOf DEF MisusedStart, Operation
    <2>2. \A r \in {"done", "error"} :
            Complete(c, op, r) \in Calls /\ Complete(c, op, r).call # "cancel"
      BY <2>1 DEF Complete, Frame, Calls, Outcome
    <2>3. \/ \E r \in {"done", "error"} : AtOnce(t, r)
          \/ Pending(t)
      BY <1>2, <2>1 DEF Operate, Establish, Transfer, Disconnect, Cancel, SetIoPending, Running
    <2>4. ASSUME NEW r \in {"done", "error"}, AtOnce(t, r)
          PROVE  CancelLeadsOn'
      BY <1>1, <2>1, <2>2, <2>4, LeadOnAfterOne DEF AtOnce
    <2>5. CASE Pending(t)
      <3> DEFINE f == Frame("io_pending", c, op, "none")
      <3>1. f \in Calls /\ f.call # "cancel"
        BY <2>1 DEF Frame, Calls
      <3>2. Replace(t, <<f>>) \/ Return(t)
        BY <2>5 DEF Pending, Mark, Return
      <3> HIDE DEF f
      <3> QED
        BY <1>1, <2>1, <3>1, <3>2, LeadOnAfterOne
    <2> QED
      BY <2>3, <2>4, <2>5
  <1>3. CASE ~Running(t, "begin")
    <2>1. (Cancel(t) \/ SetIoPending(t)) /\ stack[t] # <<>>
      BY <1>3 DEF Operate, MisusedStart, Establish, Transfer, Disconnect, Starts,
                  Cancel, SetIoPending, Running, Idle
    <2> QED
      BY <1>1, <2>1, LeadOnAfterOne DEF Cancel, SetIoPending
  <1> QED
    BY <1>2, <1>3

\* Every step of the program preserves it.
LEMMA CancelKeepsLeading == IInv /\ CancelLeadsOn /\ [Next]_vars => CancelLeadsOn'
  <1> SUFFICES ASSUME IInv, CancelLeadsOn, [Next]_vars PROVE CancelLeadsOn'
    OBVIOUS
  <1>1. ASSUME NEW t \in Thread, Execute(t)
        PROVE  CancelLeadsOn'
    BY <1>1, CallbackLeadsOn, OperationLeadsOn DEF Execute
  <1>2. ASSUME NEW t \in Pool, NEW s \in Sock, NEW op \in Operation, NEW r \in Outcome,
               Completion(t, s, op, r)
        PROVE  CancelLeadsOn'
    <2> DEFINE f == Complete(s, op, r)
    <2>1. stack' = [stack EXCEPT ![t] = <<f>>]
      BY <1>2 DEF Completion, Deliver, Start
    <2>2. f.call # "cancel"
      BY DEF Complete, Frame
    <2> HIDE DEF f
    <2>3. \A i \in DOMAIN <<f>> : LeadsOn(<<f>>, i)
      BY <2>2 DEF LeadsOn
    <2>4. stack \in [Thread -> Seq(Calls)]
      BY DEF IInv, TypeOK
    <2> QED
      BY <2>1, <2>3, <2>4 DEF CancelLeadsOn
  <1>3. CASE UNCHANGED vars
    BY <1>3 DEF vars, CancelLeadsOn
  <1> QED
    BY <1>1, <1>2, <1>3 DEF Next

LEMMA CancelAlwaysLeadsOn == Spec => []CancelLeadsOn
  <1>1. Init => CancelLeadsOn
    <2> SUFFICES ASSUME Init, NEW t \in Thread, NEW i \in DOMAIN stack[t]
                 PROVE  stack[t][i].call # "cancel"
      BY DEF CancelLeadsOn, LeadsOn
    <2>1. stack[t][i] = Begin(i, "connect")
      BY DEF Init
    <2> QED
      BY <2>1 DEF Begin, Frame
  <1> QED
    BY <1>1, CancelKeepsLeading, Invariant, PTL DEF Spec

\* The event main() waits for means that every connection has gone through
\* its loops, that Windows has nothing of them, and that all a thread may
\* still have to execute is the late write of an io_pending flag.
THEOREM EventIsLast == Spec => []EventMeansFinished
  <1>1. IInv /\ CancelLeadsOn => EventMeansFinished
    <2> SUFFICES ASSUME IInv, CancelLeadsOn, stop_event
                 PROVE  /\ \A c \in Sock : nloops[c] = Loops /\ ~InWindows(c)
                        /\ \A t \in Thread : \A i \in DOMAIN stack[t] :
                             stack[t][i].call = "io_pending"
      BY DEF EventMeansFinished
    <2>1. {d \in Sock : nloops[d] < Loops} = {}
      <3>1. Cardinality({d \in Sock : nloops[d] < Loops}) = 0
        BY DEF IInv, EventAtZero, RunningCounted
      <3> QED
        BY <3>1, LoopsToGo, FS_EmptySet
    <2>2. \A c \in Sock : nloops[c] \in 0 .. Loops /\ Loops \in Nat
      BY ConnectorAssumption DEF IInv, TypeOK
    <2>3. \A c \in Sock : nloops[c] = Loops /\ ~(nloops[c] < Loops)
      BY <2>1, <2>2
    <2>4. \A c \in Sock : ~InWindows(c)
      BY <2>3 DEF InWindows, IInv, InStep, HasToDo
    <2>5. ASSUME NEW t \in Thread, NEW i \in DOMAIN stack[t]
          PROVE  stack[t][i] \in Calls /\ ~Carrying(stack[t][i])
      <3>1. stack[t][i] \in Calls
        <4>1. stack[t] \in Seq(Calls)
          BY DEF IInv, TypeOK
        <4> QED
          BY <4>1, LenProperties, ElementOfSeq
      <3>2. stack[t][i].on \in Sock
        BY <3>1 DEF Calls
      <3> QED
        BY <2>3, <3>1, <3>2 DEF IInv, InStep, HasToDo, Carries, Carrying
    <2>6. ASSUME NEW t \in Thread, NEW i \in DOMAIN stack[t]
          PROVE  stack[t][i].call = "io_pending"
      <3>1. stack[t][i].call # "cancel"
        BY <2>5 DEF CancelLeadsOn, LeadsOn, Carrying
      <3> QED
        BY <2>5, <3>1 DEF Calls, Carrying
    <2> QED
      BY <2>3, <2>4, <2>6
  <1> QED
    BY <1>1, Invariant, CancelAlwaysLeadsOn, PTL

\* connections::_M_nrunning counts the connections with loops to go.
THEOREM CountCorrect == Spec => []RunningCounted
  <1>1. IInv => RunningCounted
    BY DEF IInv
  <1> QED
    BY <1>1, Invariant, PTL

=============================================================================

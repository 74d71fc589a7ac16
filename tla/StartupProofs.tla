---------------------------- MODULE StartupProofs ----------------------------
(***************************************************************************)
(* Proofs about the start and the end of the servers, for any number of    *)
(* acceptors and connections and any growth of the array.                  *)
(***************************************************************************)
EXTENDS Startup, TLAPS

\* An acceptor of the array is found before the one that is being added, and
\* there is room for that one.
Room ==
  /\ used <= size
  /\ used <= attempts
  /\ \A n \in DOMAIN array : array[n] <= attempts
  /\ stage = "adding" =>
       /\ used < size
       /\ used < attempts
       /\ \A n \in DOMAIN array : array[n] # attempts

\* The numbers of the connections follow from the places of their acceptors.
Numbered ==
  /\ \A n \in DOMAIN array, k \in 0 .. NConnections - 1 :
       number[<<array[n], k>>] = (n - 1) * NConnections + k
  /\ stage = "adding" =>
       \A k \in 0 .. created - 1 : number[<<attempts, k>>] = used * NConnections + k

\* What main() holds at each of its stages.
Holding ==
  /\ stage = "starting" => size = 0
  /\ stage \in {"listening", "adding", "waiting"} => held = Resource
  /\ stage = "ending" /\ size > 0 => {"library", "pool"} \subseteq held
  /\ stage = "exited" => size = 0 /\ held = {}

IInv == TypeOK /\ EverythingOwned /\ Room /\ Numbered /\ Holding

-----------------------------------------------------------------------------
(* Numbers a * n + k with a remainder k.                                   *)

\* Numbers of the block a end before those of a later block b begin.
LEMMA Blocks ==
  ASSUME NEW a \in Nat, NEW b \in Nat, NEW n \in Nat, a < b
  PROVE  a * n + n <= b * n
  <1>1. PICK d \in Nat : b = a + 1 + d
    <2>1. b - a - 1 \in Nat /\ b = a + 1 + (b - a - 1)
      OBVIOUS
    <2> QED
      BY <2>1
  <1>2. b * n = a * n + n + d * n
    BY <1>1
  <1>3. d * n \in Nat
    OBVIOUS
  <1> QED
    BY <1>2, <1>3

LEMMA NumberInRange ==
  ASSUME NEW a \in Nat, NEW b \in Nat, NEW n \in Nat, NEW k \in 0 .. n - 1, a < b
  PROVE  a * n + k \in 0 .. b * n - 1
  <1>1. a * n \in Nat /\ b * n \in Nat
    OBVIOUS
  <1> QED
    BY <1>1, Blocks

LEMMA NumbersDiffer ==
  ASSUME NEW a \in Nat, NEW b \in Nat, NEW n \in Nat,
         NEW k \in 0 .. n - 1, NEW l \in 0 .. n - 1,
         a * n + k = b * n + l
  PROVE  a = b /\ k = l
  <1>1. a * n \in Nat /\ b * n \in Nat
    OBVIOUS
  <1>2. ~(a < b)
    BY <1>1, Blocks
  <1>3. ~(b < a)
    BY <1>1, Blocks
  <1>4. a = b
    BY <1>2, <1>3
  <1> QED
    BY <1>1, <1>4

-----------------------------------------------------------------------------
(* The inductive invariant.                                                *)

LEMMA Initially == Init => IInv
  <1> SUFFICES ASSUME Init PROVE IInv
    OBVIOUS
  <1> USE StartupAssumption
  <1>1. 0 \in 0 .. Listens * NConnections - 1
    BY NumberInRange
  <1>2. TypeOK
    <2>1. number \in [Connection -> 0 .. Listens * NConnections - 1]
      BY <1>1 DEF Init
    <2>2. array \in Seq(Acceptor) /\ held \subseteq Resource
      BY DEF Init
    <2>3. attempts \in 0 .. Listens /\ created \in 0 .. NConnections /\ size \in Nat
      BY DEF Init
    <2>4. life \in [Connection -> {"none", "alive", "deleted"}]
      BY DEF Init
    <2>5. asked \in BOOLEAN /\ signalled \in BOOLEAN
      BY DEF Init
    <2> QED
      BY <2>1, <2>2, <2>3, <2>4, <2>5 DEF Init, TypeOK
  <1>3. DOMAIN array = {} /\ used = 0
    BY DEF Init, used
  <1>4. EverythingOwned
    BY <1>3 DEF Init, EverythingOwned, Alive
  <1>5. Room /\ Numbered
    BY <1>3 DEF Init, Room, Numbered
  <1>6. Holding
    BY DEF Init, Holding
  <1> QED
    BY <1>2, <1>4, <1>5, <1>6 DEF IInv

\* Steps of main() and of the handler that leave the acceptors alone.
LEMMA AcceptorsKept ==
  ASSUME IInv, UNCHANGED acceptorVars,
         stage # "adding", stage' # "adding",
         stage' \in {"starting", "listening", "adding", "waiting", "ending", "exited"},
         held' \subseteq Resource, asked' \in BOOLEAN, signalled' \in BOOLEAN
  PROVE  TypeOK' /\ EverythingOwned' /\ Room' /\ Numbered'
  <1> USE DEF IInv, acceptorVars
  <1>1. TypeOK'
    BY DEF TypeOK
  <1>2. EverythingOwned'
    BY DEF EverythingOwned, Alive
  <1>3. Room'
    BY DEF Room, used
  <1>4. Numbered'
    BY DEF Numbered, used
  <1> QED
    BY <1>1, <1>2, <1>3, <1>4

LEMMA AcquireKeeps == IInv /\ Acquire => IInv'
  <1> SUFFICES ASSUME IInv, Acquire PROVE IInv'
    OBVIOUS
  <1>1. PICK n \in DOMAIN Resources :
          /\ held = {Resources[k] : k \in 1 .. n - 1}
          /\ held' = held \cup {Resources[n]}
          /\ stage' = IF n = Len(Resources) THEN "listening" ELSE "starting"
    BY DEF Acquire
  <1>2. n \in 1 .. 4
    BY DEF Resources
  <1>3. held' \subseteq Resource
    BY <1>1 DEF Resource, IInv, TypeOK
  <1>4. TypeOK' /\ EverythingOwned' /\ Room' /\ Numbered'
    BY <1>1, <1>3, AcceptorsKept DEF Acquire, IInv, TypeOK
  <1>5. stage' = "listening" => held' = Resource
    BY <1>1, <1>2 DEF Resources, Resource
  <1>6. Holding'
    BY <1>1, <1>5 DEF Acquire, acceptorVars, Holding, IInv
  <1> QED
    BY <1>4, <1>6 DEF IInv

LEMMA CannotStartKeeps == IInv /\ CannotStart => IInv'
  <1> SUFFICES ASSUME IInv, CannotStart PROVE IInv'
    OBVIOUS
  <1>1. TypeOK' /\ EverythingOwned' /\ Room' /\ Numbered'
    BY AcceptorsKept DEF CannotStart, IInv, TypeOK
  <1>2. Holding'
    BY DEF CannotStart, acceptorVars, Holding, IInv
  <1> QED
    BY <1>1, <1>2 DEF IInv

LEMMA StopKeeps == IInv /\ Stop => IInv'
  <1> SUFFICES ASSUME IInv, Stop PROVE IInv'
    OBVIOUS
  <1>1. TypeOK' /\ EverythingOwned' /\ Room' /\ Numbered'
    BY AcceptorsKept DEF Stop, IInv, TypeOK
  <1>2. {"library", "pool"} \subseteq held'
    BY DEF Stop, Holding, IInv, Resource, Resources
  <1>3. Holding'
    BY <1>2 DEF Stop, acceptorVars, Holding, IInv
  <1> QED
    BY <1>1, <1>3 DEF IInv

LEMMA ReleaseKeeps == IInv /\ Release => IInv'
  <1> SUFFICES ASSUME IInv, Release PROVE IInv'
    OBVIOUS
  <1>1. TypeOK' /\ EverythingOwned' /\ Room' /\ Numbered'
    BY AcceptorsKept DEF Release, IInv, TypeOK
  <1>2. Holding'
    BY DEF Release, NextReleased, acceptorVars, Holding, IInv
  <1> QED
    BY <1>1, <1>2 DEF IInv

LEMMA ExitKeeps == IInv /\ Exit => IInv'
  <1> SUFFICES ASSUME IInv, Exit PROVE IInv'
    OBVIOUS
  <1>1. held' \subseteq Resource
    BY DEF Exit, IInv, TypeOK
  <1>2. TypeOK' /\ EverythingOwned' /\ Room' /\ Numbered'
    BY <1>1, AcceptorsKept DEF Exit, IInv, TypeOK
  <1>3. held \subseteq {"library", "event", "handler", "pool"}
    BY DEF IInv, TypeOK, Resource, Resources
  <1>4. "pool" \notin held /\ "event" \notin held /\ "library" \notin held
    BY DEF Exit, NextReleased
  <1>5. held' = {}
    BY <1>3, <1>4 DEF Exit
  <1>6. Holding'
    BY <1>5 DEF Exit, acceptorVars, Holding
  <1> QED
    BY <1>2, <1>6 DEF IInv

LEMMA AddAcceptorKeeps == IInv /\ AddAcceptor => IInv'
  <1> SUFFICES ASSUME IInv, AddAcceptor PROVE IInv'
    OBVIOUS
  <1> USE StartupAssumption DEF IInv, AddAcceptor
  <1>1. size' \in Nat /\ size' > used /\ used \in Nat
    BY DEF TypeOK, Room, HasSpace, Grown, used
  <1>2. TypeOK'
    BY <1>1 DEF TypeOK
  <1>3. EverythingOwned'
    <2>1. \A c \in Connection : c[2] \in Nat
      BY DEF Connection
    <2> QED
      BY <2>1 DEF EverythingOwned, Alive
  <1>4. Room'
    BY <1>1 DEF TypeOK, Room, used, Acceptor
  <1>5. Numbered'
    BY DEF Numbered
  <1>6. Holding'
    BY DEF Holding
  <1> QED
    BY <1>2, <1>3, <1>4, <1>5, <1>6

LEMMA CannotAddKeeps == IInv /\ CannotAdd => IInv'
  <1> SUFFICES ASSUME IInv, CannotAdd PROVE IInv'
    OBVIOUS
  <1> USE StartupAssumption DEF IInv, CannotAdd
  <1>1. size' \in Nat /\ size' >= used /\ used \in Nat
    BY DEF TypeOK, Room, HasSpace, Grown, used
  <1>2. stage' \in {"listening", "ending"}
    BY DEF AfterFailure, Again
  <1>3. TypeOK'
    BY <1>1, <1>2 DEF TypeOK
  <1>4. EverythingOwned'
    BY <1>2 DEF EverythingOwned, Alive
  <1>5. Room'
    BY <1>1, <1>2 DEF TypeOK, Room, used, Acceptor
  <1>6. Numbered'
    BY <1>2 DEF Numbered
  <1>7. Holding'
    BY <1>2 DEF Holding, Resource, Resources
  <1> QED
    BY <1>3, <1>4, <1>5, <1>6, <1>7

LEMMA AddConnectionKeeps == IInv /\ AddConnection => IInv'
  <1> SUFFICES ASSUME IInv, AddConnection PROVE IInv'
    OBVIOUS
  <1> DEFINE c == <<attempts, created>>
  <1>1. /\ stage = "adding" /\ stage' = stage
        /\ created \in 0 .. NConnections - 1
        /\ created' = created + 1
        /\ life' = [life EXCEPT ![c] = "alive"]
        /\ number' = [number EXCEPT ![c] = used * NConnections + created]
        /\ UNCHANGED <<held, asked, signalled, attempts, array, size>>
    BY StartupAssumption DEF AddConnection, NumberOf, IInv, TypeOK
  <1>2. used \in Nat /\ used < attempts /\ attempts \in Acceptor /\ used < Listens
    <2>1. used \in Nat /\ used < attempts /\ attempts \in 0 .. Listens
      BY <1>1 DEF IInv, Room, TypeOK, used
    <2> QED
      BY <2>1, StartupAssumption DEF Acceptor
  <1>3. c \in Connection
    BY <1>1, <1>2 DEF Connection
  <1>4. used * NConnections + created \in 0 .. Listens * NConnections - 1
    BY <1>1, <1>2, NumberInRange, StartupAssumption
  <1>5. TypeOK'
    <2>1. life' \in [Connection -> {"none", "alive", "deleted"}]
      BY <1>1 DEF IInv, TypeOK
    <2>2. number' \in [Connection -> 0 .. Listens * NConnections - 1]
      BY <1>1, <1>4 DEF IInv, TypeOK
    <2>3. created' \in 0 .. NConnections
      BY <1>1, StartupAssumption
    <2> QED
      BY <1>1, <2>1, <2>2, <2>3 DEF IInv, TypeOK
  <1>6. Alive' = Alive \cup {c}
    BY <1>1, <1>3 DEF IInv, TypeOK, Alive
  <1>7. EverythingOwned'
    <2>1. ASSUME NEW d \in Connection
          PROVE  /\ d[2] \in Nat
                 /\ d = c <=> d[1] = attempts /\ d[2] = created
      BY DEF Connection
    <2> QED
      BY <1>1, <1>3, <1>6, <2>1 DEF IInv, EverythingOwned
  <1>8. Room'
    BY <1>1 DEF IInv, Room, used
  <1>9. Numbered'
    <2>1. ASSUME NEW n \in DOMAIN array, NEW k \in 0 .. NConnections - 1
          PROVE  number'[<<array[n], k>>] = number[<<array[n], k>>]
      <3>1. array[n] # attempts
        BY <1>1 DEF IInv, Room
      <3>2. <<array[n], k>> \in Connection
        BY DEF IInv, TypeOK, Connection
      <3> QED
        BY <1>1, <3>1, <3>2 DEF IInv, TypeOK
    <2>2. ASSUME NEW k \in 0 .. created
          PROVE  number'[<<attempts, k>>] = used * NConnections + k
      <3>1. <<attempts, k>> \in Connection
        BY <1>1, <1>2, StartupAssumption DEF Connection
      <3>2. CASE k = created
        BY <1>1, <1>3, <3>2 DEF IInv, TypeOK
      <3>3. CASE k # created
        <4>1. number'[<<attempts, k>>] = number[<<attempts, k>>]
          BY <1>1, <3>1, <3>3 DEF IInv, TypeOK
        <4>2. k \in 0 .. created - 1
          BY <1>1, <3>3
        <4> QED
          BY <1>1, <4>1, <4>2 DEF IInv, Numbered
      <3> QED
        BY <3>2, <3>3
    <2> QED
      BY <1>1, <2>1, <2>2 DEF IInv, Numbered, used
  <1>10. Holding'
    BY <1>1 DEF IInv, Holding
  <1> QED
    BY <1>5, <1>7, <1>8, <1>9, <1>10 DEF IInv

LEMMA CannotAddConnectionKeeps == IInv /\ CannotAddConnection => IInv'
  <1> SUFFICES ASSUME IInv, CannotAddConnection PROVE IInv'
    OBVIOUS
  <1>1. stage = "adding" /\ stage' \in {"listening", "ending"}
    BY DEF CannotAddConnection, AfterFailure, Again
  <1>2. UNCHANGED <<held, asked, signalled, attempts, array, size, created, number>>
    BY DEF CannotAddConnection
  <1>3. Alive' = Alive \ Saved(attempts, created) /\ life' \in [Connection -> {"none", "alive", "deleted"}]
    BY DEF CannotAddConnection, Deleted, Alive, IInv, TypeOK
  <1>4. TypeOK'
    BY <1>1, <1>2, <1>3 DEF IInv, TypeOK
  <1>5. EverythingOwned'
    <2>1. ASSUME NEW d \in Connection
          PROVE  d \in Saved(attempts, created) <=> d[1] = attempts /\ d[2] < created
      BY DEF Saved, Connection, IInv, TypeOK
    <2> QED
      BY <1>1, <1>2, <1>3, <2>1 DEF IInv, EverythingOwned, Room
  <1>6. Room' /\ Numbered'
    BY <1>1, <1>2 DEF IInv, Room, Numbered, used
  <1>7. Holding'
    BY <1>1, <1>2 DEF IInv, Holding, Resource, Resources
  <1> QED
    BY <1>4, <1>5, <1>6, <1>7 DEF IInv

LEMMA SaveAcceptorKeeps == IInv /\ SaveAcceptor => IInv'
  <1> SUFFICES ASSUME IInv, SaveAcceptor PROVE IInv'
    OBVIOUS
  <1>1. /\ stage = "adding" /\ stage' \in {"listening", "waiting"}
        /\ created = NConnections
        /\ UNCHANGED <<held, asked, signalled, attempts, size, created, life, number>>
    BY DEF SaveAcceptor, AfterSuccess, Again
  <1>2. attempts \in Acceptor /\ used \in Nat
    BY <1>1 DEF IInv, TypeOK, Room, used, Acceptor
  <1>3. /\ array' \in Seq(Acceptor)
        /\ used' = used + 1
        /\ DOMAIN array' = 1 .. used + 1
        /\ DOMAIN array = 1 .. used
        /\ \A n \in DOMAIN array : array'[n] = array[n]
        /\ array'[used + 1] = attempts
    BY <1>2 DEF SaveAcceptor, IInv, TypeOK, used
  <1>4. TypeOK'
    BY <1>1, <1>3 DEF IInv, TypeOK
  <1>5. EverythingOwned'
    <2>1. ASSUME NEW a
          PROVE  (\E n \in DOMAIN array' : array'[n] = a)
                   <=> (\E n \in DOMAIN array : array[n] = a) \/ a = attempts
      BY <1>2, <1>3
    <2>2. \A d \in Connection : d[2] < created
      BY <1>1, StartupAssumption DEF Connection
    <2>3. Alive' = Alive
      BY <1>1 DEF Alive
    <2> QED
      BY <1>1, <2>1, <2>2, <2>3 DEF IInv, EverythingOwned
  <1>6. Room'
    BY <1>1, <1>2, <1>3 DEF IInv, TypeOK, Room
  <1>7. Numbered'
    <2>1. ASSUME NEW n \in DOMAIN array', NEW k \in 0 .. NConnections - 1
          PROVE  number[<<array'[n], k>>] = (n - 1) * NConnections + k
      <3>1. CASE n \in DOMAIN array
        BY <1>3, <3>1 DEF IInv, Numbered
      <3>2. CASE n = used + 1
        <4>1. array'[n] = attempts /\ n - 1 = used
          BY <1>2, <1>3, <3>2
        <4> QED
          BY <1>1, <4>1 DEF IInv, Numbered
      <3> QED
        BY <1>2, <1>3, <3>1, <3>2
    <2> QED
      BY <1>1, <2>1 DEF Numbered
  <1>8. Holding'
    BY <1>1 DEF IInv, Holding, Resource, Resources
  <1> QED
    BY <1>4, <1>5, <1>6, <1>7, <1>8 DEF IInv

LEMMA DestroyKeeps == IInv /\ DestroyAcceptors => IInv'
  <1> SUFFICES ASSUME IInv, DestroyAcceptors PROVE IInv'
    OBVIOUS
  <1>1. /\ stage = "ending" /\ stage' = "ending"
        /\ array' = <<>> /\ size' = 0
        /\ UNCHANGED <<held, asked, signalled, attempts, created, number>>
    BY DEF DestroyAcceptors
  <1> DEFINE gone == UNION {Saved(array[n], NConnections) : n \in DOMAIN array}
  <1>2. life' = [c \in Connection |-> IF c \in gone THEN "deleted" ELSE life[c]]
    BY DEF DestroyAcceptors, Deleted
  <1>3. TypeOK'
    BY <1>1, <1>2 DEF IInv, TypeOK
  <1>4. Alive \subseteq gone
    <2> SUFFICES ASSUME NEW c \in Alive PROVE c \in gone
      OBVIOUS
    <2>1. PICK n \in DOMAIN array : array[n] = c[1]
      BY <1>1 DEF IInv, EverythingOwned
    <2>2. c \in Saved(array[n], NConnections)
      BY <2>1 DEF Saved, Alive, Connection
    <2> QED
      BY <2>2
  <1>5. Alive' = {}
    BY <1>2, <1>4 DEF Alive
  <1>6. DOMAIN array' = {} /\ used' = 0
    BY <1>1 DEF used
  <1>7. EverythingOwned'
    BY <1>1, <1>5, <1>6 DEF EverythingOwned
  <1>8. Room' /\ Numbered'
    BY <1>1, <1>6 DEF IInv, TypeOK, Room, Numbered
  <1>9. Holding'
    BY <1>1 DEF IInv, Holding
  <1> QED
    BY <1>3, <1>7, <1>8, <1>9 DEF IInv

LEMMA SignalKeeps == IInv /\ Signal => IInv'
  <1> SUFFICES ASSUME IInv, Signal PROVE IInv'
    OBVIOUS
  <1>1. /\ UNCHANGED <<stage, held, acceptorVars>>
        /\ asked' \in BOOLEAN /\ signalled' \in BOOLEAN
    BY DEF Signal, IInv, TypeOK
  <1>2. TypeOK'
    BY <1>1 DEF acceptorVars, IInv, TypeOK
  <1>3. EverythingOwned'
    BY <1>1 DEF acceptorVars, IInv, EverythingOwned, Alive
  <1>4. Room' /\ Numbered' /\ Holding'
    BY <1>1 DEF acceptorVars, IInv, Room, Numbered, Holding, used
  <1> QED
    BY <1>2, <1>3, <1>4 DEF IInv

LEMMA StutterKeeps == IInv /\ UNCHANGED vars => IInv'
  <1> SUFFICES ASSUME IInv, UNCHANGED vars PROVE IInv'
    OBVIOUS
  <1>1. TypeOK'
    BY DEF vars, acceptorVars, IInv, TypeOK
  <1>2. EverythingOwned'
    BY DEF vars, acceptorVars, IInv, EverythingOwned, Alive
  <1>3. Room' /\ Numbered' /\ Holding'
    BY DEF vars, acceptorVars, IInv, Room, Numbered, Holding, used
  <1> QED
    BY <1>1, <1>2, <1>3 DEF IInv

LEMMA NextKeeps == IInv /\ [Next]_vars => IInv'
  BY AcquireKeeps, CannotStartKeeps, AddAcceptorKeeps, CannotAddKeeps,
     AddConnectionKeeps, CannotAddConnectionKeeps, SaveAcceptorKeeps, StopKeeps,
     DestroyKeeps, ReleaseKeeps, ExitKeeps, SignalKeeps, StutterKeeps
  DEF Next, Main, Listen

LEMMA Invariant == Spec => []IInv
  BY Initially, NextKeeps, PTL DEF Spec

-----------------------------------------------------------------------------
(* The properties.                                                         *)

\* Type correctness; no connection has a number beyond those of all acceptors.
THEOREM TypeCorrect == Spec => []TypeOK
  <1>1. IInv => TypeOK
    BY DEF IInv
  <1> QED
    BY <1>1, Invariant, PTL

\* acceptors::listen() never writes past the end of its array.
THEOREM ArrayFitsAlways == Spec => []ArrayFits
  <1>1. IInv => ArrayFits
    BY DEF IInv, Room, ArrayFits
  <1> QED
    BY <1>1, Invariant, PTL

\* Whatever fails in listen(), the connections that exist are those of the
\* acceptors that will delete them.
THEOREM OwnershipKept == Spec => []EverythingOwned
  <1>1. IInv => EverythingOwned
    BY DEF IInv
  <1> QED
    BY <1>1, Invariant, PTL

\* The numbers that tell the files of the receiver apart are unique.
THEOREM NumbersAreUnique == Spec => []NumbersUnique
  <1>1. IInv => NumbersUnique
    <2> SUFFICES ASSUME IInv, NEW c \in Alive, NEW d \in Alive, number[c] = number[d]
                 PROVE  c = d
      BY DEF NumbersUnique
    <2> DEFINE Place(e, a) == /\ a \in Nat
                              /\ e = <<e[1], e[2]>>
                              /\ e[2] \in 0 .. NConnections - 1
                              /\ number[e] = a * NConnections + e[2]
                              /\ \/ a + 1 \in DOMAIN array /\ e[1] = array[a + 1]
                                 \/ a = used /\ e[1] = attempts /\ stage = "adding"
    <2>1. ASSUME NEW e \in Alive
          PROVE  \E a : Place(e, a)
      <3>1. /\ e \in Connection
            /\ e = <<e[1], e[2]>>
            /\ e[2] \in 0 .. NConnections - 1
        BY DEF Alive, Connection
      <3>2. CASE \E n \in DOMAIN array : array[n] = e[1]
        <4>1. PICK n \in DOMAIN array : array[n] = e[1]
          BY <3>2
        <4>2. n - 1 \in Nat /\ (n - 1) + 1 = n
          BY DEF IInv, TypeOK
        <4>3. number[e] = (n - 1) * NConnections + e[2]
          BY <3>1, <4>1 DEF IInv, Numbered
        <4>4. Place(e, n - 1)
          BY <3>1, <4>1, <4>2, <4>3
        <4> QED
          BY <4>4
      <3>3. CASE stage = "adding" /\ e[1] = attempts /\ e[2] < created
        <4>1. used \in Nat /\ e[2] \in 0 .. created - 1
          BY <3>1, <3>3 DEF IInv, TypeOK, used
        <4>2. number[e] = used * NConnections + e[2]
          BY <3>1, <3>3, <4>1 DEF IInv, Numbered
        <4>3. Place(e, used)
          BY <3>1, <3>3, <4>1, <4>2
        <4> QED
          BY <4>3
      <3> QED
        BY <3>1, <3>2, <3>3 DEF IInv, EverythingOwned
    <2>2. PICK a, b : Place(c, a) /\ Place(d, b)
      BY <2>1
    <2>3. a = b /\ c[2] = d[2]
      <3>1. a * NConnections + c[2] = b * NConnections + d[2]
        BY <2>2
      <3> QED
        BY <2>2, <3>1, NumbersDiffer, StartupAssumption
    <2>4. a = used => a + 1 \notin DOMAIN array
      BY <2>2 DEF IInv, TypeOK, used
    <2> QED
      BY <2>2, <2>3, <2>4
  <1> QED
    BY <1>1, Invariant, PTL

\* No connection is without Winsock and the thread pool of its callbacks.
THEOREM PoolOutlivesAlways == Spec => []PoolOutlives
  <1>1. IInv => PoolOutlives
    <2> SUFFICES ASSUME IInv, Alive # {} PROVE {"library", "pool"} \subseteq held
      BY DEF PoolOutlives
    <2>1. stage = "adding" \/ size > 0
      <3>1. CASE stage = "adding"
        BY <3>1
      <3>2. CASE stage # "adding"
        <4>1. DOMAIN array # {}
          BY <3>2 DEF IInv, EverythingOwned
        <4>2. used > 0
          BY <4>1 DEF IInv, TypeOK, used
        <4> QED
          BY <4>2 DEF IInv, TypeOK, Room, used
      <3> QED
        BY <3>1, <3>2
    <2> QED
      BY <2>1 DEF IInv, TypeOK, Holding, Resource, Resources
  <1> QED
    BY <1>1, Invariant, PTL

\* On every way out of main() everything has been released.
THEOREM NothingIsLeft == Spec => []NothingLeft
  <1>1. IInv => NothingLeft
    <2> SUFFICES ASSUME IInv, stage = "exited" PROVE held = {} /\ Alive = {}
      BY DEF NothingLeft
    <2>1. size = 0 /\ held = {}
      BY DEF IInv, Holding
    <2>2. DOMAIN array = {}
      BY <2>1 DEF IInv, TypeOK, Room, used
    <2> QED
      BY <2>1, <2>2 DEF IInv, EverythingOwned
  <1> QED
    BY <1>1, Invariant, PTL

=============================================================================

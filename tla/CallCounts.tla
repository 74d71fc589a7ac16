------------------------------ MODULE CallCounts ------------------------------
(***************************************************************************)
(* Counting the calls on the stacks of the threads: the invariants of the  *)
(* proxy and the receiver are about how many calls of a kind there are,    *)
(* and what a step does to those numbers follows from the calls it takes   *)
(* and makes, wherever on the stacks the others are.                       *)
(*                                                                         *)
(* A kind is a set of calls; stacks are any function from threads to       *)
(* sequences of calls.                                                     *)
(***************************************************************************)
EXTENDS Naturals, SequenceTheorems, FiniteSetTheorems, TLAPS

\* The places in the sequence q that hold a call of kind F.
Spots(q, F) == {i \in DOMAIN q : q[i] \in F}

Tally(q, F) == Cardinality(Spots(q, F))

Hit(f, F) == IF f \in F THEN 1 ELSE 0

\* The places on the stacks st that hold a call of kind F.
Places(st, F) == UNION {{t} \X Spots(st[t], F) : t \in DOMAIN st}

Count(st, F) == Cardinality(Places(st, F))

\* The stacks of the threads T for calls S, and that only that of t changes.
Stacks(T, S) == [T -> Seq(S)]

ChangesAt(t, st, new) == \A u \in DOMAIN st \ {t} : new[u] = st[u]

-----------------------------------------------------------------------------
(* One sequence.                                                           *)

LEMMA TallyType ==
  ASSUME NEW S, NEW q \in Seq(S), NEW F
  PROVE  IsFiniteSet(Spots(q, F)) /\ Tally(q, F) \in Nat
  <1>1. Len(q) \in Nat /\ DOMAIN q = 1 .. Len(q)
    BY LenProperties
  <1>2. IsFiniteSet(1 .. Len(q))
    BY <1>1, FS_Interval
  <1>3. Spots(q, F) \in SUBSET (1 .. Len(q))
    BY <1>1 DEF Spots
  <1>4. IsFiniteSet(Spots(q, F))
    BY <1>2, <1>3, FS_Subset
  <1> QED
    BY <1>4, FS_CardinalityType DEF Tally

LEMMA TallyNone ==
  ASSUME NEW F
  PROVE  Tally(<<>>, F) = 0
  <1>1. Spots(<<>>, F) = {}
    BY DEF Spots
  <1> QED
    BY <1>1, FS_EmptySet DEF Tally

LEMMA TallyOne ==
  ASSUME NEW f, NEW F
  PROVE  Tally(<<f>>, F) = Hit(f, F)
  <1>1. CASE f \in F
    <2>1. Spots(<<f>>, F) = {1}
      BY <1>1 DEF Spots
    <2> QED
      BY <1>1, <2>1, FS_Singleton DEF Tally, Hit
  <1>2. CASE f \notin F
    <2>1. Spots(<<f>>, F) = {}
      BY <1>2 DEF Spots
    <2> QED
      BY <1>2, <2>1, FS_EmptySet DEF Tally, Hit
  <1> QED
    BY <1>1, <1>2

LEMMA TallyConcat ==
  ASSUME NEW S, NEW p \in Seq(S), NEW q \in Seq(S), NEW F
  PROVE  Tally(p \o q, F) = Tally(p, F) + Tally(q, F)
  <1> DEFINE Moved == {i + Len(p) : i \in Spots(q, F)}
  <1>1. /\ Len(p) \in Nat /\ DOMAIN p = 1 .. Len(p)
        /\ Len(q) \in Nat /\ DOMAIN q = 1 .. Len(q)
    BY LenProperties
  <1>2. /\ p \o q \in Seq(S)
        /\ Len(p \o q) = Len(p) + Len(q)
        /\ \A i \in 1 .. Len(p) + Len(q) :
             (p \o q)[i] = IF i <= Len(p) THEN p[i] ELSE q[i - Len(p)]
    BY ConcatProperties
  <1>3. DOMAIN (p \o q) = 1 .. Len(p) + Len(q)
    BY <1>2, LenProperties
  <1>4. /\ IsFiniteSet(Spots(p, F)) /\ IsFiniteSet(Spots(q, F))
        /\ Tally(p, F) \in Nat /\ Tally(q, F) \in Nat
    BY TallyType
  <1>5. IsFiniteSet(Moved) /\ Cardinality(Moved) = Tally(q, F)
    <2> DEFINE f == [i \in Spots(q, F) |-> i + Len(p)]
    <2>1. f \in Bijection(Spots(q, F), Moved)
      <3>1. \A i \in Spots(q, F) : i \in Nat
        BY <1>1 DEF Spots
      <3>2. f \in [Spots(q, F) -> Moved]
        OBVIOUS
      <3>3. \A i, j \in Spots(q, F) : f[i] = f[j] => i = j
        BY <1>1, <3>1
      <3>4. \A m \in Moved : \E i \in Spots(q, F) : f[i] = m
        OBVIOUS
      <3> QED
        BY <3>2, <3>3, <3>4 DEF Bijection, Injection, Surjection, IsInjective
    <2> QED
      BY <1>4, <2>1, FS_Bijection DEF ExistsBijection, Tally
  <1>6. Spots(p \o q, F) = Spots(p, F) \cup Moved
    <2>1. ASSUME NEW i \in Spots(p \o q, F)
          PROVE  i \in Spots(p, F) \cup Moved
      <3>1. i \in 1 .. Len(p) + Len(q) /\ (p \o q)[i] \in F
        BY <1>3 DEF Spots
      <3>2. CASE i <= Len(p)
        BY <1>1, <1>2, <3>1, <3>2 DEF Spots
      <3>3. CASE ~(i <= Len(p))
        <4>1. i - Len(p) \in Spots(q, F)
          BY <1>1, <1>2, <3>1, <3>3 DEF Spots
        <4>2. i = (i - Len(p)) + Len(p)
          BY <1>1, <3>1
        <4> QED
          BY <4>1, <4>2
      <3> QED
        BY <3>2, <3>3
    <2>2. ASSUME NEW i \in Spots(p, F)
          PROVE  i \in Spots(p \o q, F)
      BY <1>1, <1>2, <1>3 DEF Spots
    <2>3. ASSUME NEW i \in Spots(q, F)
          PROVE  i + Len(p) \in Spots(p \o q, F)
      BY <1>1, <1>2, <1>3 DEF Spots
    <2> QED
      BY <2>1, <2>2, <2>3
  <1>7. Spots(p, F) \cap Moved = {}
    BY <1>1 DEF Spots
  <1>8. Cardinality(Spots(p, F) \cup Moved) = Cardinality(Spots(p, F)) + Cardinality(Moved)
    <2> HIDE DEF Moved
    <2>1. Cardinality(Spots(p, F) \cap Moved) = 0
      BY <1>7, FS_EmptySet
    <2>2. Cardinality(Spots(p, F) \cup Moved)
            = Cardinality(Spots(p, F)) + Cardinality(Moved) - Cardinality(Spots(p, F) \cap Moved)
      BY <1>4, <1>5, FS_Union
    <2> QED
      BY <1>4, <1>5, <2>1, <2>2 DEF Tally
  <1> QED
    BY <1>4, <1>5, <1>6, <1>8 DEF Tally

\* A sequence q that is p and one more call f, at place n.
LEMMA TallyAppended ==
  ASSUME NEW F, NEW p, NEW q, NEW f, NEW n, IsFiniteSet(Spots(p, F)),
         n \notin Spots(p, F),
         Spots(q, F) = IF f \in F THEN Spots(p, F) \cup {n} ELSE Spots(p, F)
  PROVE  IsFiniteSet(Spots(q, F)) /\ Tally(q, F) = Tally(p, F) + Hit(f, F)
  <1>1. /\ IsFiniteSet(Spots(p, F) \cup {n})
        /\ Cardinality(Spots(p, F) \cup {n}) = Cardinality(Spots(p, F)) + 1
    BY FS_AddElement
  <1>2. Cardinality(Spots(p, F)) \in Nat
    BY FS_CardinalityType
  <1>3. CASE f \in F
    BY <1>1, <1>3 DEF Tally, Hit
  <1>4. CASE f \notin F
    BY <1>2, <1>4 DEF Tally, Hit
  <1> QED
    BY <1>3, <1>4

\* The calls of the short sequences the actions make.
LEMMA FiniteOne ==
  ASSUME NEW F, NEW a
  PROVE  IsFiniteSet(Spots(<<a>>, F))
  <1>1. Spots(<<a>>, F) \in SUBSET {1}
    BY DEF Spots
  <1> QED
    BY <1>1, FS_Singleton, FS_Subset

LEMMA TallyTwo ==
  ASSUME NEW F, NEW a, NEW b
  PROVE  /\ IsFiniteSet(Spots(<<a, b>>, F))
         /\ Tally(<<a, b>>, F) = Hit(a, F) + Hit(b, F)
  <1>1. 2 \notin Spots(<<a>>, F)
    BY DEF Spots
  <1>2. Spots(<<a, b>>, F)
          = IF b \in F THEN Spots(<<a>>, F) \cup {2} ELSE Spots(<<a>>, F)
    BY DEF Spots
  <1>3. IsFiniteSet(Spots(<<a>>, F))
    BY FiniteOne, TallyOne
  <1>4. /\ IsFiniteSet(Spots(<<a, b>>, F))
        /\ Tally(<<a, b>>, F) = Tally(<<a>>, F) + Hit(b, F)
    BY <1>1, <1>2, <1>3, TallyAppended
  <1> QED
    BY <1>4, FiniteOne, TallyOne

LEMMA TallyThree ==
  ASSUME NEW F, NEW a, NEW b, NEW c
  PROVE  /\ IsFiniteSet(Spots(<<a, b, c>>, F))
         /\ Tally(<<a, b, c>>, F) = Hit(a, F) + Hit(b, F) + Hit(c, F)
  <1>1. 3 \notin Spots(<<a, b>>, F)
    BY DEF Spots
  <1>2. Spots(<<a, b, c>>, F)
          = IF c \in F THEN Spots(<<a, b>>, F) \cup {3} ELSE Spots(<<a, b>>, F)
    BY DEF Spots
  <1>3. IsFiniteSet(Spots(<<a, b>>, F))
    BY TallyTwo
  <1>4. /\ IsFiniteSet(Spots(<<a, b, c>>, F))
        /\ Tally(<<a, b, c>>, F) = Tally(<<a, b>>, F) + Hit(c, F)
    BY <1>1, <1>2, <1>3, TallyAppended
  <1> QED
    BY <1>4, TallyTwo

LEMMA TallyFour ==
  ASSUME NEW F, NEW a, NEW b, NEW c, NEW d
  PROVE  /\ IsFiniteSet(Spots(<<a, b, c, d>>, F))
         /\ Tally(<<a, b, c, d>>, F) = Hit(a, F) + Hit(b, F) + Hit(c, F) + Hit(d, F)
  <1>1. 4 \notin Spots(<<a, b, c>>, F)
    BY DEF Spots
  <1>2. Spots(<<a, b, c, d>>, F)
          = IF d \in F THEN Spots(<<a, b, c>>, F) \cup {4} ELSE Spots(<<a, b, c>>, F)
    BY DEF Spots
  <1>3. IsFiniteSet(Spots(<<a, b, c>>, F))
    BY TallyThree
  <1>4. /\ IsFiniteSet(Spots(<<a, b, c, d>>, F))
        /\ Tally(<<a, b, c, d>>, F) = Tally(<<a, b, c>>, F) + Hit(d, F)
    BY <1>1, <1>2, <1>3, TallyAppended
  <1> QED
    BY <1>4, TallyThree

\* A sequence and its head.
LEMMA TallyHead ==
  ASSUME NEW S, NEW q \in Seq(S), q # <<>>, NEW F
  PROVE  /\ Head(q) \in S
         /\ Tail(q) \in Seq(S)
         /\ Tally(q, F) = Hit(Head(q), F) + Tally(Tail(q), F)
  <1>1. Head(q) \in S /\ Tail(q) \in Seq(S)
    BY HeadTailProperties
  <1>2. q = <<Head(q)>> \o Tail(q)
    <2>1. Len(q) \in Nat \ {0} /\ q[1] = Head(q)
      BY EmptySeq
    <2>2. /\ Len(Tail(q)) = Len(q) - 1
          /\ \A i \in 1 .. Len(Tail(q)) : Tail(q)[i] = q[i + 1]
      BY HeadTailProperties
    <2> DEFINE r == <<Head(q)>> \o Tail(q)
    <2>3. <<Head(q)>> \in Seq(S) /\ Len(<<Head(q)>>) = 1 /\ <<Head(q)>>[1] = Head(q)
      BY <1>1
    <2>4. /\ r \in Seq(S)
          /\ Len(r) = 1 + Len(Tail(q))
          /\ \A i \in 1 .. 1 + Len(Tail(q)) :
               r[i] = IF i <= 1 THEN <<Head(q)>>[i] ELSE Tail(q)[i - 1]
      <3> HIDE DEF r
      <3> QED
        BY <1>1, <2>3, ConcatProperties DEF r
    <2> HIDE DEF r
    <2>5. Len(r) = Len(q)
      BY <2>1, <2>2, <2>4
    <2>6. \A i \in 1 .. Len(q) : q[i] = r[i]
      <3> SUFFICES ASSUME NEW i \in 1 .. Len(q) PROVE q[i] = r[i]
        OBVIOUS
      <3>1. CASE i = 1
        BY <2>1, <2>2, <2>3, <2>4, <3>1
      <3>2. CASE i # 1
        <4>1. i - 1 \in 1 .. Len(Tail(q)) /\ (i - 1) + 1 = i
          BY <2>1, <2>2, <3>2
        <4>2. r[i] = Tail(q)[i - 1]
          BY <2>1, <2>2, <2>4, <3>2
        <4> QED
          BY <2>2, <4>1, <4>2
      <3> QED
        BY <3>1, <3>2
    <2>7. q = r
      BY <2>4, <2>5, <2>6, SeqEqual
    <2> QED
      BY <2>7 DEF r
  <1>3. <<Head(q)>> \in Seq(S)
    BY <1>1
  <1>4. Tally(<<Head(q)>> \o Tail(q), F) = Tally(<<Head(q)>>, F) + Tally(Tail(q), F)
    BY <1>1, <1>3, TallyConcat
  <1> QED
    BY <1>1, <1>2, <1>4, TallyOne

-----------------------------------------------------------------------------
(* The stacks.                                                             *)

LEMMA CountType ==
  ASSUME NEW st, NEW F, IsFiniteSet(Places(st, F))
  PROVE  Count(st, F) \in Nat
  BY FS_CardinalityType DEF Count

\* A call of kind F is on a stack iff there is one to count.
LEMMA Counted ==
  ASSUME NEW st, NEW F, IsFiniteSet(Places(st, F))
  PROVE  Count(st, F) > 0 <=> \E t \in DOMAIN st : \E i \in DOMAIN st[t] : st[t][i] \in F
  <1>1. Count(st, F) \in Nat /\ (Count(st, F) = 0 <=> Places(st, F) = {})
    BY CountType, FS_EmptySet DEF Count
  <1>2. ASSUME NEW p \in Places(st, F)
        PROVE  \E t \in DOMAIN st : \E i \in DOMAIN st[t] : st[t][i] \in F
    <2>1. PICK t \in DOMAIN st : p \in {t} \X Spots(st[t], F)
      BY DEF Places
    <2> QED
      BY <2>1 DEF Spots
  <1>3. ASSUME NEW t \in DOMAIN st, NEW i \in DOMAIN st[t], st[t][i] \in F
        PROVE  <<t, i>> \in Places(st, F)
    BY <1>3 DEF Places, Spots
  <1>4. Places(st, F) # {} <=> \E t \in DOMAIN st : \E i \in DOMAIN st[t] : st[t][i] \in F
    BY <1>2, <1>3
  <1>5. Count(st, F) > 0 <=> Places(st, F) # {}
    BY <1>1
  <1> QED
    BY <1>4, <1>5

\* The calls of a kind are among those of a larger kind.
LEMMA CountSubset ==
  ASSUME NEW st, NEW F, NEW G, F \subseteq G, IsFiniteSet(Places(st, G))
  PROVE  IsFiniteSet(Places(st, F)) /\ Count(st, F) <= Count(st, G)
  <1>1. Places(st, F) \in SUBSET Places(st, G)
    BY DEF Places, Spots
  <1> QED
    BY <1>1, FS_Subset DEF Count

\* No thread has anything to do.
LEMMA CountIdle ==
  ASSUME NEW st, NEW F, \A t \in DOMAIN st : st[t] = <<>>
  PROVE  IsFiniteSet(Places(st, F)) /\ Count(st, F) = 0
  <1>1. \A t \in DOMAIN st : Spots(st[t], F) = {}
    BY DEF Spots
  <1>2. Places(st, F) = {}
    BY <1>1 DEF Places
  <1> QED
    BY <1>2, FS_EmptySet DEF Count

\* The calls on one stack, that of t, and on the others.
LEMMA CountOthers ==
  ASSUME NEW st, NEW t \in DOMAIN st, NEW F, NEW others, IsFiniteSet(others),
         others = UNION {{u} \X Spots(st[u], F) : u \in DOMAIN st \ {t}},
         IsFiniteSet(Spots(st[t], F))
  PROVE  /\ IsFiniteSet(Places(st, F))
         /\ Count(st, F) = Cardinality(others) + Tally(st[t], F)
  <1> DEFINE mine == {t} \X Spots(st[t], F)
  <1>1. Places(st, F) = others \cup mine
    BY DEF Places
  <1>2. others \cap mine = {}
    OBVIOUS
  <1>3. IsFiniteSet(mine) /\ Cardinality(mine) = Tally(st[t], F)
    <2>1. IsFiniteSet({t}) /\ Cardinality({t}) = 1
      BY FS_Singleton
    <2>2. IsFiniteSet(mine) /\ Cardinality(mine) = Cardinality({t}) * Cardinality(Spots(st[t], F))
      BY <2>1, FS_Product
    <2>3. Cardinality(Spots(st[t], F)) \in Nat
      BY FS_CardinalityType
    <2> QED
      BY <2>1, <2>2, <2>3 DEF Tally
  <1> HIDE DEF mine
  <1>4. Cardinality(others \cap mine) = 0
    BY <1>2, FS_EmptySet
  <1>5. /\ IsFiniteSet(others \cup mine)
        /\ Cardinality(others \cup mine)
             = Cardinality(others) + Cardinality(mine) - Cardinality(others \cap mine)
    BY <1>3, FS_Union
  <1>6. Cardinality(others) \in Nat /\ Cardinality(mine) \in Nat
    BY <1>3, FS_CardinalityType
  <1> QED
    BY <1>1, <1>3, <1>4, <1>5, <1>6 DEF Count

\* Only t has something to do: one call.
LEMMA CountSingle ==
  ASSUME NEW st, NEW t \in DOMAIN st, NEW c, st[t] = <<c>>,
         \A u \in DOMAIN st \ {t} : st[u] = <<>>, NEW F
  PROVE  IsFiniteSet(Places(st, F)) /\ Count(st, F) = Hit(c, F)
  <1> DEFINE others == UNION {{u} \X Spots(st[u], F) : u \in DOMAIN st \ {t}}
  <1>1. others = {}
    <2>1. \A u \in DOMAIN st \ {t} : Spots(st[u], F) = {}
      BY DEF Spots
    <2> QED
      BY <2>1
  <1>2. IsFiniteSet(others) /\ Cardinality(others) = 0
    BY <1>1, FS_EmptySet
  <1>3. IsFiniteSet(Spots(st[t], F)) /\ Tally(st[t], F) = Hit(c, F)
    BY FiniteOne, TallyOne
  <1>4. others = UNION {{u} \X Spots(st[u], F) : u \in DOMAIN st \ {t}}
    OBVIOUS
  <1> HIDE DEF others
  <1>5. IsFiniteSet(Places(st, F)) /\ Count(st, F) = Cardinality(others) + Tally(st[t], F)
    BY <1>2, <1>3, <1>4, CountOthers
  <1>6. Hit(c, F) \in Nat
    BY DEF Hit
  <1> QED
    BY <1>2, <1>3, <1>5, <1>6

\* Only the stack of thread t changes.
LEMMA Updated ==
  ASSUME NEW T, NEW S, NEW st \in Stacks(T, S), NEW new \in Stacks(T, S), NEW t \in T,
         ChangesAt(t, st, new),
         NEW F, IsFiniteSet(Places(st, F))
  PROVE  /\ IsFiniteSet(Places(new, F))
         /\ Count(st, F) \in Nat /\ Count(new, F) \in Nat
         /\ Count(new, F) + Tally(st[t], F) = Count(st, F) + Tally(new[t], F)
  <1> DEFINE others == UNION {{u} \X Spots(st[u], F) : u \in T \ {t}}
  <1>1. /\ DOMAIN new = T /\ DOMAIN st = T
        /\ st[t] \in Seq(S) /\ new[t] \in Seq(S)
        /\ \A u \in T \ {t} : new[u] = st[u]
    BY DEF Stacks, ChangesAt
  <1>2. others = UNION {{u} \X Spots(new[u], F) : u \in T \ {t}}
    BY <1>1
  <1>3. IsFiniteSet(others)
    <2>1. others \in SUBSET Places(st, F)
      BY <1>1 DEF Places
    <2> HIDE DEF others
    <2> QED
      BY <2>1, FS_Subset
  <1>4. others = UNION {{u} \X Spots(st[u], F) : u \in DOMAIN st \ {t}}
    BY <1>1
  <1>5. others = UNION {{u} \X Spots(new[u], F) : u \in DOMAIN new \ {t}}
    BY <1>1, <1>2
  <1> HIDE DEF others
  <1>6. /\ IsFiniteSet(Spots(st[t], F)) /\ Tally(st[t], F) \in Nat
        /\ IsFiniteSet(Spots(new[t], F)) /\ Tally(new[t], F) \in Nat
    BY <1>1, TallyType
  <1>7. Count(st, F) = Cardinality(others) + Tally(st[t], F)
    BY <1>1, <1>3, <1>4, <1>6, CountOthers
  <1>8. IsFiniteSet(Places(new, F)) /\ Count(new, F) = Cardinality(others) + Tally(new[t], F)
    BY <1>1, <1>3, <1>5, <1>6, CountOthers
  <1>9. Cardinality(others) \in Nat
    BY <1>3, FS_CardinalityType
  <1> QED
    BY <1>6, <1>7, <1>8, <1>9

\* Thread t executes the call at the head of its stack, which makes calls.
Executes(t, st, new, calls) ==
  /\ ChangesAt(t, st, new)
  /\ st[t] # <<>>
  /\ new[t] = calls \o Tail(st[t])

LEMMA Replaced ==
  ASSUME NEW T, NEW S, NEW st \in Stacks(T, S), NEW new \in Stacks(T, S), NEW t \in T,
         NEW calls \in Seq(S), Executes(t, st, new, calls),
         NEW F, IsFiniteSet(Places(st, F))
  PROVE  /\ IsFiniteSet(Places(new, F))
         /\ Count(st, F) \in Nat /\ Count(new, F) \in Nat
         /\ Count(new, F) + Hit(Head(st[t]), F) = Count(st, F) + Tally(calls, F)
  <1>1. /\ Tail(st[t]) \in Seq(S)
        /\ Tally(st[t], F) = Hit(Head(st[t]), F) + Tally(Tail(st[t]), F)
    BY TallyHead DEF Stacks, Executes
  <1>2. Tally(new[t], F) = Tally(calls, F) + Tally(Tail(st[t]), F)
    <2>1. Tally(calls \o Tail(st[t]), F) = Tally(calls, F) + Tally(Tail(st[t]), F)
      BY <1>1, TallyConcat
    <2> QED
      BY <2>1 DEF Executes
  <1>3. ChangesAt(t, st, new)
    BY DEF Executes
  <1>4. /\ IsFiniteSet(Places(new, F))
        /\ Count(st, F) \in Nat /\ Count(new, F) \in Nat
        /\ Count(new, F) + Tally(st[t], F) = Count(st, F) + Tally(new[t], F)
    BY <1>3, Updated
  <1>5. Tally(Tail(st[t]), F) \in Nat /\ Tally(calls, F) \in Nat /\ Hit(Head(st[t]), F) \in Nat
    BY <1>1, TallyType DEF Hit
  <1> QED
    BY <1>1, <1>2, <1>4, <1>5

\* The idle thread t starts calls.
LEMMA Started ==
  ASSUME NEW T, NEW S, NEW st \in Stacks(T, S), NEW new \in Stacks(T, S), NEW t \in T,
         ChangesAt(t, st, new),
         st[t] = <<>>,
         NEW F, IsFiniteSet(Places(st, F))
  PROVE  /\ IsFiniteSet(Places(new, F))
         /\ Count(st, F) \in Nat /\ Count(new, F) \in Nat
         /\ Count(new, F) = Count(st, F) + Tally(new[t], F)
  <1>1. Tally(st[t], F) = 0
    BY TallyNone
  <1>2. /\ IsFiniteSet(Places(new, F))
        /\ Count(st, F) \in Nat /\ Count(new, F) \in Nat
        /\ Count(new, F) + Tally(st[t], F) = Count(st, F) + Tally(new[t], F)
    BY Updated
  <1> QED
    BY <1>1, <1>2

\* The call at the head of a stack is one of its kind.
LEMMA HeadCounted ==
  ASSUME NEW T, NEW S, NEW st \in Stacks(T, S), NEW t \in T, st[t] # <<>>,
         NEW F, Head(st[t]) \in F, IsFiniteSet(Places(st, F))
  PROVE  Count(st, F) \in Nat /\ Count(st, F) >= 1
  <1>1. 1 \in DOMAIN st[t] /\ st[t][1] = Head(st[t])
    BY EmptySeq, LenProperties DEF Stacks
  <1>2. t \in DOMAIN st
    BY DEF Stacks
  <1> QED
    BY <1>1, <1>2, CountType, Counted

\* When there is one call only, the thread that is not idle executes it.
LEMMA OnlyCall ==
  ASSUME NEW T, NEW S, NEW st \in Stacks(T, S), IsFiniteSet(Places(st, S)),
         Count(st, S) <= 1,
         NEW F, F \subseteq S, Count(st, F) >= 1,
         NEW t \in T, st[t] # <<>>
  PROVE  /\ Head(st[t]) \in F
         /\ Tail(st[t]) = <<>>
         /\ \A u \in T \ {t} : st[u] = <<>>
  <1>1. IsFiniteSet(Places(st, F)) /\ Count(st, F) <= Count(st, S)
    BY CountSubset
  <1>2. Count(st, F) \in Nat /\ Count(st, S) \in Nat
    BY <1>1, CountType
  <1>3. Count(st, F) = Count(st, S) /\ Count(st, S) = 1
    BY <1>1, <1>2
  <1>4. PICK p : Places(st, S) = {p}
    BY <1>3, FS_Singleton DEF Count
  <1>5. \A u \in T : \A i \in DOMAIN st[u] : <<u, i>> = p
    <2> SUFFICES ASSUME NEW u \in T, NEW i \in DOMAIN st[u] PROVE <<u, i>> \in Places(st, S)
      BY <1>4
    <2>1. st[u][i] \in S
      BY ElementOfSeq, LenProperties DEF Stacks
    <2> QED
      BY <2>1 DEF Places, Spots, Stacks
  <1>6. \A u \in T : st[u] # <<>> => 1 \in DOMAIN st[u] /\ st[u][1] = Head(st[u])
    BY EmptySeq, LenProperties DEF Stacks
  <1>7. \A u \in T \ {t} : st[u] = <<>>
    BY <1>5, <1>6
  <1>8. \E u \in T : \E i \in DOMAIN st[u] : st[u][i] \in F
    BY <1>1, <1>2, <1>3, Counted DEF Stacks
  <1>9. Head(st[t]) \in F
    BY <1>5, <1>6, <1>8
  <1>10. Tail(st[t]) = <<>>
    <2>1. /\ st[t] \in Seq(S)
          /\ Len(st[t]) \in Nat /\ DOMAIN st[t] = 1 .. Len(st[t])
      BY LenProperties DEF Stacks
    <2>2. Len(st[t]) = 1
      <3>1. 1 \in 1 .. Len(st[t])
        BY <1>6, <2>1
      <3>2. 2 \notin 1 .. Len(st[t])
        <4>1. SUFFICES ASSUME 2 \in 1 .. Len(st[t]) PROVE FALSE
          OBVIOUS
        <4>2. <<t, 1>> = p /\ <<t, 2>> = p
          BY <1>5, <2>1, <3>1, <4>1
        <4> QED
          BY <4>2
      <3>3. \A n \in Nat : 1 \in 1 .. n /\ 2 \notin 1 .. n => n = 1
        OBVIOUS
      <3>4. Len(st[t]) \in Nat
        BY <2>1
      <3> QED
        BY <3>1, <3>2, <3>3, <3>4
    <2>3. Tail(st[t]) \in Seq(S) /\ Len(Tail(st[t])) = 0
      BY <2>1, <2>2, HeadTailProperties
    <2> QED
      BY <2>3, EmptySeq
  <1> QED
    BY <1>7, <1>9, <1>10

\* At most one thread has something to do, and one call only.
LEMMA OneCall ==
  ASSUME NEW T, NEW S, NEW st \in Stacks(T, S), NEW t \in T,
         \A u \in T \ {t} : st[u] = <<>>, Len(st[t]) <= 1, NEW F
  PROVE  Count(st, F) \in Nat /\ Count(st, F) <= 1
  <1>1. \A u \in T \ {t} : Spots(st[u], F) = {}
    BY DEF Spots
  <1>2. Spots(st[t], F) \subseteq {1}
    <2>1. Len(st[t]) \in Nat /\ DOMAIN st[t] = 1 .. Len(st[t])
      BY LenProperties DEF Stacks
    <2> QED
      BY <2>1 DEF Spots
  <1>3. Places(st, F) \subseteq {<<t, 1>>}
    BY <1>1, <1>2 DEF Places, Stacks
  <1>4. IsFiniteSet({<<t, 1>>}) /\ Cardinality({<<t, 1>>}) = 1
    BY FS_Singleton
  <1> QED
    BY <1>3, <1>4, FS_Subset, FS_CardinalityType DEF Count

\* When there is one call of a kind only, and thread t executes it, there is
\* none of a narrower kind which that call is not of.
LEMMA OnlyOfKind ==
  ASSUME NEW T, NEW S, NEW st \in Stacks(T, S), NEW t \in T, st[t] # <<>>,
         NEW F, IsFiniteSet(Places(st, F)), Count(st, F) <= 1, Head(st[t]) \in F,
         NEW G, G \subseteq F, Head(st[t]) \notin G
  PROVE  Count(st, G) = 0
  <1>1. IsFiniteSet(Places(st, G)) /\ Count(st, G) <= Count(st, F)
    BY CountSubset
  <1>2. Count(st, G) \in Nat /\ Count(st, F) \in Nat
    BY <1>1, CountType
  <1>3. Count(st, F) >= 1
    BY HeadCounted
  <1>4. PICK p : Places(st, F) = {p}
    <2>1. Cardinality(Places(st, F)) = 1
      BY <1>2, <1>3 DEF Count
    <2> QED
      BY <2>1, FS_Singleton
  <1>5. 1 \in DOMAIN st[t] /\ st[t][1] = Head(st[t]) /\ t \in DOMAIN st
    BY EmptySeq, LenProperties DEF Stacks
  <1>6. p = <<t, 1>>
    <2>1. st[t][1] \in F
      BY <1>5
    <2>2. 1 \in Spots(st[t], F)
      BY <1>5, <2>1 DEF Spots
    <2>3. <<t, 1>> \in Places(st, F)
      BY <1>5, <2>2 DEF Places
    <2> QED
      BY <1>4, <2>3
  <1>7. ASSUME NEW u \in DOMAIN st, NEW i \in DOMAIN st[u], st[u][i] \in G
        PROVE  FALSE
    <2>1. <<u, i>> \in Places(st, F)
      BY <1>7 DEF Places, Spots
    <2>2. u = t /\ i = 1
      BY <1>4, <1>6, <2>1
    <2> QED
      BY <1>5, <1>7, <2>2
  <1>8. ~(Count(st, G) > 0)
    BY <1>1, <1>7, Counted
  <1> QED
    BY <1>2, <1>8

\* The calls of either of two kinds.
LEMMA CountUnion ==
  ASSUME NEW st, NEW F, NEW G, IsFiniteSet(Places(st, F)), IsFiniteSet(Places(st, G))
  PROVE  /\ IsFiniteSet(Places(st, F \cup G))
         /\ Count(st, F \cup G) <= Count(st, F) + Count(st, G)
  <1>1. Places(st, F \cup G) = Places(st, F) \cup Places(st, G)
    BY DEF Places, Spots
  <1>2. /\ IsFiniteSet(Places(st, F) \cup Places(st, G))
        /\ Cardinality(Places(st, F) \cup Places(st, G))
             = Cardinality(Places(st, F)) + Cardinality(Places(st, G))
               - Cardinality(Places(st, F) \cap Places(st, G))
    BY FS_Union
  <1>3. Cardinality(Places(st, F) \cap Places(st, G)) \in Nat
    <2>1. Places(st, F) \cap Places(st, G) \in SUBSET Places(st, F)
      OBVIOUS
    <2> QED
      BY <2>1, FS_Subset, FS_CardinalityType
  <1>4. Cardinality(Places(st, F)) \in Nat /\ Cardinality(Places(st, G)) \in Nat
    BY FS_CardinalityType
  <1>5. IsFiniteSet(Places(st, F \cup G))
    BY <1>1, <1>2
  <1>6. Cardinality(Places(st, F \cup G))
          = Cardinality(Places(st, F)) + Cardinality(Places(st, G))
            - Cardinality(Places(st, F) \cap Places(st, G))
    BY <1>1, <1>2
  <1> QED
    BY <1>3, <1>4, <1>5, <1>6 DEF Count

=============================================================================

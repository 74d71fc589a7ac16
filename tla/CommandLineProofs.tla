-------------------------- MODULE CommandLineProofs --------------------------
(***************************************************************************)
(* Proofs about the command line, for any command lines, any size of a     *)
(* word and any ranges of the numbers that CommandLineAssumption allows,   *)
(* the 2^64 and 64 MiB of the program among them: what parse(s, n, min,    *)
(* max) and address::build() make of a text, that the whole parser takes   *)
(* what a command line asks for, and that a printed address reads back.    *)
(*                                                                         *)
(* The numbers are folds over a text, that is functions on the sets of its *)
(* positions that are defined by recursion.  An induction is stated with   *)
(* the set of the numbers it holds for, and a recursion with a function    *)
(* for its step.                                                           *)
(***************************************************************************)
EXTENDS CommandLine, FiniteSetTheorems, SequenceTheorems, WellFoundedInduction, TLAPS

-----------------------------------------------------------------------------
(* Induction and recursion, from the least element of a set of numbers.    *)

LEMMA LeastNumber ==
  ASSUME NEW T, T \subseteq Nat, T # {}
  PROVE  \E x \in T : \A y \in T : x <= y
  <1> DEFINE R == OpToRel(<, Nat)
  <1>1. IsWellFoundedOn(R, Nat)
    BY NatLessThanWellFounded
  <1>2. \A x, y \in Nat : <<y, x>> \in R <=> y < x
    BY DEF OpToRel
  <1> HIDE DEF R
  <1>3. PICK x \in T : \A y \in T : ~(<<y, x>> \in R)
    BY <1>1, WFMin
  <1>4. ASSUME NEW y \in T PROVE x <= y
    <2>1. x \in Nat /\ y \in Nat
      OBVIOUS
    <2>2. ~(<<y, x>> \in R)
      BY <1>3
    <2>3. ~(y < x)
      BY <1>2, <2>1, <2>2
    <2> QED
      BY <2>1, <2>3
  <1> QED
    BY <1>4

\* A set that holds 0 and with every number the next one holds all.
LEMMA NumberInduction ==
  ASSUME NEW T, 0 \in T, \A k \in Nat : k \in T => k + 1 \in T
  PROVE  Nat \subseteq T
  <1>1. CASE Nat \ T # {}
    <2>1. PICK x \in Nat \ T : \A y \in Nat \ T : x <= y
      BY <1>1, LeastNumber
    <2>2. x - 1 \in Nat /\ ~(x <= x - 1) /\ (x - 1) + 1 = x
      BY <2>1
    <2>3. x - 1 \in T
      BY <2>1, <2>2
    <2> QED
      BY <2>1, <2>2, <2>3
  <1> QED
    BY <1>1

\* A recursion over the elements of D: F takes each of them, and the value of
\* the one before it, to its value; its size goes down to 0, the base.
Recurs(D, size, pred, V, base, F) ==
  /\ size \in [D -> Nat] /\ pred \in [D -> D] /\ base \in V /\ F \in [D \X V -> V]
  /\ \A d \in D : size[d] # 0 => size[pred[d]] < size[d]

Solves(g, D, size, pred, V, base, F) ==
  /\ g \in [D -> V]
  /\ \A d \in D : g[d] = IF size[d] = 0 THEN base ELSE F[<<d, g[pred[d]]>>]

\* It defines a function.
LEMMA Recursion ==
  ASSUME NEW D, NEW size, NEW pred, NEW V, NEW base, NEW F, Recurs(D, size, pred, V, base, F)
  PROVE  \E g : Solves(g, D, size, pred, V, base, F)
  <1> DEFINE Upto(k) == {d \in D : size[d] <= k}
             Holds(g, d) == g[d] = IF size[d] = 0 THEN base ELSE F[<<d, g[pred[d]]>>]
             Defines(g, k) == g \in [Upto(k) -> V] /\ \A d \in Upto(k) : Holds(g, d)
             T == {k \in Nat : \E g : Defines(g, k)}
  <1> USE DEF Recurs
  <1>1. \A k \in Nat, d \in D : size[d] # 0 /\ size[d] <= k + 1 => pred[d] \in Upto(k)
    OBVIOUS
  <1>2. 0 \in T
    <2> DEFINE g == [d \in Upto(0) |-> base]
    <2>1. Defines(g, 0)
      OBVIOUS
    <2> QED
      BY <2>1
  <1>3. ASSUME NEW k \in Nat, k \in T PROVE k + 1 \in T
    <2>1. PICK h : Defines(h, k)
      BY <1>3
    <2> DEFINE g == [d \in Upto(k + 1) |-> IF size[d] = 0 THEN base ELSE F[<<d, h[pred[d]]>>]]
    <2>2. g \in [Upto(k + 1) -> V]
      <3> SUFFICES ASSUME NEW d \in Upto(k + 1), size[d] # 0 PROVE F[<<d, h[pred[d]]>>] \in V
        OBVIOUS
      <3>1. pred[d] \in Upto(k)
        BY <1>1
      <3> QED
        BY <2>1, <3>1
    <2>3. \A d \in Upto(k) : g[d] = h[d]
      BY <2>1
    <2>4. ASSUME NEW d \in Upto(k + 1) PROVE Holds(g, d)
      <3>1. CASE size[d] = 0
        BY <3>1
      <3>2. CASE size[d] # 0
        <4>1. g[pred[d]] = h[pred[d]]
          BY <1>1, <2>3, <3>2
        <4> QED
          BY <3>2, <4>1
      <3> QED
        BY <3>1, <3>2
    <2>5. Defines(g, k + 1)
      BY <2>2, <2>4
    <2> HIDE DEF Defines
    <2>6. k + 1 \in Nat /\ \E f : Defines(f, k + 1)
      BY <2>5
    <2> QED
      BY <2>6
  <1>4. \A k \in Nat : k \in T
    BY <1>2, <1>3, NumberInduction
  <1>5. ASSUME NEW j \in Nat, NEW k \in Nat, NEW g, NEW h, Defines(g, j), Defines(h, k)
        PROVE  \A d \in D : size[d] <= j /\ size[d] <= k => g[d] = h[d]
    <2> DEFINE Both == {d \in D : size[d] <= j /\ size[d] <= k /\ g[d] # h[d]}
               Sizes == {size[d] : d \in Both}
    <2>1. CASE Both # {}
      <3>1. Sizes \subseteq Nat /\ Sizes # {}
        BY <2>1
      <3>2. PICK x \in Sizes : \A y \in Sizes : x <= y
        BY <3>1, LeastNumber
      <3>3. PICK d \in Both : size[d] = x
        BY <3>2
      <3>4. d \in D /\ size[d] <= j /\ size[d] <= k /\ Holds(g, d) /\ Holds(h, d)
        BY <1>5, <3>3
      <3>5. size[d] # 0
        BY <3>3, <3>4
      <3>6. pred[d] \in D /\ size[pred[d]] < size[d] /\ size[d] \in Nat /\ size[pred[d]] \in Nat
        BY <3>4, <3>5
      <3>7. pred[d] \notin Both
        <4>1. ASSUME pred[d] \in Both PROVE FALSE
          <5>1. size[pred[d]] \in Sizes
            BY <4>1
          <5>2. size[d] <= size[pred[d]]
            BY <3>2, <3>3, <5>1
          <5> QED
            BY <3>6, <5>2
        <4> QED
          BY <4>1
      <3>8. g[pred[d]] = h[pred[d]]
        BY <3>4, <3>6, <3>7
      <3>9. g[d] = h[d]
        BY <3>4, <3>5, <3>8
      <3> QED
        BY <3>3, <3>9
    <2> QED
      BY <2>1
  <1> DEFINE G == [k \in Nat |-> CHOOSE g : Defines(g, k)]
             all == [d \in D |-> G[size[d]][d]]
  <1>6. ASSUME NEW k \in Nat PROVE Defines(G[k], k)
    <2> HIDE DEF Defines
    <2>1. \E g : Defines(g, k)
      BY <1>4
    <2> QED
      BY <2>1
  <1> HIDE DEF G
  <1>7. ASSUME NEW d \in D
        PROVE  Defines(G[size[d]], size[d]) /\ d \in Upto(size[d])
    <2>1. size[d] \in Nat /\ d \in Upto(size[d])
      OBVIOUS
    <2> HIDE DEF Defines
    <2> QED
      BY <1>6, <2>1
  <1>8. all \in [D -> V]
    <2>1. ASSUME NEW d \in D PROVE G[size[d]][d] \in V
      BY <1>7
    <2> QED
      BY <2>1
  <1>9. ASSUME NEW d \in D PROVE Holds(all, d)
    <2>1. Holds(G[size[d]], d) /\ all[d] = G[size[d]][d]
      <3>1. Defines(G[size[d]], size[d]) /\ d \in Upto(size[d])
        BY <1>7
      <3> HIDE DEF Holds
      <3> QED
        BY <3>1
    <2>2. CASE size[d] = 0
      BY <2>1, <2>2
    <2>3. CASE size[d] # 0
      <3>1. /\ pred[d] \in D /\ size[pred[d]] < size[d] /\ size[d] \in Nat /\ size[pred[d]] \in Nat
            /\ all[pred[d]] = G[size[pred[d]]][pred[d]]
        BY <2>3
      <3>2. size[pred[d]] <= size[d] /\ size[pred[d]] <= size[pred[d]]
        BY <3>1
      <3>3. G[size[d]][pred[d]] = G[size[pred[d]]][pred[d]]
        <4>1. Defines(G[size[d]], size[d]) /\ Defines(G[size[pred[d]]], size[pred[d]])
          BY <1>6, <3>1
        <4> HIDE DEF Defines, all
        <4> QED
          BY <1>5, <3>1, <3>2, <4>1
      <3> QED
        BY <2>1, <2>3, <3>1, <3>3
    <2> QED
      BY <2>2, <2>3
  <1> HIDE DEF all
  <1>10. Solves(all, D, size, pred, V, base, F)
    BY <1>8, <1>9 DEF Solves
  <1> QED
    BY <1>10

-----------------------------------------------------------------------------
(* Texts.                                                                  *)

\* The characters: a prover does not know that a literal is a STRING.
Chars == STRING \cup Digit \cup {":", "[", "]"}

\* The text of an argument is one of characters.
LEMMA TextOfChars ==
  \A t \in Seq(STRING) : t \in Seq(Chars)
  <1>1. STRING \subseteq Chars
    BY DEF Chars
  <1> QED
    BY <1>1, SeqMonotonic

-----------------------------------------------------------------------------
(* One digit.                                                              *)

\* A digit stands for a number below ten.
LEMMA DigitsAreValues == DigitValue \in [Digit -> 0 .. 9]
  BY DEF DigitValue, Digit

\* For every option, a turn of the loop of parse(s, n, min, max) from a number
\* up to the maximum takes exactly the numbers up to the maximum, in the
\* arithmetic of words as in that of the integers.  The test tmp >= res alone
\* would let most overflows pass; the maximum is small enough for there to be
\* none.
THEOREM NumberDigitExact ==
  ASSUME NEW o \in Counted \cup {"--data"},
         NEW res \in 0 .. Most[o], NEW c \in Digit
  PROVE  NumberDigit(res, c, Most[o]) =
           IF res * 10 + DigitValue[c] <= Most[o]
           THEN res * 10 + DigitValue[c] ELSE Invalid
  <1>1. WordSize \in Nat /\ Most[o] \in Nat /\ 10 * Most[o] + 9 < WordSize
    BY CommandLineAssumption
  <1>2. DigitValue[c] \in 0 .. 9
    BY DigitsAreValues
  <1>3. /\ res * 10 + DigitValue[c] \in 0 .. WordSize - 1
        /\ res * 10 + DigitValue[c] >= res
    BY <1>1, <1>2
  <1>4. (res * 10 + DigitValue[c]) % WordSize = res * 10 + DigitValue[c]
    BY <1>1, <1>3
  <1>5. res # Invalid
    BY <1>1 DEF Invalid
  <1> QED
    BY <1>3, <1>4, <1>5 DEF NumberDigit

-----------------------------------------------------------------------------
(* The fold of parse(s, n, min, max).                                      *)

LEMMA LargestOf ==
  ASSUME NEW n \in Nat, NEW d, d \subseteq 1 .. n, d # {}
  PROVE  Max(d) \in d /\ \A y \in d : Max(d) >= y
  <1> DEFINE Bounds == {k \in Nat : \A y \in d : y <= k}
  <1>1. n \in Bounds
    OBVIOUS
  <1>2. PICK x \in Bounds : \A y \in Bounds : x <= y
    BY <1>1, LeastNumber
  <1>3. x \in d
    <2>1. CASE x = 0
      <3>1. PICK y \in d : TRUE
        OBVIOUS
      <3>2. y \in 1 .. n /\ y <= 0
        BY <1>2, <2>1, <3>1
      <3> QED
        BY <3>2
    <2>2. CASE x # 0 /\ x \notin d
      <3>1. x - 1 \in Bounds
        BY <1>2, <2>2
      <3>2. x <= x - 1
        BY <1>2, <3>1
      <3> QED
        BY <1>2, <3>2
    <2> QED
      BY <2>1, <2>2
  <1>4. \A y \in d : x >= y
    BY <1>2
  <1> QED
    BY <1>3, <1>4 DEF Max

LEMMA LargestUpto ==
  ASSUME NEW k \in Nat, k # 0
  PROVE  Max(1 .. k) = k
  <1>1. Max(1 .. k) \in 1 .. k /\ \A y \in 1 .. k : Max(1 .. k) >= y
    <2>1. 1 .. k \subseteq 1 .. k /\ 1 .. k # {}
      OBVIOUS
    <2> QED
      BY <2>1, LargestOf
  <1> QED
    BY <1>1

\* (1 .. k) without its largest element.
LEMMA LessUpto ==
  ASSUME NEW k \in Nat, k # 0
  PROVE  1 .. k # {} /\ Max(1 .. k) = k /\ (1 .. k) \ {k} = 1 .. k - 1 /\ k - 1 \in Nat
  <1>1. \A x : x \in (1 .. k) \ {k} <=> x \in 1 .. k - 1
    OBVIOUS
  <1>2. (1 .. k) \ {k} = 1 .. k - 1
    BY <1>1, Zenon
  <1>3. k \in 1 .. k /\ k - 1 \in Nat
    OBVIOUS
  <1> QED
    BY <1>2, <1>3, LargestUpto

\* A recursion over the sets of numbers up to n, each without its largest
\* element, as FoldLeft goes over a sequence.
Folding(n, V, base, F) == base \in V /\ F \in [(SUBSET (1 .. n)) \X V -> V]

Folded(g, n, V, base, F) ==
  /\ g \in [SUBSET (1 .. n) -> V]
  /\ \A d \in SUBSET (1 .. n) :
       g[d] = IF d = {} THEN base ELSE F[<<d, g[d \ {Max(d)}]>>]

LEMMA SetRecursion ==
  ASSUME NEW n \in Nat, NEW V, NEW base, NEW F, Folding(n, V, base, F)
  PROVE  \E g : Folded(g, n, V, base, F)
  <1> DEFINE D == SUBSET (1 .. n)
             last == [d \in D |-> IF d = {} THEN 0 ELSE Max(d)]
             rest == [d \in D |-> d \ {Max(d)}]
  <1>1. last \in [D -> Nat] /\ \A d \in D : last[d] = 0 <=> d = {}
    <2>1. ASSUME NEW d \in D, d # {}
          PROVE  Max(d) \in 1 .. n /\ Max(d) \in d
      BY <2>1, LargestOf
    <2> QED
      BY <2>1
  <1>2. rest \in [D -> D]
    OBVIOUS
  <1>3. ASSUME NEW d \in D, d # {}
        PROVE  last[rest[d]] < last[d]
    <2>1. Max(d) \in 1 .. n /\ \A y \in d : Max(d) >= y
      BY <1>3, LargestOf
    <2>2. CASE rest[d] = {}
      BY <2>1, <2>2, <1>3
    <2>3. CASE rest[d] # {}
      <3>1. Max(rest[d]) \in rest[d] /\ Max(rest[d]) \in Nat
        <4>1. rest[d] \subseteq 1 .. n
          BY <1>2
        <4> HIDE DEF rest
        <4>2. Max(rest[d]) \in rest[d]
          BY <2>3, <4>1, LargestOf
        <4> QED
          BY <4>1, <4>2
      <3>2. Max(rest[d]) \in d /\ Max(rest[d]) # Max(d)
        BY <3>1
      <3>3. Max(d) >= Max(rest[d])
        BY <2>1, <3>2
      <3>4. last[rest[d]] = Max(rest[d]) /\ last[d] = Max(d)
        BY <1>2, <1>3, <2>3
      <3> QED
        BY <2>1, <3>1, <3>2, <3>3, <3>4
    <2> QED
      BY <2>2, <2>3
  <1>4. PICK g \in [D -> V] :
          \A d \in D : g[d] = IF last[d] = 0 THEN base ELSE F[<<d, g[rest[d]]>>]
    <2> HIDE DEF last, rest
    <2>1. \A d \in D : last[d] # 0 => last[rest[d]] < last[d]
      BY <1>1, <1>3
    <2>2. Recurs(D, last, rest, V, base, F)
      BY <1>1, <1>2, <2>1 DEF Recurs, Folding
    <2>3. \E g : Solves(g, D, last, rest, V, base, F)
      BY <2>2, Recursion
    <2> QED
      BY <2>3 DEF Solves
  <1>5. ASSUME NEW d \in D
        PROVE  g[d] = IF d = {} THEN base ELSE F[<<d, g[d \ {Max(d)}]>>]
    <2>1. rest[d] = d \ {Max(d)}
      OBVIOUS
    <2> HIDE DEF last, rest
    <2> QED
      BY <1>1, <1>4, <2>1
  <1>6. Folded(g, n, V, base, F)
    BY <1>4, <1>5 DEF Folded
  <1> QED
    BY <1>6

-----------------------------------------------------------------------------
(* The number a text is written for.                                       *)

\* G is the sum of f over each set of numbers up to n, in whatever order.
Sums(G, n, f) ==
  /\ G \in [SUBSET (1 .. n) -> Nat] /\ G[{}] = 0
  /\ \A d \in SUBSET (1 .. n) : \A x \in d : G[d] = f[x] + G[d \ {x}]

LEMMA SumsExist ==
  ASSUME NEW n \in Nat, NEW f \in [1 .. n -> Nat]
  PROVE  \E G : Sums(G, n, f)
  <1> DEFINE D == SUBSET (1 .. n)
             F == [p \in D \X Nat |-> IF p[1] = {} THEN 0 ELSE f[Max(p[1])] + p[2]]
  <1>1. \A d \in D : d # {} => Max(d) \in d /\ Max(d) \in 1 .. n /\ \A y \in d : Max(d) >= y
    <2> SUFFICES ASSUME NEW d \in D, d # {}
                 PROVE  Max(d) \in d /\ \A y \in d : Max(d) >= y
      OBVIOUS
    <2> QED
      BY LargestOf
  <1>2. F \in [D \X Nat -> Nat]
    <2>1. ASSUME NEW p \in D \X Nat, p[1] # {} PROVE f[Max(p[1])] + p[2] \in Nat
      <3>1. p[1] \in D /\ p[2] \in Nat
        OBVIOUS
      <3>2. Max(p[1]) \in 1 .. n
        BY <1>1, <2>1, <3>1
      <3> QED
        BY <3>1, <3>2
    <2> HIDE DEF D
    <2> QED
      BY <2>1
  <1>3. PICK G \in [D -> Nat] :
          \A d \in D : G[d] = IF d = {} THEN 0 ELSE F[<<d, G[d \ {Max(d)}]>>]
    <2> DEFINE base == 0
               N == Nat
    <2> HIDE DEF F
    <2>1. Folding(n, N, base, F)
      BY <1>2 DEF Folding
    <2> HIDE DEF base, N
    <2>2. \E G : Folded(G, n, N, base, F)
      BY <2>1, SetRecursion
    <2> QED
      BY <2>2 DEF base, N, Folded
  <1>4. ASSUME NEW d \in D, d # {}
        PROVE  G[d] = f[Max(d)] + G[d \ {Max(d)}]
    <2>1. d \ {Max(d)} \in D /\ G[d \ {Max(d)}] \in Nat
      BY <1>3
    <2>2. F[<<d, G[d \ {Max(d)}]>>] = f[Max(d)] + G[d \ {Max(d)}]
      BY <1>4, <2>1
    <2> HIDE DEF F
    <2> QED
      BY <1>3, <1>4, <2>2
  <1>5. G[{}] = 0
    <2> HIDE DEF F
    <2> QED
      BY <1>3
  <1> DEFINE Free(d) == \A x \in d : G[d] = f[x] + G[d \ {x}]
             T == {k \in Nat : \A d \in D : (\A y \in d : y <= k) => Free(d)}
  <1>6. 0 \in T
    OBVIOUS
  <1>7. ASSUME NEW k \in Nat, k \in T
        PROVE  k + 1 \in T
    <2> SUFFICES \A d \in D : (\A y \in d : y <= k + 1) => Free(d)
      <3>1. k + 1 \in Nat
        OBVIOUS
      <3> HIDE DEF Free, D
      <3> QED
        BY <3>1
    <2> TAKE d \in D
    <2> HAVE \A y \in d : y <= k + 1
    <2> TAKE x \in d
    <2> DEFINE m == Max(d)
               e == d \ {m}
    <2>1. m \in d /\ m \in 1 .. n /\ (\A y \in d : m >= y) /\ e \in D /\ d \ {x} \in D
      BY <1>1
    <2>2. G[d] = f[m] + G[e]
      BY <1>4
    <2>3. CASE x = m
      BY <2>2, <2>3
    <2>4. CASE x # m
      <3>1. x \in e /\ \A y \in e : y <= k
        BY <2>1, <2>4
      <3>2. G[e] = f[x] + G[e \ {x}]
        BY <1>7, <2>1, <3>1
      <3>3. d \ {x} # {} /\ Max(d \ {x}) = m
        <4>1. m \in d \ {x}
          BY <2>1, <2>4
        <4>2. Max(d \ {x}) \in d \ {x} /\ \A y \in d \ {x} : Max(d \ {x}) >= y
          BY <1>1, <2>1, <4>1
        <4>3. Max(d \ {x}) \in d /\ Max(d \ {x}) >= m
          BY <4>1, <4>2
        <4>4. m >= Max(d \ {x}) /\ Max(d \ {x}) \in 1 .. n
          BY <2>1, <4>3
        <4> HIDE DEF m
        <4> QED
          BY <2>1, <4>1, <4>3, <4>4
      <3>4. G[d \ {x}] = f[m] + G[(d \ {x}) \ {m}]
        BY <1>4, <2>1, <3>3
      <3>5. (d \ {x}) \ {m} = e \ {x} /\ e \ {x} \in D
        OBVIOUS
      <3>6. f[m] \in Nat /\ f[x] \in Nat /\ G[e \ {x}] \in Nat
        BY <1>3, <2>1, <3>5
      <3>7. G[(d \ {x}) \ {m}] = G[e \ {x}]
        BY <3>5
      <3> HIDE DEF m, e
      <3> QED
        BY <2>2, <3>2, <3>4, <3>6, <3>7
    <2> QED
      BY <2>3, <2>4
  <1>8. n \in T
    <2> HIDE DEF T
    <2> QED
      BY <1>6, <1>7, NumberInduction
  <1>9. \A d \in D : Free(d)
    <2>1. \A d \in D : \A y \in d : y <= n
      OBVIOUS
    <2> HIDE DEF Free, D
    <2> QED
      BY <1>8, <2>1
  <1>10. Sums(G, n, f)
    BY <1>3, <1>5, <1>9 DEF Sums
  <1> QED
    BY <1>10

\* MapThenSumSet(), which adds the elements in an order of its own, returns it.
Adds(g, n, f) ==
  g = [d \in SUBSET (1 .. n) |->
         IF d = {} THEN 0
         ELSE f[CHOOSE x \in d : TRUE] + g[d \ {CHOOSE x \in d : TRUE}]]

LEMMA SumInAnyOrder ==
  ASSUME NEW n \in Nat, NEW f, NEW G, Sums(G, n, f)
  PROVE  (CHOOSE g : Adds(g, n, f))[1 .. n] = G[1 .. n]
  <1> DEFINE D == SUBSET (1 .. n)
             g == CHOOSE g : Adds(g, n, f)
             some(d) == CHOOSE x \in d : TRUE
  <1>1. \A d \in D : d # {} => some(d) \in d
    OBVIOUS
  <1>2. Adds(G, n, f)
    <2>1. G = [d \in D |-> G[d]]
      BY DEF Sums
    <2>2. ASSUME NEW d \in D
          PROVE  G[d] = IF d = {} THEN 0 ELSE f[some(d)] + G[d \ {some(d)}]
      <3>1. CASE d = {}
        BY <3>1 DEF Sums
      <3>2. CASE d # {}
        <4>1. some(d) \in d
          BY <1>1, <3>2
        <4> HIDE DEF some
        <4> QED
          BY <3>2, <4>1 DEF Sums
      <3> QED
        BY <3>1, <3>2
    <2> HIDE DEF D
    <2>3. G = [d \in D |-> IF d = {} THEN 0 ELSE f[some(d)] + G[d \ {some(d)}]]
      BY <2>1, <2>2
    <2> QED
      BY <2>3 DEF Adds, D
  <1>3. Adds(g, n, f)
    BY <1>2
  <1> HIDE DEF g
  <1> DEFINE T == {k \in Nat : \A d \in D : Cardinality(d) = k => g[d] = G[d]}
  <1>4. \A d \in D : IsFiniteSet(d)
    <2>1. IsFiniteSet(1 .. n)
      BY FS_Interval
    <2> QED
      BY <2>1, FS_Subset
  <1>5. 0 \in T
    <2>1. ASSUME NEW d \in D, Cardinality(d) = 0 PROVE g[d] = G[d]
      <3>1. d = {}
        BY <1>4, <2>1, FS_EmptySet
      <3> QED
        BY <1>3, <3>1 DEF Adds, Sums
    <2> QED
      BY <2>1
  <1>6. ASSUME NEW k \in Nat, k \in T
        PROVE  k + 1 \in T
    <2> SUFFICES ASSUME NEW d \in D, Cardinality(d) = k + 1
                 PROVE  g[d] = G[d]
      OBVIOUS
    <2>1. d # {}
      BY <1>4, FS_EmptySet
    <2>2. some(d) \in d
      BY <1>1, <2>1
    <2>3. Cardinality(d \ {some(d)}) = k /\ d \ {some(d)} \in D
      <3>1. Cardinality(d \ {some(d)}) = Cardinality(d) - 1
        BY <1>4, <2>2, FS_RemoveElement
      <3> QED
        BY <3>1
    <2>4. g[d \ {some(d)}] = G[d \ {some(d)}]
      BY <1>6, <2>3
    <2>5. g[d] = f[some(d)] + g[d \ {some(d)}]
      BY <1>3, <2>1 DEF Adds
    <2>6. G[d] = f[some(d)] + G[d \ {some(d)}]
      BY <2>2 DEF Sums
    <2> HIDE DEF some
    <2> QED
      BY <2>4, <2>5, <2>6
  <1>7. Cardinality(1 .. n) \in Nat /\ 1 .. n \in D
    <2>1. Cardinality(1 .. n) = IF 1 > n THEN 0 ELSE n - 1 + 1
      BY FS_Interval
    <2> QED
      BY <2>1
  <1>8. Cardinality(1 .. n) \in T
    <2> HIDE DEF T
    <2> QED
      BY <1>5, <1>6, <1>7, NumberInduction
  <1>9. g[1 .. n] = G[1 .. n]
    BY <1>7, <1>8
  <1> QED
    BY <1>9 DEF g

LEMMA Weights ==
  /\ Weight \in [Nat -> Nat \ {0}] /\ Weight[0] = 1
  /\ \A k \in Nat : Weight[k + 1] = 10 * Weight[k]
  <1> DEFINE size == [k \in Nat |-> k]
             pred == [k \in Nat |-> IF k = 0 THEN 0 ELSE k - 1]
             V == Nat \ {0}
             F == [p \in Nat \X V |-> 10 * p[2]]
             Weighs(w) == w = [k \in Nat |-> IF k = 0 THEN 1 ELSE 10 * w[k - 1]]
  <1>1. PICK w : /\ w \in [Nat -> V]
                 /\ \A k \in Nat : w[k] = IF k = 0 THEN 1 ELSE F[<<k, w[pred[k]]>>]
    <2> DEFINE D == Nat
               base == 1
    <2>1. Recurs(D, size, pred, V, base, F)
      <3>1. size \in [D -> Nat] /\ pred \in [D -> D] /\ F \in [D \X V -> V]
        OBVIOUS
      <3>2. \A k \in D : size[k] # 0 => size[pred[k]] < size[k]
        OBVIOUS
      <3> QED
        BY <3>1, <3>2 DEF Recurs
    <2>2. \A k \in D : size[k] = k
      OBVIOUS
    <2> HIDE DEF D, size, pred, V, F, base
    <2>3. PICK w : Solves(w, D, size, pred, V, base, F)
      BY <2>1, Recursion
    <2>4. w \in [D -> V] /\ \A k \in D : w[k] = IF k = 0 THEN base ELSE F[<<k, w[pred[k]]>>]
      BY <2>2, <2>3 DEF Solves
    <2> QED
      BY <2>4 DEF D, base
  <1>2. \A k \in Nat : w[k] = IF k = 0 THEN 1 ELSE 10 * w[k - 1]
    <2> SUFFICES ASSUME NEW k \in Nat, k # 0 PROVE w[k] = 10 * w[k - 1]
      BY <1>1
    <2>1. pred[k] = k - 1 /\ k - 1 \in Nat /\ w[k - 1] \in V
      BY <1>1
    <2>2. F[<<k, w[k - 1]>>] = 10 * w[k - 1]
      BY <2>1
    <2> HIDE DEF F, pred
    <2> QED
      BY <1>1, <2>1, <2>2
  <1>3. Weighs(w)
    <2>1. w = [k \in Nat |-> w[k]]
      BY <1>1
    <2> QED
      BY <1>2, <2>1
  <1>4. Weighs(Weight)
    <2>1. Weight = CHOOSE u : Weighs(u)
      BY DEF Weight
    <2> HIDE DEF Weighs
    <2> QED
      BY <1>3, <2>1
  <1>5. /\ Weight[0] = 1
        /\ \A k \in Nat : Weight[k + 1] = 10 * Weight[k]
        /\ Weight = [k \in Nat |-> Weight[k]]
    <2>1. \A k \in Nat : Weight[k] = IF k = 0 THEN 1 ELSE 10 * Weight[k - 1]
      BY <1>4
    <2>2. ASSUME NEW k \in Nat PROVE Weight[k + 1] = 10 * Weight[k]
      <3>1. k + 1 \in Nat /\ k + 1 # 0 /\ (k + 1) - 1 = k
        OBVIOUS
      <3> QED
        BY <2>1, <3>1
    <2>3. Weight = [k \in Nat |-> Weight[k]]
      BY <1>4
    <2> QED
      BY <2>1, <2>2, <2>3
  <1> DEFINE T == {k \in Nat : Weight[k] \in V}
  <1>6. 0 \in T
    BY <1>5
  <1>7. ASSUME NEW k \in Nat, k \in T PROVE k + 1 \in T
    BY <1>5, <1>7
  <1>8. \A k \in Nat : Weight[k] \in V
    <2>1. Nat \subseteq T
      <3> HIDE DEF T
      <3> QED
        BY <1>6, <1>7, NumberInduction
    <2> QED
      BY <2>1
  <1>9. Weight \in [Nat -> V]
    <2> HIDE DEF V
    <2> QED
      BY <1>5, <1>8
  <1> QED
    BY <1>5, <1>9

\* The number a text of digits is written for, one digit after the other.
LEMMA DigitByDigit ==
  ASSUME NEW t \in Seq(Chars), \A k \in 1 .. Len(t) : t[k] \in Digit
  PROVE  \E v \in [0 .. Len(t) -> Nat] :
           /\ v[0] = 0
           /\ \A k \in 1 .. Len(t) : v[k] = DigitValue[t[k]] * Weight[Len(t) - k] + v[k - 1]
           /\ NumberOf(t) = v[Len(t)]
  <1> DEFINE n == Len(t)
             f == [k \in 1 .. n |-> DigitValue[t[k]] * Weight[n - k]]
  <1>1. n \in Nat /\ DOMAIN t = 1 .. n
    OBVIOUS
  <1>2. f \in [1 .. n -> Nat]
    <2>1. ASSUME NEW k \in 1 .. n PROVE DigitValue[t[k]] * Weight[n - k] \in Nat
      <3>1. DigitValue[t[k]] \in Nat
        BY DigitsAreValues
      <3>2. n - k \in Nat
        BY <1>1
      <3>3. Weight[n - k] \in Nat
        BY <3>2, Weights
      <3> QED
        BY <3>1, <3>3
    <2> QED
      BY <2>1
  <1>3. NumberOf(t) = (CHOOSE g : Adds(g, n, f))[1 .. n]
    <2> DEFINE D == SUBSET (1 .. n)
               Plain(g) ==
                 g = [d \in D |->
                        IF d = {} THEN 0
                        ELSE DigitValue[t[CHOOSE x \in d : TRUE]] * Weight[n - CHOOSE x \in d : TRUE]
                               + g[d \ {CHOOSE x \in d : TRUE}]]
    <2>1. NumberOf(t) = (CHOOSE g : Plain(g))[1 .. n]
      BY <1>1 DEF NumberOf, MapThenSumSet, MapThenFoldSet
    <2>2. ASSUME NEW g PROVE Plain(g) <=> Adds(g, n, f)
      <3>1. \A d \in D : d # {} =>
              /\ (CHOOSE x \in d : TRUE) \in 1 .. n
              /\ f[CHOOSE x \in d : TRUE] =
                   DigitValue[t[CHOOSE x \in d : TRUE]] * Weight[n - CHOOSE x \in d : TRUE]
        OBVIOUS
      <3> HIDE DEF f
      <3> DEFINE one(d) ==
                   IF d = {} THEN 0
                   ELSE DigitValue[t[CHOOSE x \in d : TRUE]] * Weight[n - CHOOSE x \in d : TRUE]
                          + g[d \ {CHOOSE x \in d : TRUE}]
                 two(d) ==
                   IF d = {} THEN 0
                   ELSE f[CHOOSE x \in d : TRUE] + g[d \ {CHOOSE x \in d : TRUE}]
      <3>2. \A d \in D : one(d) = two(d)
        BY <3>1
      <3>3. (Plain(g) <=> g = [d \in D |-> one(d)]) /\ (Adds(g, n, f) <=> g = [d \in D |-> two(d)])
        BY DEF Adds
      <3> HIDE DEF one, two, D, Plain
      <3> QED
        BY <3>2, <3>3
    <2>3. (CHOOSE g : Plain(g)) = CHOOSE g : Adds(g, n, f)
      <3> HIDE DEF Plain
      <3> QED
        BY <2>2
    <2> QED
      BY <2>1, <2>3
  <1> HIDE DEF f, n
  <1>4. PICK G : Sums(G, n, f)
    BY <1>1, <1>2, SumsExist
  <1>5. NumberOf(t) = G[1 .. n]
    BY <1>1, <1>3, <1>4, SumInAnyOrder
  <1> DEFINE v == [k \in 0 .. n |-> G[1 .. k]]
  <1>6. v \in [0 .. n -> Nat] /\ v[0] = 0 /\ NumberOf(t) = v[n]
    <2>1. \A k \in 0 .. n : 1 .. k \in SUBSET (1 .. n)
      BY <1>1
    <2>2. 1 .. 0 = {}
      OBVIOUS
    <2>3. 0 \in 0 .. n /\ n \in 0 .. n
      BY <1>1
    <2> QED
      BY <1>4, <1>5, <2>1, <2>2, <2>3 DEF Sums
  <1>7. ASSUME NEW k \in 1 .. n
        PROVE  v[k] = DigitValue[t[k]] * Weight[n - k] + v[k - 1]
    <2>1. k \in Nat /\ k # 0 /\ k \in 0 .. n /\ k - 1 \in 0 .. n
      BY <1>1
    <2>2. 1 .. k \in SUBSET (1 .. n) /\ k \in 1 .. k
      BY <1>1, <2>1
    <2>3. G[1 .. k] = f[k] + G[1 .. k - 1]
      <3>1. G[1 .. k] = f[k] + G[(1 .. k) \ {k}]
        BY <1>4, <2>2 DEF Sums
      <3>2. (1 .. k) \ {k} = 1 .. k - 1
        BY <2>1, LessUpto
      <3> QED
        BY <3>1, <3>2
    <2>4. f[k] = DigitValue[t[k]] * Weight[n - k]
      BY DEF f
    <2> QED
      BY <2>1, <2>3, <2>4
  <1> HIDE DEF v
  <1> QED
    BY <1>6, <1>7 DEF n

-----------------------------------------------------------------------------
(* The loop of parse(s, n, min, max).                                      *)

\* What the loop may hold.
Held(o) == {Invalid} \cup 0 .. Most[o]

LEMMA DigitHeld ==
  ASSUME NEW o \in Counted \cup {"--data"}, NEW res \in Held(o), NEW c
  PROVE  NumberDigit(res, c, Most[o]) \in Held(o)
  <1>1. WordSize \in Nat \ {0} /\ Most[o] \in Nat
    BY CommandLineAssumption
  <1>2. CASE res # Invalid /\ c \in Digit
    <2>1. DigitValue[c] \in 0 .. 9 /\ res \in Nat
      BY <1>1, <1>2, DigitsAreValues DEF Held
    <2> DEFINE tmp == (res * 10 + DigitValue[c]) % WordSize
    <2>2. tmp \in Nat
      BY <1>1, <2>1
    <2> QED
      BY <1>1, <2>2 DEF NumberDigit, Held
  <1> QED
    BY <1>2 DEF NumberDigit, Held

\* The fold over a text is what the loop holds at its end.
LEMMA Loop ==
  ASSUME NEW o \in Counted \cup {"--data"}, NEW s \in Seq(Chars), NEW min
  PROVE  \E h \in [0 .. Len(s) -> Held(o)] :
           /\ h[0] = 0
           /\ \A k \in 1 .. Len(s) : h[k] = NumberDigit(h[k - 1], s[k], Most[o])
           /\ ParseNumber(s, min, Most[o]) =
                IF s # <<>> /\ h[Len(s)] >= min THEN h[Len(s)] ELSE Invalid
  <1> DEFINE D == SUBSET (1 .. Len(s))
             V == Held(o)
             F == [p \in D \X V |-> NumberDigit(p[2], s[Max(p[1])], Most[o])]
             Folds(g) ==
               g = [d \in D |-> IF d = {} THEN 0
                                ELSE NumberDigit(g[d \ {Max(d)}], s[Max(d)], Most[o])]
  <1>1. Len(s) \in Nat /\ DOMAIN s = 1 .. Len(s) /\ Most[o] \in Nat
    BY CommandLineAssumption
  <1>2. ParseNumber(s, min, Most[o]) =
          LET n == (CHOOSE g : Folds(g))[1 .. Len(s)]
          IN IF s # <<>> /\ n >= min THEN n ELSE Invalid
    BY <1>1 DEF ParseNumber, FoldLeft, MapThenFoldSet
  <1>3. 0 \in V /\ F \in [D \X V -> V]
    <2>1. 0 \in V
      BY <1>1 DEF Held
    <2>2. \A p \in D \X V : NumberDigit(p[2], s[Max(p[1])], Most[o]) \in V
      BY DigitHeld
    <2> HIDE DEF D, V
    <2> QED
      BY <2>1, <2>2
  <1>4. PICK g \in [D -> V] :
          \A d \in D : g[d] = IF d = {} THEN 0 ELSE F[<<d, g[d \ {Max(d)}]>>]
    <2> DEFINE base == 0
    <2> HIDE DEF V, F
    <2>1. Folding(Len(s), V, base, F)
      BY <1>3 DEF Folding
    <2> HIDE DEF base
    <2>2. \E g : Folded(g, Len(s), V, base, F)
      BY <1>1, <2>1, SetRecursion
    <2> QED
      BY <2>2 DEF base, Folded
  <1>5. \E f : Folds(f)
    <2>1. \A d \in D, v \in V : F[<<d, v>>] = NumberDigit(v, s[Max(d)], Most[o])
      OBVIOUS
    <2>2. ASSUME NEW d \in D
          PROVE  g[d] = IF d = {} THEN 0
                        ELSE NumberDigit(g[d \ {Max(d)}], s[Max(d)], Most[o])
      <3>1. d \ {Max(d)} \in D /\ g[d \ {Max(d)}] \in V
        BY <1>4
      <3> HIDE DEF F, V
      <3> QED
        BY <1>4, <2>1, <3>1
    <2>3. g = [d \in D |-> g[d]]
      BY <1>4
    <2> HIDE DEF D, V, F
    <2>4. Folds(g)
      BY <2>2, <2>3
    <2> HIDE DEF Folds
    <2> QED
      BY <2>4
  <1> DEFINE fold == CHOOSE f : Folds(f)
  <1>6. Folds(fold)
    BY <1>5
  <1> HIDE DEF fold
  <1>7. /\ fold[{}] = 0
        /\ \A d \in D :
             d # {} => fold[d] = NumberDigit(fold[d \ {Max(d)}], s[Max(d)], Most[o])
    BY <1>6
  <1> DEFINE h == [k \in 0 .. Len(s) |-> fold[1 .. k]]
  <1>8. h[0] = 0
    BY <1>1, <1>7
  <1>9. ASSUME NEW k \in 1 .. Len(s)
        PROVE  h[k] = NumberDigit(h[k - 1], s[k], Most[o])
    <2>1. k \in Nat /\ k # 0 /\ k - 1 \in 0 .. Len(s) /\ 1 .. k \in D
      BY <1>1
    <2>2. fold[1 .. k] = NumberDigit(fold[1 .. k - 1], s[k], Most[o])
      <3>1. 1 .. k # {} /\ Max(1 .. k) = k /\ (1 .. k) \ {k} = 1 .. k - 1
        BY <2>1, LessUpto
      <3> QED
        BY <1>7, <2>1, <3>1
    <2> QED
      BY <2>1, <2>2
  <1>10. h \in [0 .. Len(s) -> V]
    <2> DEFINE T == {k \in Nat : k <= Len(s) => h[k] \in V}
    <2>1. 0 \in T
      BY <1>3, <1>8
    <2>2. ASSUME NEW k \in Nat, k \in T
          PROVE  k + 1 \in T
      <3>1. CASE k + 1 <= Len(s)
        <4>1. k + 1 \in 1 .. Len(s) /\ (k + 1) - 1 = k /\ k <= Len(s)
          BY <1>1, <3>1
        <4>2. h[k] \in V /\ h[k + 1] = NumberDigit(h[k], s[k + 1], Most[o])
          BY <1>9, <2>2, <4>1
        <4> HIDE DEF h
        <4>3. h[k + 1] \in V
          BY <4>2, DigitHeld
        <4> QED
          BY <4>3
      <3> QED
        BY <3>1
    <2> HIDE DEF h, V
    <2>3. Nat \subseteq T
      BY <2>1, <2>2, NumberInduction
    <2>4. \A k \in 0 .. Len(s) : h[k] \in V
      BY <1>1, <2>3
    <2> QED
      BY <2>4 DEF h
  <1>11. /\ h[Len(s)] = fold[1 .. Len(s)]
         /\ ParseNumber(s, min, Most[o]) =
              IF s # <<>> /\ fold[1 .. Len(s)] >= min THEN fold[1 .. Len(s)] ELSE Invalid
    BY <1>1, <1>2 DEF fold
  <1> HIDE DEF h
  <1> QED
    BY <1>8, <1>9, <1>10, <1>11

\* parse(s, n, min, max) returns a number in its range, or fails.
LEMMA NumberInRange ==
  ASSUME NEW o \in Counted \cup {"--data"}, NEW s \in Seq(Chars)
  PROVE  ParseNumber(s, Least[o], Most[o]) \in {Invalid} \cup Least[o] .. Most[o]
  <1>1. Least[o] \in Nat /\ Most[o] \in Nat /\ Len(s) \in Nat
    BY CommandLineAssumption
  <1>2. PICK h \in [0 .. Len(s) -> Held(o)] :
          ParseNumber(s, Least[o], Most[o]) =
            IF s # <<>> /\ h[Len(s)] >= Least[o] THEN h[Len(s)] ELSE Invalid
    BY Loop
  <1>3. h[Len(s)] \in {Invalid} \cup 0 .. Most[o]
    BY <1>1 DEF Held
  <1> QED
    BY <1>1, <1>2, <1>3 DEF Invalid

\* One more digit d, of weight w, after those of the number a.
LEMMA DigitAdded ==
  ASSUME NEW a \in Nat, NEW d \in Nat, NEW w \in Nat
  PROVE  d * w + a * (10 * w) = (a * 10 + d) * w
  OBVIOUS

\* More than m before it, and more than m with it.
LEMMA MoreThan ==
  ASSUME NEW m \in Nat, NEW w \in Nat, w # 0
  PROVE  /\ \A x \in Nat : x > m => x * w > m * w
         /\ \A d, v \in Nat : v > m * (10 * w) => d * w + v > m * w
  <1>1. ASSUME NEW x \in Nat, x > m PROVE x * w > m * w
    BY <1>1
  <1>2. ASSUME NEW d \in Nat, NEW v \in Nat, v > m * (10 * w) PROVE d * w + v > m * w
    <2>1. d * w \in Nat /\ m * w \in Nat /\ m * (10 * w) = 10 * (m * w)
      OBVIOUS
    <2> QED
      BY <1>2, <2>1
  <1> QED
    BY <1>1, <1>2

\* A loop over the digits of s that holds h[k] after k of them, and Invalid when
\* it is more than m or when one of them is no digit.
HoldsSoFar(h, s, m) ==
  /\ h \in [0 .. Len(s) -> {Invalid} \cup 0 .. m] /\ h[0] = 0
  /\ \A k \in 1 .. Len(s) :
       LET x == h[k - 1] * 10 + DigitValue[s[k]]
       IN h[k] = IF h[k - 1] # Invalid /\ s[k] \in Digit /\ x <= m THEN x ELSE Invalid

\* It reads the number the text is written for.  As long as it has not failed,
\* what it holds is the number so far; when it has, the number is too large
\* whatever digits are left.
LEMMA NumberRead ==
  ASSUME NEW s \in Seq(Chars), NEW m \in Nat, NEW h, HoldsSoFar(h, s, m)
  PROVE  h[Len(s)] = IF (\A k \in 1 .. Len(s) : s[k] \in Digit) /\ NumberOf(s) <= m
                     THEN NumberOf(s) ELSE Invalid
  <1> DEFINE n == Len(s)
  <1>1. n \in Nat /\ DOMAIN s = 1 .. n
    OBVIOUS
  <1>2. /\ h \in [0 .. n -> {Invalid} \cup 0 .. m] /\ h[0] = 0
        /\ \A k \in 1 .. n :
             LET x == h[k - 1] * 10 + DigitValue[s[k]]
             IN h[k] = IF h[k - 1] # Invalid /\ s[k] \in Digit /\ x <= m THEN x ELSE Invalid
    BY DEF HoldsSoFar
  <1> HIDE DEF n
  <1>3. \A k \in 0 .. n : h[k] # Invalid => h[k] \in 0 .. m
    BY <1>2
  <1>4. CASE \E k \in 1 .. n : s[k] \notin Digit
    <2>1. PICK k \in 1 .. n : s[k] \notin Digit
      BY <1>4
    <2> DEFINE T == {j \in Nat : k <= j /\ j <= n => h[j] = Invalid}
    <2>2. 0 \in T
      BY <2>1
    <2>3. ASSUME NEW j \in Nat, j \in T PROVE j + 1 \in T
      <3>1. CASE k <= j + 1 /\ j + 1 <= n
        <4>1. j + 1 \in 1 .. n /\ (j + 1) - 1 = j
          BY <1>1, <3>1
        <4>2. h[j] = Invalid \/ s[j + 1] \notin Digit => h[j + 1] = Invalid
          BY <1>2, <4>1
        <4>3. h[j] = Invalid \/ s[j + 1] \notin Digit
          BY <1>1, <2>1, <2>3, <3>1
        <4>4. h[j + 1] = Invalid
          BY <4>2, <4>3
        <4> QED
          BY <4>4
      <3> QED
        BY <3>1
    <2>4. h[n] = Invalid
      <3>1. n \in T
        <4> HIDE DEF T
        <4> QED
          BY <1>1, <2>2, <2>3, NumberInduction
      <3> QED
        BY <1>1, <2>1, <3>1
    <2> QED
      BY <1>1, <2>1, <2>4 DEF n
  <1>5. CASE \A k \in 1 .. n : s[k] \in Digit
    <2>1. PICK v \in [0 .. n -> Nat] :
            /\ v[0] = 0
            /\ \A k \in 1 .. n : v[k] = DigitValue[s[k]] * Weight[n - k] + v[k - 1]
            /\ NumberOf(s) = v[n]
      BY <1>5, DigitByDigit DEF n
    <2> DEFINE SoFar(k) ==
                 IF h[k] # Invalid THEN v[k] = h[k] * Weight[n - k]
                                   ELSE v[k] > m * Weight[n - k]
               T == {k \in Nat : k <= n => SoFar(k)}
    <2>2. 0 \in T
      <3>1. SoFar(0)
        <4>1. n - 0 = n /\ Weight[n] \in Nat
          BY <1>1, Weights
        <4>2. h[0] # Invalid /\ h[0] * Weight[n] = 0
          BY <1>2, <4>1 DEF Invalid
        <4> QED
          BY <2>1, <4>1, <4>2
      <3> QED
        BY <3>1
    <2>3. ASSUME NEW k \in Nat, k \in T, k + 1 <= n PROVE SoFar(k + 1)
      <3> DEFINE w == Weight[n - (k + 1)]
                 d == DigitValue[s[k + 1]]
                 x == h[k] * 10 + d
      <3>1. /\ k + 1 \in 1 .. n /\ (k + 1) - 1 = k /\ k \in 0 .. n /\ k <= n
            /\ n - (k + 1) \in Nat /\ (n - (k + 1)) + 1 = n - k
        BY <1>1, <2>3
      <3>2. w \in Nat \ {0} /\ Weight[n - k] = 10 * w
        BY <3>1, Weights
      <3>3. d \in 0 .. 9 /\ s[k + 1] \in Digit
        BY <1>5, <3>1, DigitsAreValues
      <3>4. v[k + 1] = d * w + v[k] /\ v[k] \in Nat
        BY <2>1, <3>1
      <3>5. h[k + 1] = IF h[k] # Invalid /\ s[k + 1] \in Digit /\ x <= m THEN x ELSE Invalid
        BY <1>2, <3>1
      <3>6. CASE h[k] # Invalid
        <4>1. h[k] \in 0 .. m
          BY <1>3, <3>1, <3>6
        <4>2. h[k + 1] = IF x <= m THEN x ELSE Invalid
          BY <3>3, <3>5, <3>6
        <4>3. v[k] = h[k] * (10 * w)
          BY <2>3, <3>1, <3>2, <3>6
        <4>4. v[k + 1] = x * w /\ x \in Nat
          <5>1. h[k] \in Nat /\ d \in Nat /\ w \in Nat
            <6> HIDE DEF w, d
            <6> QED
              BY <1>1, <3>2, <3>3, <4>1
          <5> HIDE DEF w, d, x
          <5>2. d * w + h[k] * (10 * w) = (h[k] * 10 + d) * w
            BY <5>1, DigitAdded
          <5>3. v[k + 1] = d * w + h[k] * (10 * w)
            BY <3>4, <4>3
          <5>4. x = h[k] * 10 + d
            BY DEF x
          <5>5. x \in Nat
            BY <5>1, <5>4
          <5>6. v[k + 1] = x * w
            BY <5>2, <5>3, <5>4
          <5> QED
            BY <5>5, <5>6
        <4>5. CASE x <= m
          <5>1. h[k + 1] = x /\ x # Invalid
            BY <4>2, <4>4, <4>5 DEF Invalid
          <5> HIDE DEF x, w
          <5> QED
            BY <4>4, <5>1 DEF w
        <4>6. CASE x > m
          <5>1. h[k + 1] = Invalid
            BY <1>1, <4>2, <4>4, <4>6
          <5>2. x * w > m * w
            <6> HIDE DEF x, w
            <6> QED
              BY <1>1, <3>2, <4>4, <4>6, MoreThan
          <5> QED
            BY <4>4, <5>1, <5>2
        <4> QED
          BY <1>1, <4>4, <4>5, <4>6
      <3>7. CASE h[k] = Invalid
        <4>1. h[k + 1] = Invalid
          BY <3>5, <3>7
        <4>2. v[k] > m * (10 * w)
          BY <2>3, <3>1, <3>2, <3>7
        <4>3. v[k + 1] > m * w
          <5> HIDE DEF w, d
          <5>1. d \in Nat /\ w \in Nat /\ w # 0
            BY <3>2, <3>3
          <5>2. d * w + v[k] > m * w
            BY <1>1, <3>4, <4>2, <5>1, MoreThan
          <5> QED
            BY <3>4, <5>2
        <4> QED
          BY <4>1, <4>3
      <3> QED
        BY <3>6, <3>7
    <2>4. SoFar(n)
      <3>1. ASSUME NEW k \in Nat, k \in T PROVE k + 1 \in T
        <4> HIDE DEF SoFar
        <4> QED
          BY <2>3, <3>1
      <3>2. n \in T
        <4> HIDE DEF T
        <4> QED
          BY <1>1, <2>2, <3>1, NumberInduction
      <3> QED
        BY <1>1, <3>2
    <2>5. IF h[n] # Invalid THEN NumberOf(s) = h[n] ELSE NumberOf(s) > m
      <3>1. n - n = 0 /\ n \in 0 .. n
        BY <1>1
      <3>2. h[n] # Invalid => h[n] \in Nat
        BY <1>1, <1>3, <3>1
      <3>3. IF h[n] # Invalid THEN v[n] = h[n] * Weight[0] ELSE v[n] > m * Weight[0]
        BY <2>4, <3>1
      <3>4. Weight[0] = 1
        BY Weights
      <3> QED
        BY <1>1, <2>1, <3>2, <3>3, <3>4
    <2>6. n \in 0 .. n /\ NumberOf(s) \in Nat
      BY <1>1, <2>1
    <2>7. h[n] # Invalid => h[n] <= m
      BY <1>3, <2>6
    <2> QED
      BY <1>5, <2>5, <2>6, <2>7 DEF n
  <1> QED
    BY <1>4, <1>5

\* parse(s, n, min, max) returns the number its text is written for when the
\* text is one of digits and the number is in the range; it fails otherwise.
LEMMA NumberParsed ==
  ASSUME NEW o \in Counted \cup {"--data"}, NEW s \in Seq(Chars)
  PROVE  ParseNumber(s, Least[o], Most[o]) =
           IF NumberText(s, o) THEN NumberOf(s) ELSE Invalid
  <1>1. /\ Len(s) \in Nat /\ Least[o] \in Nat /\ Most[o] \in Nat /\ DOMAIN s = 1 .. Len(s)
        /\ s = <<>> <=> Len(s) = 0
    BY CommandLineAssumption
  <1>2. PICK h \in [0 .. Len(s) -> Held(o)] :
          /\ h[0] = 0
          /\ \A k \in 1 .. Len(s) : h[k] = NumberDigit(h[k - 1], s[k], Most[o])
          /\ ParseNumber(s, Least[o], Most[o]) =
               IF s # <<>> /\ h[Len(s)] >= Least[o] THEN h[Len(s)] ELSE Invalid
    BY Loop
  <1>3. ASSUME NEW k \in 1 .. Len(s)
        PROVE  LET x == h[k - 1] * 10 + DigitValue[s[k]]
               IN h[k] = IF h[k - 1] # Invalid /\ s[k] \in Digit /\ x <= Most[o] THEN x ELSE Invalid
    <2>1. h[k] = NumberDigit(h[k - 1], s[k], Most[o]) /\ h[k - 1] \in {Invalid} \cup 0 .. Most[o]
      BY <1>1, <1>2 DEF Held
    <2>2. CASE h[k - 1] # Invalid /\ s[k] \in Digit
      BY <2>1, <2>2, NumberDigitExact
    <2>3. CASE ~(h[k - 1] # Invalid /\ s[k] \in Digit)
      BY <2>1, <2>3 DEF NumberDigit
    <2> QED
      BY <2>2, <2>3
  <1>4. HoldsSoFar(h, s, Most[o])
    BY <1>2, <1>3 DEF HoldsSoFar, Held
  <1>5. h[Len(s)] = IF (\A k \in 1 .. Len(s) : s[k] \in Digit) /\ NumberOf(s) <= Most[o]
                    THEN NumberOf(s) ELSE Invalid
    BY <1>1, <1>4, NumberRead
  <1>6. NumberText(s, o) <=> /\ s # <<>> /\ \A k \in 1 .. Len(s) : s[k] \in Digit
                             /\ NumberOf(s) \in Least[o] .. Most[o]
    BY <1>1 DEF NumberText, IsNumber, Range
  <1>7. (\A k \in 1 .. Len(s) : s[k] \in Digit) => NumberOf(s) \in Nat
    <2> SUFFICES ASSUME \A k \in 1 .. Len(s) : s[k] \in Digit PROVE NumberOf(s) \in Nat
      OBVIOUS
    <2>1. \E v \in [0 .. Len(s) -> Nat] : NumberOf(s) = v[Len(s)]
      BY DigitByDigit
    <2> QED
      BY <1>1, <2>1
  <1> QED
    BY <1>1, <1>2, <1>5, <1>6, <1>7 DEF Invalid

-----------------------------------------------------------------------------
(* The loop of parse_port().                                               *)

\* The fold over a text is what the loop holds at its end.
LEMMA PortLoop ==
  ASSUME NEW s \in Seq(Chars)
  PROVE  \E h : /\ HoldsSoFar(h, s, MaxPort)
                /\ ParsePort(s) = IF h[Len(s)] > 0 THEN h[Len(s)] ELSE Invalid
  <1> DEFINE D == SUBSET (1 .. Len(s))
             V == {Invalid} \cup 0 .. MaxPort
             F == [p \in D \X V |-> PortDigit(p[2], s[Max(p[1])])]
             Folds(g) ==
               g = [d \in D |-> IF d = {} THEN 0 ELSE PortDigit(g[d \ {Max(d)}], s[Max(d)])]
  <1>1. Len(s) \in Nat /\ DOMAIN s = 1 .. Len(s) /\ MaxPort \in Nat
    BY AddressAssumption
  <1>2. ParsePort(s) =
          LET n == (CHOOSE g : Folds(g))[1 .. Len(s)] IN IF n > 0 THEN n ELSE Invalid
    BY <1>1 DEF ParsePort, FoldLeft, MapThenFoldSet
  <1>3. \A n \in V : \A c : PortDigit(n, c) \in V
    <2> SUFFICES ASSUME NEW n \in V, NEW c PROVE PortDigit(n, c) \in V
      OBVIOUS
    <2>1. CASE n # Invalid /\ c \in Digit
      <3>1. n \in Nat /\ DigitValue[c] \in 0 .. 9
        BY <1>1, <2>1, DigitsAreValues
      <3> QED
        BY <1>1, <3>1 DEF PortDigit
    <2> QED
      BY <2>1 DEF PortDigit
  <1>4. 0 \in V /\ F \in [D \X V -> V]
    <2>1. 0 \in V
      BY <1>1
    <2> HIDE DEF D, V
    <2> QED
      BY <1>3, <2>1
  <1>5. PICK g \in [D -> V] :
          \A d \in D : g[d] = IF d = {} THEN 0 ELSE F[<<d, g[d \ {Max(d)}]>>]
    <2> DEFINE base == 0
    <2> HIDE DEF V, F
    <2>1. Folding(Len(s), V, base, F)
      BY <1>4 DEF Folding
    <2> HIDE DEF base
    <2>2. \E g : Folded(g, Len(s), V, base, F)
      BY <1>1, <2>1, SetRecursion
    <2> QED
      BY <2>2 DEF base, Folded
  <1>6. \E f : Folds(f)
    <2>1. \A d \in D, v \in V : F[<<d, v>>] = PortDigit(v, s[Max(d)])
      OBVIOUS
    <2>2. ASSUME NEW d \in D
          PROVE  g[d] = IF d = {} THEN 0 ELSE PortDigit(g[d \ {Max(d)}], s[Max(d)])
      <3>1. d \ {Max(d)} \in D /\ g[d \ {Max(d)}] \in V
        BY <1>5
      <3> HIDE DEF F, V
      <3> QED
        BY <1>5, <2>1, <3>1
    <2>3. g = [d \in D |-> g[d]]
      BY <1>5
    <2> HIDE DEF D, V, F
    <2>4. Folds(g)
      BY <2>2, <2>3
    <2> HIDE DEF Folds
    <2> QED
      BY <2>4
  <1> DEFINE fold == CHOOSE f : Folds(f)
  <1>7. Folds(fold)
    BY <1>6
  <1> HIDE DEF fold
  <1>8. /\ fold[{}] = 0
        /\ \A d \in D : d # {} => fold[d] = PortDigit(fold[d \ {Max(d)}], s[Max(d)])
    BY <1>7
  <1> DEFINE h == [k \in 0 .. Len(s) |-> fold[1 .. k]]
  <1>9. h[0] = 0
    BY <1>1, <1>8
  <1>10. ASSUME NEW k \in 1 .. Len(s)
         PROVE  h[k] = PortDigit(h[k - 1], s[k])
    <2>1. k \in Nat /\ k # 0 /\ k - 1 \in 0 .. Len(s) /\ 1 .. k \in D
      BY <1>1
    <2>2. fold[1 .. k] = PortDigit(fold[1 .. k - 1], s[k])
      <3>1. 1 .. k # {} /\ Max(1 .. k) = k /\ (1 .. k) \ {k} = 1 .. k - 1
        BY <2>1, LessUpto
      <3> QED
        BY <1>8, <2>1, <3>1
    <2> QED
      BY <2>1, <2>2
  <1>11. h \in [0 .. Len(s) -> V]
    <2> DEFINE T == {k \in Nat : k <= Len(s) => h[k] \in V}
    <2>1. 0 \in T
      BY <1>4, <1>9
    <2>2. ASSUME NEW k \in Nat, k \in T
          PROVE  k + 1 \in T
      <3>1. CASE k + 1 <= Len(s)
        <4>1. k + 1 \in 1 .. Len(s) /\ (k + 1) - 1 = k /\ k <= Len(s)
          BY <1>1, <3>1
        <4>2. h[k] \in V /\ h[k + 1] = PortDigit(h[k], s[k + 1])
          BY <1>10, <2>2, <4>1
        <4> HIDE DEF h, V
        <4>3. h[k + 1] \in V
          BY <1>3, <4>2
        <4> QED
          BY <4>3
      <3> QED
        BY <3>1
    <2> HIDE DEF h, V
    <2>3. Nat \subseteq T
      BY <2>1, <2>2, NumberInduction
    <2>4. \A k \in 0 .. Len(s) : h[k] \in V
      BY <1>1, <2>3
    <2> QED
      BY <2>4 DEF h
  <1>12. ParsePort(s) = IF h[Len(s)] > 0 THEN h[Len(s)] ELSE Invalid
    BY <1>1, <1>2 DEF fold
  <1> HIDE DEF h
  <1>13. HoldsSoFar(h, s, MaxPort)
    <2> HIDE DEF D, F, Folds
    <2> QED
      BY <1>9, <1>10, <1>11 DEF HoldsSoFar, PortDigit
  <1> QED
    BY <1>12, <1>13

\* parse_port() returns the port its text is written for when the text is one
\* of digits and the port is in 1 .. MaxPort; it fails otherwise.
LEMMA PortParsed ==
  ASSUME NEW s \in Seq(Chars)
  PROVE  ParsePort(s) =
           IF IsNumber(s) /\ NumberOf(s) \in 1 .. MaxPort THEN NumberOf(s) ELSE Invalid
  <1>1. /\ Len(s) \in Nat /\ MaxPort \in Nat /\ DOMAIN s = 1 .. Len(s)
        /\ s = <<>> <=> Len(s) = 0
    BY AddressAssumption
  <1>2. PICK h : /\ HoldsSoFar(h, s, MaxPort)
                 /\ ParsePort(s) = IF h[Len(s)] > 0 THEN h[Len(s)] ELSE Invalid
    BY PortLoop
  <1>3. h[Len(s)] = IF (\A k \in 1 .. Len(s) : s[k] \in Digit) /\ NumberOf(s) <= MaxPort
                    THEN NumberOf(s) ELSE Invalid
    BY <1>1, <1>2, NumberRead
  <1>4. IsNumber(s) <=> s # <<>> /\ \A k \in 1 .. Len(s) : s[k] \in Digit
    BY <1>1 DEF IsNumber, Range
  <1>5. (\A k \in 1 .. Len(s) : s[k] \in Digit) => NumberOf(s) \in Nat
    <2> SUFFICES ASSUME \A k \in 1 .. Len(s) : s[k] \in Digit PROVE NumberOf(s) \in Nat
      OBVIOUS
    <2>1. \E v \in [0 .. Len(s) -> Nat] : NumberOf(s) = v[Len(s)]
      BY DigitByDigit
    <2> QED
      BY <1>1, <2>1
  <1>6. s = <<>> => h[Len(s)] = 0
    BY <1>1, <1>2 DEF HoldsSoFar
  <1> QED
    BY <1>1, <1>2, <1>3, <1>4, <1>5, <1>6 DEF Invalid

-----------------------------------------------------------------------------
(* The texts of an address.                                                *)

\* t has the parts a, b and c, in that order.
Joins(t, a, b, c) ==
  /\ Len(t) = Len(a) + Len(b) + Len(c)
  /\ \A j \in 1 .. Len(a) : t[j] = a[j]
  /\ \A j \in 1 .. Len(b) : t[Len(a) + j] = b[j]
  /\ \A j \in 1 .. Len(c) : t[Len(a) + Len(b) + j] = c[j]

\* \o joins its texts.
LEMMA Joined ==
  ASSUME NEW S, NEW a \in Seq(S), NEW b \in Seq(S), NEW c \in Seq(S)
  PROVE  a \o b \o c \in Seq(S) /\ Joins(a \o b \o c, a, b, c)
  <1> DEFINE ab == a \o b
  <1>1. Len(a) \in Nat /\ Len(b) \in Nat /\ Len(c) \in Nat
    BY LenProperties
  <1>2. /\ ab \in Seq(S) /\ Len(ab) = Len(a) + Len(b)
        /\ \A j \in 1 .. Len(a) + Len(b) : ab[j] = IF j <= Len(a) THEN a[j] ELSE b[j - Len(a)]
    BY ConcatProperties
  <1> HIDE DEF ab
  <1>3. /\ ab \o c \in Seq(S) /\ Len(ab \o c) = Len(ab) + Len(c)
        /\ \A j \in 1 .. Len(ab) + Len(c) :
             (ab \o c)[j] = IF j <= Len(ab) THEN ab[j] ELSE c[j - Len(ab)]
    <2>1. ab \in Seq(S)
      BY <1>2
    <2> QED
      BY <2>1, ConcatProperties
  <1>4. ASSUME NEW j \in 1 .. Len(a) PROVE (ab \o c)[j] = a[j]
    BY <1>1, <1>2, <1>3
  <1>5. ASSUME NEW j \in 1 .. Len(b) PROVE (ab \o c)[Len(a) + j] = b[j]
    <2>1. /\ Len(a) + j \in 1 .. Len(a) + Len(b) /\ ~(Len(a) + j <= Len(a))
          /\ (Len(a) + j) - Len(a) = j
      BY <1>1
    <2>2. Len(a) + j \in 1 .. Len(ab) + Len(c) /\ Len(a) + j <= Len(ab)
      BY <1>1, <1>2, <2>1
    <2> QED
      BY <1>2, <1>3, <2>1, <2>2
  <1>6. ASSUME NEW j \in 1 .. Len(c) PROVE (ab \o c)[Len(a) + Len(b) + j] = c[j]
    <2>1. /\ Len(a) + Len(b) + j \in 1 .. Len(ab) + Len(c) /\ ~(Len(a) + Len(b) + j <= Len(ab))
          /\ (Len(a) + Len(b) + j) - Len(ab) = j
      BY <1>1, <1>2
    <2> QED
      BY <1>3, <2>1
  <1>7. Len(ab \o c) = Len(a) + Len(b) + Len(c)
    BY <1>2, <1>3
  <1> QED
    BY <1>3, <1>4, <1>5, <1>6, <1>7 DEF ab, Joins

\* A part of a text.
LEMMA Part ==
  ASSUME NEW s \in Seq(Chars), NEW m \in Nat, NEW n \in Nat, m >= 1, n <= Len(s), m <= n + 1
  PROVE  /\ SubSeq(s, m, n) \in Seq(Chars)
         /\ Len(SubSeq(s, m, n)) = n - m + 1
         /\ \A j \in 1 .. n - m + 1 : SubSeq(s, m, n)[j] = s[m + j - 1]
  <1>1. Len(s) \in Nat
    BY LenProperties
  <1>2. \A k \in m .. n : s[k] \in Chars
    BY <1>1, ElementOfSeq
  <1>3. m \in Int /\ n \in Int
    OBVIOUS
  <1>4. /\ SubSeq(s, m, n) \in Seq(Chars)
        /\ Len(SubSeq(s, m, n)) = IF m <= n THEN n - m + 1 ELSE 0
        /\ \A j \in 1 .. n - m + 1 : SubSeq(s, m, n)[j] = s[m + j - 1]
    BY <1>2, <1>3, SubSeqProperties
  <1> QED
    BY <1>4

\* The last colon of s is at k.
LastColon(s, k) ==
  k \in 1 .. Len(s) /\ s[k] = ":" /\ \A j \in k + 1 .. Len(s) : s[j] # ":"

\* The texts of the host and of the port of an address whose last colon is at k.
HostAt(s, k) == IF s[1] = "[" THEN SubSeq(s, 2, k - 2) ELSE SubSeq(s, 1, k - 1)
PortAt(s, k) == SubSeq(s, k + 1, Len(s))

\* s is the text of an address with a host and a port, whose last colon is at k.
Split(s, k) ==
  /\ LastColon(s, k)
  /\ k > 1
  /\ s[1] = "[" => k > 3 /\ s[k - 1] = "]"
  /\ Len(HostAt(s, k)) < AddrStrLen
  /\ IsNumber(PortAt(s, k)) /\ NumberOf(PortAt(s, k)) \in 1 .. MaxPort

\* extract_ip_port() splits such a text there, and no other one.
LEMMA Extracted ==
  ASSUME NEW s \in Seq(Chars)
  PROVE  /\ \A k : Split(s, k) => ExtractIpPort(s) = {<<HostAt(s, k), NumberOf(PortAt(s, k))>>}
         /\ ExtractIpPort(s) # {} => \E k : Split(s, k)
  <1> DEFINE colons == {k \in DOMAIN s : s[k] = ":"}
             last == Max(colons)
             good == /\ colons # {}
                     /\ last > 1
                     /\ s[1] = "[" => last > 3 /\ s[last - 1] = "]"
                     /\ Len(HostAt(s, last)) < AddrStrLen
                     /\ ParsePort(PortAt(s, last)) # Invalid
  <1>1. Len(s) \in Nat /\ DOMAIN s = 1 .. Len(s)
    BY LenProperties
  <1>2. colons # {} => LastColon(s, last)
    <2> SUFFICES ASSUME colons # {} PROVE LastColon(s, last)
      OBVIOUS
    <2>1. colons \subseteq 1 .. Len(s)
      BY <1>1
    <2>2. last \in colons /\ \A y \in colons : last >= y
      <3> HIDE DEF colons
      <3> QED
        BY <1>1, <2>1, LargestOf
    <2> HIDE DEF last
    <2>3. ASSUME NEW j \in last + 1 .. Len(s) PROVE s[j] # ":"
      <3>1. j \in 1 .. Len(s) /\ ~(last >= j)
        BY <1>1, <2>1, <2>2
      <3> QED
        BY <1>1, <2>2, <3>1
    <2> QED
      BY <1>1, <2>1, <2>2, <2>3 DEF LastColon
  <1>3. ASSUME NEW k, LastColon(s, k) PROVE colons # {} /\ last = k
    <2>1. k \in 1 .. Len(s) /\ k \in colons /\ \A j \in k + 1 .. Len(s) : s[j] # ":"
      BY <1>1, <1>3 DEF LastColon
    <2>2. LastColon(s, last)
      BY <1>2, <2>1
    <2> HIDE DEF last
    <2>3. last \in 1 .. Len(s) /\ s[last] = ":" /\ \A j \in last + 1 .. Len(s) : s[j] # ":"
      BY <2>2 DEF LastColon
    <2>4. ~(k < last) /\ ~(last < k)
      <3>1. s[k] = ":"
        BY <1>3 DEF LastColon
      <3> QED
        BY <1>1, <2>1, <2>3, <3>1
    <2> QED
      BY <1>1, <2>1, <2>3, <2>4
  <1>4. ExtractIpPort(s) =
          IF good THEN {<<HostAt(s, last), ParsePort(PortAt(s, last))>>} ELSE {}
    BY DEF ExtractIpPort, HostAt, PortAt
  <1>5. ASSUME NEW k, LastColon(s, k)
        PROVE  ParsePort(PortAt(s, k)) =
                 IF IsNumber(PortAt(s, k)) /\ NumberOf(PortAt(s, k)) \in 1 .. MaxPort
                 THEN NumberOf(PortAt(s, k)) ELSE Invalid
    <2>1. k \in Nat /\ k <= Len(s) /\ k + 1 \in Nat /\ k + 1 >= 1 /\ k + 1 <= Len(s) + 1
      BY <1>1, <1>5 DEF LastColon
    <2>2. Len(s) <= Len(s)
      BY <1>1
    <2>3. PortAt(s, k) \in Seq(Chars)
      BY <1>1, <2>1, <2>2, Part DEF PortAt
    <2> QED
      BY <2>3, PortParsed
  <1>6. ASSUME NEW k, Split(s, k)
        PROVE  ExtractIpPort(s) = {<<HostAt(s, k), NumberOf(PortAt(s, k))>>}
    <2>1. LastColon(s, k) /\ colons # {} /\ last = k
      BY <1>3, <1>6 DEF Split
    <2>2. ParsePort(PortAt(s, k)) = NumberOf(PortAt(s, k)) /\ NumberOf(PortAt(s, k)) # Invalid
      BY <1>5, <1>6, <2>1, AddressAssumption DEF Split, Invalid
    <2> HIDE DEF last, colons
    <2> QED
      BY <1>4, <1>6, <2>1, <2>2 DEF Split
  <1>7. ASSUME ExtractIpPort(s) # {} PROVE Split(s, last)
    <2>1. good
      BY <1>4, <1>7
    <2>2. LastColon(s, last)
      BY <1>2, <2>1
    <2> HIDE DEF last, colons
    <2>3. /\ IsNumber(PortAt(s, last)) /\ NumberOf(PortAt(s, last)) \in 1 .. MaxPort
      BY <1>5, <2>1, <2>2
    <2> QED
      BY <2>1, <2>2, <2>3 DEF Split
  <1> QED
    BY <1>6, <1>7

\* The marks of an address as texts.
LEMMA Marks ==
  ASSUME NEW S, NEW c \in S, NEW d \in S
  PROVE  /\ <<c>> \in Seq(S) /\ Len(<<c>>) = 1 /\ <<c>>[1] = c
         /\ <<c, d>> \in Seq(S) /\ Len(<<c, d>>) = 2 /\ <<c, d>>[1] = c /\ <<c, d>>[2] = d
  OBVIOUS

\* The marks of an address, and what they consist of.
LEMMA MarkTexts ==
  /\ <<":">> \in Seq(Chars) /\ Len(<<":">>) = 1 /\ <<":">>[1] = ":"
  /\ <<"[">> \in Seq(Chars) /\ Len(<<"[">>) = 1 /\ <<"[">>[1] = "["
  /\ <<"]", ":">> \in Seq(Chars) /\ Len(<<"]", ":">>) = 2
  /\ <<"]", ":">>[1] = "]" /\ <<"]", ":">>[2] = ":"
  <1> DEFINE a == ":"
             b == "["
             c == "]"
  <1>1. a \in Chars /\ b \in Chars /\ c \in Chars
    BY DEF Chars
  <1> HIDE DEF a, b, c
  <1>2. /\ <<a>> \in Seq(Chars) /\ Len(<<a>>) = 1 /\ <<a>>[1] = a
        /\ <<b>> \in Seq(Chars) /\ Len(<<b>>) = 1 /\ <<b>>[1] = b
        /\ <<c, a>> \in Seq(Chars) /\ Len(<<c, a>>) = 2 /\ <<c, a>>[1] = c /\ <<c, a>>[2] = a
    BY <1>1, Marks
  <1> QED
    BY <1>2 DEF a, b, c

\* A text that may be a host: a part of s that fits in the buffer.
LEMMA HostTexts ==
  ASSUME NEW s, NEW t
  PROVE  t \in Hosts(s) <=> /\ Len(t) \in 1 .. AddrStrLen - 1
                            /\ \E m, n \in DOMAIN s : t = SubSeq(s, m, n)
  BY DEF Hosts

\* A text that is split reads as the two texts it is split into.
LEMMA SplitReads ==
  ASSUME NEW s \in Seq(Chars), NEW k, Split(s, k)
  PROVE  <<HostAt(s, k), PortAt(s, k)>> \in Readings(s)
  <1> DEFINE host == HostAt(s, k)
             port == PortAt(s, k)
  <1>1. Len(s) \in Nat /\ DOMAIN s = 1 .. Len(s)
    BY LenProperties
  <1>2. k \in 1 .. Len(s) /\ s[k] = ":" /\ k > 1 /\ k \in Nat
    BY <1>1 DEF Split, LastColon
  <1>3. /\ port \in Seq(Chars) /\ Len(port) = Len(s) - k
        /\ \A j \in 1 .. Len(s) - k : port[j] = s[k + j]
    <2> DEFINE m == k + 1
               n == Len(s)
    <2>1. m \in Nat /\ n \in Nat /\ m >= 1 /\ n <= Len(s) /\ m <= n + 1
      BY <1>1, <1>2
    <2>2. n - m + 1 = Len(s) - k /\ \A j \in 1 .. Len(s) - k : m + j - 1 = k + j
      BY <1>1, <1>2
    <2>3. port = SubSeq(s, m, n)
      BY DEF PortAt
    <2> HIDE DEF m, n
    <2>4. /\ SubSeq(s, m, n) \in Seq(Chars) /\ Len(SubSeq(s, m, n)) = n - m + 1
          /\ \A j \in 1 .. n - m + 1 : SubSeq(s, m, n)[j] = s[m + j - 1]
      BY <2>1, Part
    <2> QED
      BY <2>2, <2>3, <2>4
  <1>4. port \in Ports(s)
    <2>1. CASE k = Len(s)
      <3>1. Len(port) = 0
        BY <1>1, <1>3, <2>1
      <3>2. port = <<>>
        BY <1>3, <3>1
      <3> QED
        BY <3>2 DEF Split, IsNumber
    <2>2. CASE k # Len(s)
      <3>1. k + 1 \in 1 .. Len(s)
        <4>1. Len(s) \in Nat
          BY <1>1
        <4> QED
          BY <1>2, <2>2, <4>1
      <3>2. port \in Suffixes(s)
        BY <3>1 DEF Suffixes, PortAt
      <3> QED
        BY <3>2 DEF Ports, Split
    <2> QED
      BY <2>1, <2>2
  <1>5. CASE s[1] # "["
    <2> DEFINE m == 1
               n == k - 1
    <2>1. host = SubSeq(s, m, n)
      BY <1>5 DEF HostAt
    <2>2. m \in Nat /\ n \in Nat /\ m >= 1 /\ n <= Len(s) /\ m <= n + 1 /\ n - m + 1 = k - 1
      BY <1>1, <1>2
    <2>3. m \in DOMAIN s /\ n \in DOMAIN s /\ \A j \in 1 .. k - 1 : m + j - 1 = j
      BY <1>1, <1>2
    <2> HIDE DEF m, n
    <2>4. /\ SubSeq(s, m, n) \in Seq(Chars) /\ Len(SubSeq(s, m, n)) = n - m + 1
          /\ \A j \in 1 .. n - m + 1 : SubSeq(s, m, n)[j] = s[m + j - 1]
      BY <2>2, Part
    <2>5. /\ host \in Seq(Chars) /\ Len(host) = k - 1
          /\ \A j \in 1 .. k - 1 : host[j] = s[j]
      BY <2>1, <2>2, <2>3, <2>4
    <2>6. host \in Hosts(s)
      <3>1. Len(host) \in 1 .. AddrStrLen - 1
        BY <1>2, <2>5, AddressAssumption DEF Split
      <3> QED
        <4>1. m \in DOMAIN s /\ n \in DOMAIN s
          BY <2>3
        <4> HIDE DEF host
        <4> QED
          BY <2>1, <3>1, <4>1, HostTexts
    <2> HIDE DEF host, port
    <2>7. s = host \o <<":">> \o port
      <3> DEFINE mark == <<":">>
                 t == host \o mark \o port
      <3>1. mark \in Seq(Chars) /\ Len(mark) = 1 /\ mark[1] = ":"
        BY MarkTexts
      <3> HIDE DEF mark
      <3>2. t \in Seq(Chars) /\ Joins(t, host, mark, port)
        <4>1. host \in Seq(Chars) /\ mark \in Seq(Chars) /\ port \in Seq(Chars)
          BY <1>3, <2>5, <3>1
        <4> QED
          BY <4>1, Joined
      <3> HIDE DEF t
      <3>3. Len(t) = Len(s)
        BY <1>1, <1>2, <1>3, <2>5, <3>1, <3>2 DEF Joins
      <3>4. ASSUME NEW j \in 1 .. Len(s) PROVE s[j] = t[j]
        <4>1. CASE j < k
          <5>1. j \in 1 .. k - 1
            BY <1>1, <1>2, <4>1
          <5> QED
            BY <2>5, <3>2, <5>1 DEF Joins
        <4>2. CASE j = k
          <5>1. 1 \in 1 .. Len(mark) /\ Len(host) + 1 = j
            BY <1>2, <2>5, <3>1, <4>2
          <5> QED
            BY <1>2, <3>1, <3>2, <4>2, <5>1 DEF Joins
        <4>3. CASE j > k
          <5> DEFINE q == j - k
          <5>1. q \in 1 .. Len(s) - k /\ k + q = j /\ Len(host) + Len(mark) + q = j
            BY <1>1, <1>2, <2>5, <3>1, <4>3
          <5> HIDE DEF q
          <5> QED
            BY <1>3, <3>2, <5>1 DEF Joins
        <4> QED
          BY <1>1, <1>2, <4>1, <4>2, <4>3
      <3>5. s = t
        <4>1. s \in Seq(Chars) /\ t \in Seq(Chars)
          BY <3>2
        <4> QED
          BY <3>3, <3>4, <4>1, SeqEqual
      <3> QED
        BY <3>5 DEF t, mark
    <2>8. host[1] # "["
      <3>1. 1 \in 1 .. k - 1
        BY <1>2
      <3> QED
        BY <1>5, <2>5, <3>1
    <2> QED
      BY <1>4, <2>6, <2>7, <2>8 DEF Readings, Reads, host, port
  <1>6. CASE s[1] = "["
    <2>0. k > 3 /\ s[k - 1] = "]"
      BY <1>6 DEF Split
    <2> DEFINE m == 2
               n == k - 2
    <2>1. host = SubSeq(s, m, n)
      BY <1>6 DEF HostAt
    <2>2. m \in Nat /\ n \in Nat /\ m >= 1 /\ n <= Len(s) /\ m <= n + 1 /\ n - m + 1 = k - 3
      BY <1>1, <1>2, <2>0
    <2>3. m \in DOMAIN s /\ n \in DOMAIN s /\ \A j \in 1 .. k - 3 : m + j - 1 = 1 + j
      BY <1>1, <1>2, <2>0
    <2> HIDE DEF m, n
    <2>4. /\ SubSeq(s, m, n) \in Seq(Chars) /\ Len(SubSeq(s, m, n)) = n - m + 1
          /\ \A j \in 1 .. n - m + 1 : SubSeq(s, m, n)[j] = s[m + j - 1]
      BY <2>2, Part
    <2>5. /\ host \in Seq(Chars) /\ Len(host) = k - 3
          /\ \A j \in 1 .. k - 3 : host[j] = s[1 + j]
      BY <2>1, <2>2, <2>3, <2>4
    <2>6. host \in Hosts(s)
      <3>1. Len(host) \in 1 .. AddrStrLen - 1
        BY <1>2, <2>0, <2>5, AddressAssumption DEF Split
      <3> QED
        <4>1. m \in DOMAIN s /\ n \in DOMAIN s
          BY <2>3
        <4> HIDE DEF host
        <4> QED
          BY <2>1, <3>1, <4>1, HostTexts
    <2> HIDE DEF host, port
    <2>7. s = <<"[">> \o host \o <<"]", ":">> \o port
      <3> DEFINE open == <<"[">>
                 shut == <<"]", ":">>
                 left == open \o host
                 t == left \o shut \o port
      <3>1. /\ open \in Seq(Chars) /\ Len(open) = 1 /\ open[1] = "["
            /\ shut \in Seq(Chars) /\ Len(shut) = 2 /\ shut[1] = "]" /\ shut[2] = ":"
        BY MarkTexts
      <3> HIDE DEF open, shut
      <3>2. /\ left \in Seq(Chars) /\ Len(left) = 1 + Len(host)
            /\ \A j \in 1 .. 1 + Len(host) : left[j] = IF j <= 1 THEN open[j] ELSE host[j - 1]
        <4>1. open \in Seq(Chars) /\ host \in Seq(Chars)
          BY <2>5, <3>1
        <4>2. /\ left \in Seq(Chars) /\ Len(left) = Len(open) + Len(host)
              /\ \A j \in 1 .. Len(open) + Len(host) :
                   left[j] = IF j <= Len(open) THEN open[j] ELSE host[j - Len(open)]
          BY <4>1, ConcatProperties
        <4> HIDE DEF left
        <4> QED
          BY <3>1, <4>2
      <3> HIDE DEF left
      <3>3. t \in Seq(Chars) /\ Joins(t, left, shut, port)
        <4>1. left \in Seq(Chars) /\ shut \in Seq(Chars) /\ port \in Seq(Chars)
          BY <1>3, <3>1, <3>2
        <4> HIDE DEF left
        <4> QED
          BY <4>1, Joined
      <3> HIDE DEF t
      <3>4. Len(t) = Len(s) /\ Len(left) = k - 2
        BY <1>1, <1>2, <1>3, <2>5, <3>1, <3>2, <3>3 DEF Joins
      <3>5. ASSUME NEW j \in 1 .. Len(s) PROVE s[j] = t[j]
        <4>1. CASE j = 1
          <5>1. 1 \in 1 .. 1 + Len(host) /\ 1 \in 1 .. Len(left) /\ 1 <= 1
            BY <1>2, <2>0, <2>5, <3>4
          <5> QED
            BY <1>6, <3>1, <3>2, <3>3, <4>1, <5>1 DEF Joins
        <4>2. CASE 1 < j /\ j < k - 1
          <5> DEFINE q == j - 1
          <5>1. /\ j \in 1 .. 1 + Len(host) /\ j \in 1 .. Len(left) /\ ~(j <= 1)
                /\ q \in 1 .. k - 3 /\ 1 + q = j /\ j - 1 = q
            BY <1>1, <1>2, <2>5, <3>4, <4>2
          <5> HIDE DEF q
          <5> QED
            BY <2>5, <3>2, <3>3, <5>1 DEF Joins
        <4>3. CASE j = k - 1
          <5>1. 1 \in 1 .. Len(shut) /\ Len(left) + 1 = j
            BY <1>2, <3>1, <3>4, <4>3
          <5> QED
            BY <2>0, <3>1, <3>3, <4>3, <5>1 DEF Joins
        <4>4. CASE j = k
          <5>1. 2 \in 1 .. Len(shut) /\ Len(left) + 2 = j
            BY <1>2, <3>1, <3>4, <4>4
          <5> QED
            BY <1>2, <3>1, <3>3, <4>4, <5>1 DEF Joins
        <4>5. CASE j > k
          <5> DEFINE q == j - k
          <5>1. q \in 1 .. Len(s) - k /\ k + q = j /\ Len(left) + Len(shut) + q = j
            BY <1>1, <1>2, <3>1, <3>4, <4>5
          <5> HIDE DEF q
          <5> QED
            BY <1>3, <3>3, <5>1 DEF Joins
        <4> QED
          BY <1>1, <1>2, <4>1, <4>2, <4>3, <4>4, <4>5
      <3>6. s = t
        <4>1. s \in Seq(Chars) /\ t \in Seq(Chars)
          BY <3>3
        <4> QED
          BY <3>4, <3>5, <4>1, SeqEqual
      <3> QED
        BY <3>6 DEF t, left, open, shut
    <2> QED
      BY <1>4, <2>6, <2>7 DEF Readings, Reads, host, port
  <1> QED
    BY <1>5, <1>6

\* Digits are not colons.
LEMMA NoColon ==
  ASSUME NEW t \in Seq(Chars), IsNumber(t), NEW j \in 1 .. Len(t)
  PROVE  t[j] # ":"
  <1>1. t[j] \in Digit
    BY DEF IsNumber, Range
  <1>2. ":" \notin Digit
    BY DEF Digit, DigitValue
  <1> QED
    BY <1>1, <1>2

\* A text reads as a host and a port in no other way than it is split.
LEMMA ReadsSplit ==
  ASSUME NEW s \in Seq(Chars), NEW p \in Readings(s)
  PROVE  \E k : Split(s, k) /\ p = <<HostAt(s, k), PortAt(s, k)>>
  <1> DEFINE host == p[1]
             port == p[2]
             k == Len(s) - Len(port)
  <1>1. Len(s) \in Nat /\ DOMAIN s = 1 .. Len(s)
    BY LenProperties
  <1>2. /\ p = <<host, port>> /\ host \in Hosts(s) /\ port \in Suffixes(s)
        /\ IsNumber(port) /\ NumberOf(port) \in 1 .. MaxPort /\ Reads(s, host, port)
    BY DEF Readings, Ports
  <1>3. host \in Seq(Chars) /\ Len(host) \in 1 .. AddrStrLen - 1 /\ Len(host) \in Nat
    <2>1. PICK a \in DOMAIN s, b \in DOMAIN s : host = SubSeq(s, a, b)
      BY <1>2, HostTexts
    <2>2. Len(host) \in 1 .. AddrStrLen - 1
      BY <1>2, HostTexts
    <2>3. \A j \in a .. b : s[j] \in Chars
      BY <1>1, ElementOfSeq
    <2>4. a \in Int /\ b \in Int
      BY <1>1
    <2>5. host \in Seq(Chars)
      BY <2>1, <2>3, <2>4, SubSeqProperties
    <2> QED
      BY <2>2, <2>5, LenProperties
  <1>4. port \in Seq(Chars) /\ Len(port) \in Nat
    <2>1. CASE port = <<>>
      BY <2>1
    <2>2. CASE port # <<>>
      <3>1. PICK a \in 1 .. Len(s) : port = SubSeq(s, a, Len(s))
        BY <1>2, <2>2 DEF Suffixes
      <3>2. \A j \in a .. Len(s) : s[j] \in Chars
        BY <1>1, ElementOfSeq
      <3>3. a \in Int /\ Len(s) \in Int
        BY <1>1
      <3>4. port \in Seq(Chars)
        BY <3>1, <3>2, <3>3, SubSeqProperties
      <3> QED
        BY <3>4, LenProperties
    <2> QED
      BY <2>1, <2>2
  <1> HIDE DEF host, port
  <1>5. ASSUME k \in 1 .. Len(s), s[k] = ":", \A j \in 1 .. Len(port) : s[k + j] = port[j]
        PROVE  LastColon(s, k) /\ port = PortAt(s, k)
    <2>1. ASSUME NEW j \in k + 1 .. Len(s) PROVE s[j] # ":"
      <3> DEFINE q == j - k
      <3>1. q \in 1 .. Len(port) /\ k + q = j
        BY <1>1, <1>4, <1>5
      <3> HIDE DEF q
      <3>2. port[q] # ":"
        BY <1>2, <1>4, <3>1, NoColon
      <3> QED
        BY <1>5, <3>1, <3>2
    <2>2. port = PortAt(s, k)
      <3> DEFINE m == k + 1
                 n == Len(s)
                 t == SubSeq(s, m, n)
      <3>1. /\ m \in Nat /\ n \in Nat /\ m >= 1 /\ n <= Len(s) /\ m <= n + 1
            /\ n - m + 1 = Len(port)
            /\ \A j \in 1 .. Len(port) : m + j - 1 = k + j
        BY <1>1, <1>4, <1>5
      <3> HIDE DEF m, n
      <3>2. /\ t \in Seq(Chars) /\ Len(t) = n - m + 1
            /\ \A j \in 1 .. n - m + 1 : t[j] = s[m + j - 1]
        BY <3>1, Part
      <3> HIDE DEF t
      <3>3. \A j \in 1 .. Len(port) : port[j] = t[j]
        BY <1>5, <3>1, <3>2
      <3>4. port = t
        BY <1>4, <3>1, <3>2, <3>3, SeqEqual
      <3> QED
        BY <3>4 DEF PortAt, m, n, t
    <2> QED
      BY <1>5, <2>1, <2>2 DEF LastColon
  <1>6. CASE s = host \o <<":">> \o port /\ host[1] # "["
    <2> DEFINE mark == <<":">>
    <2>1. mark \in Seq(Chars) /\ Len(mark) = 1 /\ mark[1] = ":"
      BY MarkTexts
    <2>2. s = host \o mark \o port
      BY <1>6
    <2> HIDE DEF mark
    <2>3. Joins(s, host, mark, port)
      <3>1. host \in Seq(Chars) /\ mark \in Seq(Chars) /\ port \in Seq(Chars)
        BY <1>3, <1>4, <2>1
      <3> QED
        BY <2>2, <3>1, Joined
    <2>4. /\ k = Len(host) + 1 /\ k \in 1 .. Len(s) /\ k > 1
          /\ 1 \in 1 .. Len(host) /\ 1 \in 1 .. Len(mark)
          /\ \A j \in 1 .. Len(port) : Len(host) + Len(mark) + j = k + j
      BY <1>3, <1>4, <2>1, <2>3 DEF Joins
    <2>5. s[1] # "[" /\ s[k] = ":" /\ \A j \in 1 .. Len(port) : s[k + j] = port[j]
      BY <1>6, <2>1, <2>3, <2>4 DEF Joins
    <2>6. LastColon(s, k) /\ port = PortAt(s, k)
      BY <1>5, <2>4, <2>5
    <2>7. host = HostAt(s, k)
      <3> DEFINE m == 1
                 n == k - 1
                 t == SubSeq(s, m, n)
      <3>1. /\ m \in Nat /\ n \in Nat /\ m >= 1 /\ n <= Len(s) /\ m <= n + 1
            /\ n - m + 1 = Len(host)
            /\ \A j \in 1 .. Len(host) : m + j - 1 = j
        <4>1. Len(s) \in Nat /\ Len(host) \in Nat /\ k \in 1 .. Len(s) /\ k = Len(host) + 1
          BY <1>1, <1>3, <2>4
        <4> HIDE DEF k
        <4> QED
          BY <4>1
      <3>2. HostAt(s, k) = t
        BY <2>5 DEF HostAt
      <3> HIDE DEF m, n
      <3>3. /\ t \in Seq(Chars) /\ Len(t) = n - m + 1
            /\ \A j \in 1 .. n - m + 1 : t[j] = s[m + j - 1]
        BY <3>1, Part
      <3> HIDE DEF t
      <3>4. \A j \in 1 .. Len(host) : host[j] = t[j]
        BY <2>3, <3>1, <3>3 DEF Joins
      <3>5. host = t
        BY <1>3, <3>1, <3>3, <3>4, SeqEqual
      <3> QED
        BY <3>2, <3>5
    <2>8. Split(s, k)
      <3> HIDE DEF k
      <3> QED
        BY <1>2, <1>3, <2>4, <2>5, <2>6, <2>7, AddressAssumption DEF Split
    <2> QED
      BY <1>2, <2>6, <2>7, <2>8
  <1>7. CASE s = <<"[">> \o host \o <<"]", ":">> \o port
    <2> DEFINE open == <<"[">>
               shut == <<"]", ":">>
               left == open \o host
    <2>1. /\ open \in Seq(Chars) /\ Len(open) = 1 /\ open[1] = "["
          /\ shut \in Seq(Chars) /\ Len(shut) = 2 /\ shut[1] = "]" /\ shut[2] = ":"
      BY MarkTexts
    <2>2. s = left \o shut \o port
      BY <1>7
    <2> HIDE DEF open, shut
    <2>3. /\ left \in Seq(Chars) /\ Len(left) = 1 + Len(host)
          /\ \A j \in 1 .. 1 + Len(host) : left[j] = IF j <= 1 THEN open[j] ELSE host[j - 1]
      <3>1. host \in Seq(Chars) /\ open \in Seq(Chars)
        BY <1>3, <2>1
      <3>2. /\ left \in Seq(Chars) /\ Len(left) = Len(open) + Len(host)
            /\ \A j \in 1 .. Len(open) + Len(host) :
                 left[j] = IF j <= Len(open) THEN open[j] ELSE host[j - Len(open)]
        BY <3>1, ConcatProperties
      <3> HIDE DEF left
      <3> QED
        BY <2>1, <3>2
    <2> HIDE DEF left
    <2>4. Joins(s, left, shut, port)
      <3>1. left \in Seq(Chars) /\ shut \in Seq(Chars) /\ port \in Seq(Chars)
        BY <1>4, <2>1, <2>3
      <3> QED
        BY <2>2, <3>1, Joined
    <2>5. /\ k = Len(left) + 2 /\ k - 1 = Len(left) + 1 /\ k \in 1 .. Len(s) /\ k > 3
          /\ 1 \in 1 .. Len(left) /\ 1 \in 1 .. 1 + Len(host) /\ 1 <= 1
          /\ 1 \in 1 .. Len(shut) /\ 2 \in 1 .. Len(shut)
          /\ \A j \in 1 .. Len(port) : Len(left) + Len(shut) + j = k + j
      BY <1>3, <1>4, <2>1, <2>3, <2>4 DEF Joins
    <2>6. s[1] = "[" /\ s[k - 1] = "]" /\ s[k] = ":" /\ \A j \in 1 .. Len(port) : s[k + j] = port[j]
      BY <2>1, <2>3, <2>4, <2>5 DEF Joins
    <2>7. LastColon(s, k) /\ port = PortAt(s, k)
      BY <1>5, <2>5, <2>6
    <2>8. host = HostAt(s, k)
      <3> DEFINE m == 2
                 n == k - 2
                 t == SubSeq(s, m, n)
      <3>1. /\ m \in Nat /\ n \in Nat /\ m >= 1 /\ n <= Len(s) /\ m <= n + 1
            /\ n - m + 1 = Len(host)
            /\ \A j \in 1 .. Len(host) : m + j - 1 = j + 1
        <4>1. Len(s) \in Nat /\ Len(host) \in Nat /\ k \in 1 .. Len(s) /\ k = Len(host) + 3
          <5>1. Len(left) = Len(host) + 1 /\ Len(host) \in Nat
            BY <1>3, <2>3
          <5>2. k = Len(left) + 2 /\ k \in 1 .. Len(s)
            BY <2>5
          <5> HIDE DEF k
          <5> QED
            BY <1>1, <5>1, <5>2
        <4> HIDE DEF k
        <4> QED
          BY <4>1
      <3>2. HostAt(s, k) = t
        BY <2>6 DEF HostAt
      <3> HIDE DEF m, n
      <3>3. /\ t \in Seq(Chars) /\ Len(t) = n - m + 1
            /\ \A j \in 1 .. n - m + 1 : t[j] = s[m + j - 1]
        BY <3>1, Part
      <3> HIDE DEF t
      <3>4. ASSUME NEW j \in 1 .. Len(host) PROVE host[j] = t[j]
        <4>1. /\ j + 1 \in 1 .. 1 + Len(host) /\ j + 1 \in 1 .. Len(left)
              /\ ~(j + 1 <= 1) /\ (j + 1) - 1 = j
          BY <1>3, <2>3
        <4>2. s[j + 1] = host[j]
          BY <2>3, <2>4, <4>1 DEF Joins
        <4> QED
          BY <3>1, <3>3, <4>2
      <3>5. host = t
        BY <1>3, <3>1, <3>3, <3>4, SeqEqual
      <3> QED
        BY <3>2, <3>5
    <2>9. Split(s, k)
      <3>1. k > 1
        BY <1>1, <1>4, <2>5
      <3> HIDE DEF k
      <3> QED
        BY <1>2, <1>3, <2>5, <2>6, <2>7, <2>8, <3>1, AddressAssumption DEF Split
    <2> QED
      BY <1>2, <2>7, <2>8, <2>9
  <1> QED
    BY <1>2, <1>6, <1>7 DEF Reads

\* build() takes a text for the one thing it means.
LEMMA AddressBuilt ==
  ASSUME NEW s \in Seq(Chars)
  PROVE  {Build(s)} = Meanings(s)
  <1> DEFINE built(p) == BuildIp(p[1], NumberOf(p[2]))
  <1>1. CASE Readings(s) = {}
    <2>1. ExtractIpPort(s) = {}
      BY <1>1, Extracted, SplitReads
    <2> QED
      BY <1>1, <2>1 DEF Build, Meanings
  <1>2. CASE Readings(s) # {}
    <2>1. ASSUME NEW p \in Readings(s) PROVE Build(s) = built(p)
      <3>1. PICK k : Split(s, k) /\ p = <<HostAt(s, k), PortAt(s, k)>>
        BY ReadsSplit
      <3>2. ExtractIpPort(s) = {<<HostAt(s, k), NumberOf(PortAt(s, k))>>}
        BY <3>1, Extracted
      <3> DEFINE found == CHOOSE q \in ExtractIpPort(s) : TRUE
      <3>3. found = <<HostAt(s, k), NumberOf(PortAt(s, k))>>
        BY <3>2
      <3>4. Build(s) = BuildIp(found[1], found[2])
        BY <3>2 DEF Build
      <3>5. found[1] = p[1] /\ found[2] = NumberOf(p[2])
        <4> HIDE DEF found
        <4> QED
          BY <3>1, <3>3
      <3> QED
        BY <3>4, <3>5
    <2>2. Meanings(s) = {built(p) : p \in Readings(s)}
      BY <1>2 DEF Meanings
    <2> HIDE DEF built
    <2> QED
      BY <1>2, <2>1, <2>2
  <1> QED
    BY <1>1, <1>2

-----------------------------------------------------------------------------
(* The whole parser.                                                       *)

\* The arguments stay what they are, the file that is read is an argument, and
\* nothing is left to be read when no file is.
Reading ==
  /\ argv \in CommandLines
  /\ Counted \subseteq DOMAIN number
  /\ unread.due \in Nat /\ unread.left \in Nat
  /\ status = "parsing" => unread.due = 0
  /\ status = "reading" => i + 1 <= Len(argv)

\* The positions of the arguments, and those of the names among them.
LEMMA Positions ==
  ASSUME argv \in CommandLines
  PROVE  /\ Len(argv) \in Nat /\ DOMAIN argv = 1 .. Len(argv)
         /\ \A k : k \in Names <=> k \in 1 .. Len(argv) /\ k % 2 = 1
         /\ \A k \in 1 .. Len(argv) : argv[k] \in Seq(Chars)
         /\ \A options : Named(options) \subseteq Names
         /\ IsFiniteSet(Names)
  <1>1. argv \in Seq(Seq(STRING))
    BY CommandLineAssumption
  <1>2. Len(argv) \in Nat /\ DOMAIN argv = 1 .. Len(argv)
    BY <1>1, LenProperties
  <1>3. \A k \in 1 .. Len(argv) : argv[k] \in Seq(Chars)
    BY <1>1, ElementOfSeq, TextOfChars
  <1>4. \A k : k \in Names <=> k \in 1 .. Len(argv) /\ k % 2 = 1
    BY <1>2 DEF Names
  <1>5. \A options : Named(options) \subseteq Names
    BY DEF Named
  <1>6. IsFiniteSet(Names)
    <2>1. IsFiniteSet(1 .. Len(argv)) /\ Names \subseteq 1 .. Len(argv)
      BY <1>2, <1>4, FS_Interval
    <2> QED
      BY <2>1, FS_Subset
  <1> QED
    BY <1>2, <1>3, <1>4, <1>5, <1>6

\* The argument of an option is a text.
LEMMA TextGiven ==
  ASSUME argv \in CommandLines
  PROVE  /\ Len(argv) \in Nat
         /\ i \in 1 .. Len(argv) + 1 /\ HasValue => Value \in Seq(Chars)
  <1>1. Len(argv) \in Nat /\ \A k \in 1 .. Len(argv) : argv[k] \in Seq(Chars)
    BY Positions
  <1>2. ASSUME i \in 1 .. Len(argv) + 1, HasValue
        PROVE  Value \in Seq(Chars)
    <2>1. i + 1 \in 1 .. Len(argv)
      BY <1>1, <1>2 DEF HasValue
    <2> QED
      BY <1>1, <2>1 DEF Value
  <1> QED
    BY <1>1, <1>2

\* The types hold at first.
LEMMA TypedAtFirst == Init => TypeOK /\ Reading
  <1> SUFFICES ASSUME Init PROVE TypeOK /\ Reading
    OBVIOUS
  <1>1. Most["--data"] \in Nat
    BY CommandLineAssumption
  <1>2. Len(argv) \in Nat
    BY TextGiven DEF Init
  <1> QED
    BY <1>1, <1>2, CommandLineAssumption DEF Init, TypeOK, Reading, NoFile, Ended

\* Every step keeps the types: no number is out of its range, and the loop of
\* load_file() writes no more bytes than the buffer is large.
LEMMA TypedNext == TypeOK /\ Reading /\ [Next]_vars => TypeOK' /\ Reading'
  <1> SUFFICES ASSUME TypeOK, Reading, [Next]_vars PROVE TypeOK' /\ Reading'
    OBVIOUS
  <1>1. /\ Len(argv) \in Nat /\ i \in 1 .. Len(argv) + 1 /\ length \in 0 .. Most["--data"]
        /\ unread.due \in Nat /\ unread.left \in Nat /\ length \in Nat
        /\ Least["--data"] \in Nat /\ Most["--data"] \in Nat
        /\ length + unread.due <= Most["--data"] /\ unread.left <= unread.due
    BY TextGiven, CommandLineAssumption DEF TypeOK, Reading
  <1>2. CASE ReadAddress
    BY <1>1, <1>2 DEF ReadAddress, Option, AddressFits, HasValue, TypeOK, Reading, Ended
  <1>3. ASSUME NEW o \in Counted, ReadNumber(o)
        PROVE  TypeOK' /\ Reading'
    <2>1. NumberGiven(o) \in Least[o] .. Most[o]
      <3>1. Value \in Seq(Chars) /\ NumberGiven(o) # Invalid
        BY <1>1, <1>3, TextGiven DEF ReadNumber, NumberFits, Reading
      <3> QED
        BY <3>1, NumberInRange DEF NumberGiven
    <2>2. /\ number' = [number EXCEPT ![o] = NumberGiven(o)]
          /\ i' = i + 2 /\ i + 1 <= Len(argv)
          /\ UNCHANGED <<argv, status, address, length, unread>>
      BY <1>3 DEF ReadNumber, NumberFits, HasValue
    <2>3. /\ Counted \subseteq DOMAIN number'
          /\ \A p \in Counted : number'[p] \in Least[p] .. Most[p]
      BY <2>1, <2>2 DEF TypeOK, Reading
    <2>4. /\ argv' \in CommandLines /\ Len(argv') = Len(argv)
          /\ i' \in 1 .. Len(argv) + 1 /\ unread' = unread /\ length' = length
          /\ status' = status
      BY <1>1, <2>2 DEF Reading
    <2>5. TypeOK'
      BY <1>1, <2>3, <2>4 DEF TypeOK, Ended
    <2>6. Reading'
      <3>1. status' = "reading" => FALSE
        BY <1>3, <2>4 DEF ReadNumber, Option
      <3> QED
        BY <1>1, <2>3, <2>4, <3>1 DEF Reading
    <2> QED
      BY <2>5, <2>6
  <1>4. CASE ReadData
    <2>1. NumberGiven("--data") \in Least["--data"] .. Most["--data"]
      <3>1. Value \in Seq(Chars) /\ NumberGiven("--data") # Invalid
        BY <1>1, <1>4, TextGiven DEF ReadData, DataFits, NumberFits, Reading
      <3> QED
        BY <3>1, NumberInRange DEF NumberGiven
    <2>2. /\ status = "parsing" /\ length' = NumberGiven("--data")
          /\ i' = i + 2 /\ i + 1 <= Len(argv)
          /\ UNCHANGED <<argv, status, address, number, unread>>
      BY <1>4 DEF ReadData, Option, DataFits, NumberFits, HasValue
    <2> QED
      BY <1>1, <2>1, <2>2 DEF TypeOK, Reading, Ended
  <1>5. CASE OpenFile
    <2> DEFINE size == FileSize[Value]
    <2>1. /\ size \in Least["--data"] .. Most["--data"] /\ length = 0
          /\ i + 1 <= Len(argv) /\ status' = "reading"
          /\ UNCHANGED <<argv, i, address, number, length>>
      BY <1>5 DEF OpenFile, FileFits, HasValue
    <2>2. PICK left \in 0 .. size : unread' = [due |-> size, left |-> left]
      BY <1>5 DEF OpenFile
    <2>3. unread'.due = size /\ unread'.left = left
      BY <2>2
    <2> HIDE DEF size
    <2> QED
      BY <1>1, <2>1, <2>2, <2>3 DEF TypeOK, Reading, Ended
  <1>6. CASE ReadPart
    <2>1. PICK n \in 1 .. unread.left :
            /\ unread' = [due |-> unread.due - n, left |-> unread.left - n]
            /\ length' = length + n
      BY <1>6 DEF ReadPart
    <2>2. /\ unread'.due = unread.due - n /\ unread'.left = unread.left - n
          /\ length' = length + n /\ n \in Nat /\ n <= unread.left
      BY <1>1, <2>1
    <2>3. /\ UNCHANGED <<argv, address, number>> /\ i + 1 <= Len(argv)
          /\ IF unread'.due = 0 THEN status' = "parsing" /\ i' = i + 2
                                ELSE status' = "reading" /\ i' = i
      BY <1>6 DEF ReadPart, AllRead, Reading
    <2>4. /\ unread'.due \in Nat /\ unread'.left \in Nat /\ unread'.left <= unread'.due
          /\ length' \in Nat /\ length' + unread'.due = length + unread.due
      <3> DEFINE due == unread.due
                 left == unread.left
                 due2 == unread'.due
                 left2 == unread'.left
      <3>1. /\ due \in Nat /\ left \in Nat /\ left <= due /\ n \in Nat /\ n <= left
            /\ due2 = due - n /\ left2 = left - n
        BY <1>1, <2>2
      <3> HIDE DEF due, left, due2, left2
      <3>2. due2 \in Nat /\ left2 \in Nat /\ left2 <= due2 /\ length' + due2 = length + due
        BY <1>1, <2>2, <3>1
      <3>3. length' \in Nat
        BY <1>1, <2>2
      <3> QED
        BY <3>2, <3>3 DEF due, left, due2, left2
    <2>5. TypeOK'
      <3>1. i' \in 1 .. Len(argv') + 1 /\ status' \in {"parsing", "reading"}
        BY <1>1, <2>3
      <3>2. /\ length' \in 0 .. Most["--data"] /\ length' + unread'.due <= Most["--data"]
            /\ unread'.left <= unread'.due
        <4>1. length + unread.due <= Most["--data"] /\ Most["--data"] \in Nat
          BY <1>1
        <4> QED
          BY <2>4, <4>1
      <3> QED
        BY <2>3, <3>1, <3>2 DEF TypeOK, Ended
    <2>6. Reading'
      BY <1>1, <2>3, <2>4 DEF Reading
    <2> QED
      BY <2>5, <2>6
  <1>7. CASE ReadNothing \/ UNCHANGED vars
    BY <1>7 DEF ReadNothing, vars, TypeOK, Reading, Ended
  <1>8. CASE Reject \/ Finish \/ Fails
    <2>1. /\ status' \in {"accepted", "rejected", "failed"}
          /\ UNCHANGED <<argv, i, address, number, length, unread>>
      BY <1>8 DEF Reject, Finish, Fails
    <2> QED
      BY <1>1, <2>1 DEF TypeOK, Reading, Ended
  <1> QED
    BY <1>2, <1>3, <1>4, <1>5, <1>6, <1>7, <1>8 DEF Next, Read

\* Whatever the arguments are and however a file is read, the numbers are in
\* their ranges when configuration::parse() goes on, ends or fails; no more
\* bytes are in the buffer, or on their way to it, than it was allocated for;
\* and no argument after the last one is read.
THEOREM Typing == Spec => []TypeOK
  <1>1. Spec => [](TypeOK /\ Reading)
    BY TypedAtFirst, TypedNext, PTL DEF Spec
  <1> QED
    BY <1>1, PTL

\* However long its argument is, and whatever the range of its option, parse(s,
\* n, min, max) returns the number that is written, or fails when none is or when
\* it is not in the range: no number is taken for one less 2^64.
THEOREM Numbers == Spec => []NumbersAsWritten
  <1>1. TypeOK /\ Reading => NumbersAsWritten
    <2> SUFFICES ASSUME Reading, NEW k \in DOMAIN argv, NEW o \in Counted \cup {"--data"}
                 PROVE  ParseNumber(argv[k], Least[o], Most[o]) =
                          IF NumberText(argv[k], o) THEN NumberOf(argv[k]) ELSE Invalid
      BY DEF NumbersAsWritten
    <2>1. argv[k] \in Seq(Chars)
      BY Positions DEF Reading
    <2> QED
      BY <2>1, NumberParsed
  <1>2. Spec => [](TypeOK /\ Reading)
    BY TypedAtFirst, TypedNext, PTL DEF Spec
  <1> QED
    BY <1>1, <1>2, PTL

-----------------------------------------------------------------------------
(* What the parser has taken of the arguments.                             *)

\* The arguments already read that name one of the options.
Before(options) == {k \in Named(options) : k < i}

\* What the one argument at k and the one after it give for the data.
GivenLength(k) ==
  IF argv[k] = <<"--data">> THEN NumberOf(argv[k + 1]) ELSE FileSize[argv[k + 1]]

\* Every second argument so far has been the name of an option, and the one
\* after it an argument the option takes.
PairsRead ==
  /\ i % 2 = 1
  /\ \A k \in Names : k < i => k + 1 <= Len(argv) /\ IsPair(argv[k], argv[k + 1])

\* There is an address if, and only if, one has been given, and only one.
AddressRead ==
  IF address = NoAddress THEN Before({"--address"}) = {}
  ELSE \E k \in Names : Before({"--address"}) = {k} /\ address = Build(argv[k + 1])

\* A number is the last one given, or the default.
LastRead(o) ==
  \/ Before({o}) = {} /\ number[o] = Default[o]
  \/ \E k \in Before({o}) : /\ \A l \in Before({o}) : l <= k
                            /\ number[o] = NumberOf(argv[k + 1])

\* The file that is being read is the first data that has been given.
FileRead ==
  /\ Before({"--data", "--file"}) = {}
  /\ argv[i] = <<"--file">>
  /\ argv[i + 1] \in DOMAIN FileSize
  /\ FileSize[argv[i + 1]] \in Least["--data"] .. Most["--data"]
  /\ length + unread.due = FileSize[argv[i + 1]]

\* There is data if, and only if, some has been given, and only once.
DataRead ==
  IF length = 0 THEN Before({"--data", "--file"}) = {}
  ELSE \E k \in Names : Before({"--data", "--file"}) = {k} /\ length = GivenLength(k)

\* What is accepted is complete, what is rejected is not well-formed.
Judged ==
  /\ status = "accepted" => i > Len(argv) /\ Complete
  /\ status = "rejected" => ~WellFormed

\* The inductive invariant: what the members hold is what the arguments that
\* have been read ask for.
TakenSoFar ==
  /\ PairsRead /\ AddressRead /\ Judged
  /\ \A o \in Counted : LastRead(o)
  /\ status = "reading" => FileRead
  /\ status \in {"parsing", "accepted"} => DataRead

\* No two options share a name.
LEMMA OptionNames ==
  ASSUME NEW x
  PROVE  /\ x \in {<<o>> : o \in {"--address"}} <=> x = <<"--address">>
         /\ x \in {<<o>> : o \in {"--data", "--file"}} <=> x = <<"--data">> \/ x = <<"--file">>
         /\ \A p : x \in {<<o>> : o \in {p}} <=> x = <<p>>
         /\ \A p \in Counted : p # "--address" /\ p # "--data" /\ p # "--file"
         /\ \A p, q : <<p>> = <<q>> => p = q
  <1>1. \A p \in Counted : p # "--address" /\ p # "--data" /\ p # "--file"
    BY CommandLineAssumption
  <1>2. \A p, q : <<p>> = <<q>> => p = q
    OBVIOUS
  <1> QED
    BY <1>1, <1>2

\* A step that reads no further.
LEMMA Stays ==
  ASSUME UNCHANGED <<argv, i>>
  PROVE  /\ Names' = Names /\ (WellFormed <=> WellFormed')
         /\ PairsRead => PairsRead'
         /\ \A options : Named(options)' = Named(options) /\ Before(options)' = Before(options)
         /\ UNCHANGED address /\ AddressRead => AddressRead'
         /\ UNCHANGED number => \A o \in Counted : LastRead(o) => LastRead(o)'
         /\ UNCHANGED length /\ DataRead => DataRead'
  <1>1. Names' = Names /\ \A options : Named(options)' = Named(options)
    BY DEF Names, Named
  <1>2. \A options : Before(options)' = Before(options)
    BY <1>1 DEF Before
  <1>3. WellFormed <=> WellFormed'
    BY <1>1 DEF WellFormed
  <1>4. PairsRead => PairsRead'
    BY <1>1 DEF PairsRead
  <1>5. UNCHANGED address /\ AddressRead => AddressRead'
    BY <1>1, <1>2 DEF AddressRead
  <1>6. ASSUME UNCHANGED number, NEW o \in Counted, LastRead(o)
        PROVE  LastRead(o)'
    BY <1>2, <1>6 DEF LastRead
  <1>7. UNCHANGED length /\ DataRead => DataRead'
    BY <1>1, <1>2 DEF DataRead, GivenLength
  <1> QED
    BY <1>1, <1>2, <1>3, <1>4, <1>5, <1>6, <1>7

\* A step over an option and its argument.
LEMMA Passed ==
  ASSUME argv \in CommandLines, i \in Nat \ {0}, i + 1 <= Len(argv), PairsRead,
         argv' = argv, i' = i + 2
  PROVE  /\ i \in Names /\ Names' = Names /\ (WellFormed <=> WellFormed')
         /\ IsPair(argv[i], argv[i + 1]) => PairsRead'
         /\ \A options : Before(options)' = IF argv[i] \in {<<o>> : o \in options}
                                            THEN Before(options) \cup {i} ELSE Before(options)
         /\ \A options : \A k \in Before(options) : k < i
  <1>1. Len(argv) \in Nat /\ \A k : k \in Names <=> k \in 1 .. Len(argv) /\ k % 2 = 1
    BY Positions
  <1>2. i % 2 = 1 /\ (i + 2) % 2 = 1
    BY DEF PairsRead
  <1>3. i \in Names
    BY <1>1, <1>2
  <1>4. \A k \in Names : k < i + 2 <=> k < i \/ k = i
    <2> SUFFICES ASSUME NEW k \in Names PROVE k < i + 2 <=> k < i \/ k = i
      OBVIOUS
    <2>1. k \in Nat /\ k % 2 = 1
      BY <1>1
    <2>2. k # i + 1
      <3>1. (i + 1) % 2 = 0
        BY <1>2
      <3> QED
        BY <2>1, <3>1
    <2> QED
      BY <2>1, <2>2
  <1>5. Names' = Names /\ \A options : Named(options)' = Named(options)
    BY DEF Names, Named
  <1>6. WellFormed <=> WellFormed'
    BY <1>5 DEF WellFormed
  <1>7. ASSUME IsPair(argv[i], argv[i + 1]) PROVE PairsRead'
    <2>1. ASSUME NEW k \in Names, k < i + 2
          PROVE  k + 1 <= Len(argv) /\ IsPair(argv[k], argv[k + 1])
      BY <1>4, <1>7, <2>1 DEF PairsRead
    <2> QED
      BY <1>2, <1>5, <2>1 DEF PairsRead
  <1>8. ASSUME NEW CONSTANT options
        PROVE  Before(options)' = IF argv[i] \in {<<o>> : o \in options}
                                  THEN Before(options) \cup {i} ELSE Before(options)
    <2> DEFINE S == {<<o>> : o \in options}
    <2>1. Before(options)' = {k \in Names : argv[k] \in S /\ k < i + 2}
      BY <1>5 DEF Before, Named
    <2>2. Before(options) = {k \in Names : argv[k] \in S /\ k < i}
      BY DEF Before, Named
    <2> HIDE DEF S
    <2>3. \A k : k \in Before(options)' <=>
                  k \in Before(options) \/ (k = i /\ argv[i] \in S)
      BY <1>3, <1>4, <2>1, <2>2
    <2>4. CASE argv[i] \in S
      <3>1. \A k : k \in Before(options)' <=> k \in Before(options) \cup {i}
        BY <2>3, <2>4
      <3>2. Before(options)' = Before(options) \cup {i}
        BY <3>1, Zenon
      <3> QED
        BY <2>4, <3>2 DEF S
    <2>5. CASE argv[i] \notin S
      <3>1. Before(options)' = Before(options)
        BY <2>3, <2>5, Zenon
      <3> QED
        BY <2>5, <3>1 DEF S
    <2> QED
      BY <2>4, <2>5
  <1>9. \A options : \A k \in Before(options) : k < i
    BY DEF Before
  <1> QED
    BY <1>3, <1>5, <1>6, <1>7, <1>8, <1>9

\* What an option is not about stays as it was.
LEMMA PassedBy ==
  ASSUME argv \in CommandLines, i \in Nat \ {0}, i + 1 <= Len(argv), PairsRead,
         argv' = argv, i' = i + 2
  PROVE  /\ UNCHANGED address /\ argv[i] # <<"--address">> /\ AddressRead => AddressRead'
         /\ UNCHANGED length /\ DataRead /\ argv[i] \notin {<<"--data">>, <<"--file">>}
              => DataRead'
         /\ \A o \in Counted :
              number'[o] = number[o] /\ argv[i] # <<o>> /\ LastRead(o) => LastRead(o)'
  <1>1. /\ Names' = Names
        /\ \A options : Before(options)' = IF argv[i] \in {<<o>> : o \in options}
                                           THEN Before(options) \cup {i} ELSE Before(options)
    BY Passed
  <1>2. ASSUME UNCHANGED address, argv[i] # <<"--address">>, AddressRead
        PROVE  AddressRead'
    <2>1. Before({"--address"})' = Before({"--address"})
      BY <1>1, <1>2, OptionNames
    <2> QED
      BY <1>1, <1>2, <2>1 DEF AddressRead
  <1>3. ASSUME UNCHANGED length, DataRead, argv[i] \notin {<<"--data">>, <<"--file">>}
        PROVE  DataRead'
    <2>1. Before({"--data", "--file"})' = Before({"--data", "--file"})
      BY <1>1, <1>3, OptionNames
    <2> QED
      BY <1>1, <1>3, <2>1 DEF DataRead, GivenLength
  <1>4. ASSUME NEW o \in Counted, number'[o] = number[o], argv[i] # <<o>>, LastRead(o)
        PROVE  LastRead(o)'
    <2>1. Before({o})' = Before({o})
      BY <1>1, <1>4, OptionNames
    <2> QED
      BY <1>4, <2>1 DEF LastRead
  <1> QED
    BY <1>2, <1>3, <1>4

\* Nothing has been taken at first.
LEMMA TakenAtFirst == Init => TakenSoFar
  <1> SUFFICES ASSUME Init PROVE TakenSoFar
    OBVIOUS
  <1>1. \A k : k \in Names => k \in Nat /\ ~(k < 1)
    BY Positions DEF Init
  <1>2. \A options : Before(options) = {}
    BY <1>1 DEF Before, Named, Init
  <1>3. PairsRead
    BY <1>1 DEF PairsRead, Init
  <1> QED
    BY <1>2, <1>3 DEF Init, TakenSoFar, AddressRead, DataRead, LastRead, Judged

\* "--address" takes its argument for what build() makes of it, and only once.
LEMMA AddressTaken ==
  ASSUME TypeOK, Reading, TakenSoFar, ReadAddress
  PROVE  TakenSoFar'
  <1>1. /\ argv \in CommandLines /\ i \in Nat \ {0} /\ i + 1 <= Len(argv) /\ PairsRead
        /\ argv' = argv /\ i' = i + 2 /\ argv[i] = <<"--address">>
        /\ address = NoAddress /\ address' = Build(argv[i + 1]) /\ address' # NoAddress
        /\ status = "parsing" /\ UNCHANGED <<status, number, length>>
    BY TextGiven DEF ReadAddress, Option, AddressFits, HasValue, Value, TypeOK, Reading, TakenSoFar
  <1>2. /\ i \in Names /\ Names' = Names
        /\ IsPair(argv[i], argv[i + 1]) => PairsRead'
        /\ \A options : Before(options)' = IF argv[i] \in {<<o>> : o \in options}
                                           THEN Before(options) \cup {i} ELSE Before(options)
    BY <1>1, Passed
  <1>3. PairsRead'
    <2>1. argv[i + 1] \in Seq(Chars)
      BY <1>1, TextGiven DEF HasValue, Value, TypeOK
    <2>2. {Build(argv[i + 1])} = Meanings(argv[i + 1])
      BY <2>1, AddressBuilt
    <2>3. IsPair(argv[i], argv[i + 1])
      BY <1>1, <2>2 DEF IsPair
    <2> QED
      BY <1>2, <2>3
  <1>4. AddressRead'
    <2>1. Before({"--address"}) = {}
      BY <1>1 DEF TakenSoFar, AddressRead
    <2>2. Before({"--address"})' = {i}
      BY <1>1, <1>2, <2>1, OptionNames
    <2> QED
      BY <1>1, <1>2, <2>2 DEF AddressRead
  <1>5. DataRead'
    <2>1. argv[i] \notin {<<"--data">>, <<"--file">>}
      BY <1>1, OptionNames
    <2>2. DataRead
      BY <1>1 DEF TakenSoFar
    <2> QED
      BY <1>1, <2>1, <2>2, PassedBy
  <1>6. ASSUME NEW o \in Counted PROVE LastRead(o)'
    <2>1. argv[i] # <<o>> /\ number'[o] = number[o] /\ LastRead(o)
      BY <1>1, OptionNames DEF TakenSoFar
    <2> QED
      BY <1>1, <2>1, PassedBy
  <1> QED
    BY <1>1, <1>3, <1>4, <1>5, <1>6 DEF TakenSoFar, Judged

\* An option with a number takes the one that is written, whichever it was.
LEMMA NumberTaken ==
  ASSUME TypeOK, Reading, TakenSoFar, NEW p \in Counted, ReadNumber(p)
  PROVE  TakenSoFar'
  <1>1. /\ argv \in CommandLines /\ i \in Nat \ {0} /\ i + 1 <= Len(argv) /\ PairsRead
        /\ argv' = argv /\ i' = i + 2 /\ argv[i] = <<p>> /\ NumberGiven(p) # Invalid
        /\ number' = [number EXCEPT ![p] = NumberGiven(p)]
        /\ status = "parsing" /\ UNCHANGED <<status, address, length>>
    BY TextGiven DEF ReadNumber, Option, NumberFits, HasValue, TypeOK, Reading, TakenSoFar
  <1>2. /\ i \in Names /\ Names' = Names
        /\ IsPair(argv[i], argv[i + 1]) => PairsRead'
        /\ \A options : Before(options)' = IF argv[i] \in {<<o>> : o \in options}
                                           THEN Before(options) \cup {i} ELSE Before(options)
        /\ \A options : \A k \in Before(options) : k < i
    BY <1>1, Passed
  <1>3. NumberText(argv[i + 1], p) /\ NumberGiven(p) = NumberOf(argv[i + 1])
    <2>1. argv[i + 1] \in Seq(Chars)
      BY <1>1, TextGiven DEF HasValue, Value, TypeOK
    <2> QED
      BY <1>1, <2>1, NumberParsed DEF NumberGiven, Value
  <1>4. PairsRead'
    BY <1>1, <1>2, <1>3 DEF IsPair
  <1>5. argv[i] \notin {<<"--data">>, <<"--file">>} /\ argv[i] # <<"--address">>
    BY <1>1, OptionNames
  <1>6. AddressRead' /\ DataRead'
    <2>1. AddressRead /\ DataRead
      BY <1>1 DEF TakenSoFar
    <2> QED
      BY <1>1, <1>5, <2>1, PassedBy
  <1>7. ASSUME NEW o \in Counted PROVE LastRead(o)'
    <2>1. LastRead(o) /\ Counted \subseteq DOMAIN number
      BY DEF TakenSoFar, Reading
    <2>2. CASE o = p
      <3>1. Before({o})' = Before({o}) \cup {i}
        BY <1>1, <1>2, <2>2, OptionNames
      <3>2. number'[o] = NumberOf(argv'[i + 1])
        BY <1>1, <1>3, <2>1, <2>2
      <3>3. \A l \in Before({o}) \cup {i} : l <= i
        <4>1. \A l \in Before({o}) : l < i /\ l \in Nat
          BY <1>1, <1>2, Positions DEF Before
        <4> QED
          BY <1>1, <4>1
      <3> QED
        BY <3>1, <3>2, <3>3 DEF LastRead
    <2>3. CASE o # p
      <3>1. argv[i] # <<o>> /\ number'[o] = number[o]
        BY <1>1, <2>1, <2>3, OptionNames
      <3> QED
        BY <1>1, <2>1, <3>1, PassedBy
    <2> QED
      BY <2>2, <2>3
  <1> QED
    BY <1>1, <1>4, <1>6, <1>7 DEF TakenSoFar, Judged

\* The data of an option that is passed.
LEMMA DataTaken ==
  ASSUME argv \in CommandLines, i \in Nat \ {0}, i + 1 <= Len(argv), TakenSoFar,
         argv' = argv, i' = i + 2, status' = "parsing", UNCHANGED <<address, number>>,
         argv[i] \in {<<"--data">>, <<"--file">>}, IsPair(argv[i], argv[i + 1]),
         Before({"--data", "--file"}) = {},
         length' \in Nat \ {0}, length' = GivenLength(i)
  PROVE  TakenSoFar'
  <1>1. /\ i \in Names /\ Names' = Names /\ PairsRead'
        /\ \A options : Before(options)' = IF argv[i] \in {<<o>> : o \in options}
                                           THEN Before(options) \cup {i} ELSE Before(options)
    BY Passed DEF TakenSoFar
  <1>2. AddressRead'
    <2>1. argv[i] # <<"--address">> /\ AddressRead /\ PairsRead
      BY OptionNames DEF TakenSoFar
    <2> QED
      BY <2>1, PassedBy
  <1>3. DataRead'
    <2>1. Before({"--data", "--file"})' = {i}
      BY <1>1, OptionNames
    <2> QED
      BY <1>1, <2>1 DEF DataRead, GivenLength
  <1>4. ASSUME NEW o \in Counted PROVE LastRead(o)'
    <2>1. argv[i] # <<o>> /\ number'[o] = number[o] /\ LastRead(o) /\ PairsRead
      BY OptionNames DEF TakenSoFar
    <2> QED
      BY <2>1, PassedBy
  <1> QED
    BY <1>1, <1>2, <1>3, <1>4 DEF TakenSoFar, Judged

\* A step that reads no further keeps what has been taken, but for the data.
LEMMA StaysTaken ==
  ASSUME TakenSoFar, UNCHANGED <<argv, i, address, number>>
  PROVE  PairsRead' /\ AddressRead' /\ \A o \in Counted : LastRead(o)'
  BY Stays DEF TakenSoFar

\* "--data" takes its number when there is no data yet.
LEMMA DataOptionTaken ==
  ASSUME TypeOK, Reading, TakenSoFar, ReadData
  PROVE  TakenSoFar'
  <1>1. /\ argv \in CommandLines /\ i \in Nat \ {0} /\ i + 1 <= Len(argv)
        /\ argv' = argv /\ i' = i + 2 /\ argv[i] = <<"--data">>
        /\ length = 0 /\ NumberGiven("--data") # Invalid /\ length' = NumberGiven("--data")
        /\ status = "parsing" /\ UNCHANGED <<status, address, number>>
    BY TextGiven DEF ReadData, Option, DataFits, NumberFits, HasValue, TypeOK, Reading
  <1>2. NumberText(argv[i + 1], "--data") /\ NumberGiven("--data") = NumberOf(argv[i + 1])
    <2>1. argv[i + 1] \in Seq(Chars)
      BY <1>1, TextGiven DEF HasValue, Value, TypeOK
    <2> QED
      BY <1>1, <2>1, NumberParsed DEF NumberGiven, Value
  <1>3. length' \in Nat \ {0} /\ length' = GivenLength(i)
    <2>1. NumberOf(argv[i + 1]) \in Least["--data"] .. Most["--data"]
      BY <1>2 DEF NumberText
    <2>2. Least["--data"] \in Nat /\ Least["--data"] > 0 /\ Most["--data"] \in Nat
      BY CommandLineAssumption
    <2>3. NumberOf(argv[i + 1]) \in Nat \ {0}
      BY <2>1, <2>2
    <2> QED
      BY <1>1, <1>2, <2>3 DEF GivenLength
  <1>4. Before({"--data", "--file"}) = {}
    BY <1>1 DEF TakenSoFar, DataRead
  <1>5. IsPair(argv[i], argv[i + 1])
    BY <1>1, <1>2 DEF IsPair
  <1> QED
    BY <1>1, <1>3, <1>4, <1>5, DataTaken

\* "--file" is being read when there was no data yet; it is not passed before
\* the data is complete.
LEMMA FileOpened ==
  ASSUME TypeOK, Reading, TakenSoFar, OpenFile
  PROVE  TakenSoFar'
  <1>1. /\ argv[i] = <<"--file">> /\ length = 0 /\ status = "parsing" /\ status' = "reading"
        /\ argv[i + 1] \in DOMAIN FileSize
        /\ FileSize[argv[i + 1]] \in Least["--data"] .. Most["--data"]
        /\ unread'.due = FileSize[argv[i + 1]]
        /\ UNCHANGED <<argv, i, address, number, length>>
    BY DEF OpenFile, Option, FileFits, Value
  <1>2. PairsRead' /\ AddressRead' /\ \A o \in Counted : LastRead(o)'
    BY <1>1, StaysTaken
  <1>3. FileRead'
    <2>1. Before({"--data", "--file"}) = {}
      BY <1>1 DEF TakenSoFar, DataRead
    <2>2. Before({"--data", "--file"})' = {}
      BY <1>1, <2>1, Stays
    <2>3. length' + unread'.due = FileSize[argv'[i' + 1]]
      <3> DEFINE size == FileSize[argv[i + 1]]
      <3>1. size \in Nat
        BY <1>1, CommandLineAssumption
      <3>2. unread'.due = size /\ length' = 0
        BY <1>1
      <3>3. FileSize[argv'[i' + 1]] = size
        BY <1>1
      <3> HIDE DEF size
      <3> QED
        BY <3>1, <3>2, <3>3
    <2> QED
      BY <1>1, <2>2, <2>3 DEF FileRead
  <1> QED
    BY <1>1, <1>2, <1>3 DEF TakenSoFar, Judged

\* A part of the file adds to the data what is no longer due; the last one makes
\* it the size that was asked for, and the option is passed.
LEMMA PartTaken ==
  ASSUME TypeOK, Reading, TakenSoFar, ReadPart
  PROVE  TakenSoFar'
  <1>1. PICK n \in 1 .. unread.left :
          /\ unread' = [due |-> unread.due - n, left |-> unread.left - n]
          /\ length' = length + n
    BY DEF ReadPart
  <1>2. /\ status = "reading" /\ FileRead /\ argv \in CommandLines
        /\ UNCHANGED <<argv, address, number>>
        /\ IF unread'.due = 0 THEN status' = "parsing" /\ i' = i + 2
                              ELSE status' = "reading" /\ i' = i
    BY DEF ReadPart, AllRead, TakenSoFar, Reading
  <1> DEFINE size == FileSize[argv[i + 1]]
  <1>3. length' + unread'.due = size /\ length' \in Nat \ {0}
    <2> DEFINE due == unread.due
               left == unread.left
               due2 == unread'.due
    <2>1. due \in Nat /\ left \in Nat /\ length \in Nat
      BY CommandLineAssumption DEF TypeOK, Reading
    <2>2. due2 = due - n /\ n \in 1 .. left
      BY <1>1
    <2>3. length + due = size
      BY <1>2 DEF FileRead
    <2> HIDE DEF due, left, due2, size
    <2>4. length' + due2 = size /\ length' \in Nat \ {0}
      BY <1>1, <2>1, <2>2, <2>3
    <2> QED
      BY <2>4 DEF due2
  <1>4. CASE unread'.due # 0
    <2>1. PairsRead' /\ AddressRead' /\ \A o \in Counted : LastRead(o)'
      BY <1>2, <1>4, StaysTaken
    <2>2. Before({"--data", "--file"})' = {}
      BY <1>2, <1>4, Stays DEF FileRead
    <2>3. FileRead'
      BY <1>2, <1>3, <1>4, <2>2 DEF FileRead
    <2> QED
      BY <1>2, <1>4, <2>1, <2>3 DEF TakenSoFar, Judged
  <1>5. CASE unread'.due = 0
    <2>1. /\ argv[i] = <<"--file">> /\ argv[i + 1] \in DOMAIN FileSize
          /\ size \in Least["--data"] .. Most["--data"]
          /\ Before({"--data", "--file"}) = {}
      BY <1>2 DEF FileRead
    <2>2. IsPair(argv[i], argv[i + 1])
      BY <2>1 DEF IsPair
    <2>3. length' = size
      BY <1>3, <1>5
    <2>4. length' = GivenLength(i)
      <3>1. argv[i] # <<"--data">>
        BY <2>1
      <3> QED
        BY <2>3, <3>1 DEF GivenLength
    <2>5. i \in Nat \ {0} /\ i + 1 <= Len(argv)
      BY <1>2, TextGiven DEF TypeOK, Reading
    <2> HIDE DEF size
    <2> QED
      BY <1>2, <1>3, <1>5, <2>1, <2>2, <2>4, <2>5, DataTaken
  <1> QED
    BY <1>4, <1>5

\* What is named only once is named at one position.
LEMMA OneOnly ==
  ASSUME argv \in CommandLines, NEW options, Cardinality(Named(options)) = 1,
         NEW k \in Named(options), NEW l \in Named(options)
  PROVE  k = l
  <1>1. IsFiniteSet(Named(options))
    BY Positions, FS_Subset
  <1>2. \E x : Named(options) = {x}
    BY <1>1, FS_Singleton
  <1> QED
    BY <1>2

\* What is rejected while there are arguments left is not well-formed.
LEMMA RejectedRightly ==
  ASSUME TypeOK, Reading, TakenSoFar, Reject
  PROVE  ~WellFormed
  <1> SUFFICES ASSUME WellFormed PROVE FALSE
    OBVIOUS
  <1>1. /\ argv \in CommandLines /\ i \in Nat \ {0} /\ i <= Len(argv) /\ status = "parsing"
        /\ i % 2 = 1 /\ AddressRead /\ DataRead
    BY TextGiven DEF Reject, TypeOK, Reading, TakenSoFar, PairsRead
  <1>2. /\ i \in Names /\ Len(argv) \in Nat
        /\ \A options : argv[i] \in {<<o>> : o \in options} => i \in Named(options)
        /\ \A options : Before(options) # {} => \E k \in Named(options) : k # i
    <2>1. Len(argv) \in Nat /\ i \in Names
      BY <1>1, Positions
    <2>2. ASSUME NEW options, Before(options) # {} PROVE \E k \in Named(options) : k # i
      <3>1. PICK k \in Before(options) : TRUE
        BY <2>2
      <3>2. k \in Named(options) /\ k < i /\ k \in Nat
        BY <1>1, Positions DEF Before
      <3> QED
        BY <1>1, <3>2
    <2> QED
      BY <2>1, <2>2 DEF Named
  <1>3. HasValue /\ Value = argv[i + 1] /\ IsPair(argv[i], argv[i + 1])
    <2>1. Len(argv) % 2 = 0 /\ IsPair(argv[i], argv[i + 1])
      BY <1>2 DEF WellFormed
    <2>2. i + 1 <= Len(argv)
      BY <1>1, <1>2, <2>1
    <2> QED
      BY <2>1, <2>2 DEF HasValue, Value
  <1>4. Value \in Seq(Chars)
    BY <1>1, <1>3, TextGiven DEF TypeOK
  <1>5. ASSUME argv[i] = <<"--address">>, Meanings(argv[i + 1]) # {NoAddress}
        PROVE  FALSE
    <2>1. Build(Value) # NoAddress
      BY <1>3, <1>4, <1>5, AddressBuilt
    <2>2. address # NoAddress
      BY <1>1, <1>3, <1>5, <2>1 DEF Reject, Option, AddressFits
    <2>3. Before({"--address"}) # {} /\ i \in Named({"--address"})
      <3>1. argv[i] \in {<<o>> : o \in {"--address"}}
        BY <1>5, OptionNames
      <3>2. Before({"--address"}) # {}
        BY <1>1, <2>2 DEF AddressRead
      <3> QED
        BY <1>2, <3>1, <3>2
    <2>4. PICK k \in Named({"--address"}) : k # i
      BY <1>2, <2>3
    <2> QED
      BY <1>1, <2>3, <2>4, OneOnly DEF WellFormed
  <1>6. \A o \in Counted \cup {"--data"} : NumberText(argv[i + 1], o) => NumberFits(o)
    <2> SUFFICES ASSUME NEW o \in Counted \cup {"--data"}, NumberText(argv[i + 1], o)
                 PROVE  NumberFits(o)
      OBVIOUS
    <2>1. NumberGiven(o) = NumberOf(argv[i + 1])
      BY <1>3, <1>4, NumberParsed DEF NumberGiven
    <2>2. NumberOf(argv[i + 1]) # Invalid
      BY CommandLineAssumption DEF NumberText, Invalid
    <2> QED
      BY <1>3, <2>1, <2>2 DEF NumberFits
  <1>7. ASSUME NEW c \in Counted, argv[i] = <<c>>, NumberText(argv[i + 1], c)
        PROVE  FALSE
    BY <1>1, <1>6, <1>7 DEF Reject, Option
  <1>8. ASSUME argv[i] \in {<<"--data">>, <<"--file">>}, length # 0
        PROVE  FALSE
    <2>1. Before({"--data", "--file"}) # {} /\ i \in Named({"--data", "--file"})
      <3>1. argv[i] \in {<<o>> : o \in {"--data", "--file"}}
        BY <1>8, OptionNames
      <3>2. Before({"--data", "--file"}) # {}
        BY <1>1, <1>8 DEF DataRead
      <3> QED
        BY <1>2, <3>1, <3>2
    <2>2. PICK k \in Named({"--data", "--file"}) : k # i
      BY <1>2, <2>1
    <2> QED
      BY <1>1, <2>1, <2>2, OneOnly DEF WellFormed
  <1>9. ASSUME argv[i] = <<"--data">>, NumberText(argv[i + 1], "--data")
        PROVE  FALSE
    <2>1. ~DataFits
      BY <1>1, <1>9 DEF Reject, Option
    <2> QED
      BY <1>6, <1>8, <1>9, <2>1 DEF DataFits
  <1>10. ASSUME argv[i] = <<"--file">>, argv[i + 1] \in DOMAIN FileSize,
                FileSize[argv[i + 1]] \in Least["--data"] .. Most["--data"]
         PROVE  FALSE
    <2>1. ~FileFits
      BY <1>1, <1>10 DEF Reject, Option
    <2> QED
      BY <1>3, <1>8, <1>10, <2>1 DEF FileFits
  <1> QED
    BY <1>3, <1>5, <1>7, <1>9, <1>10 DEF IsPair

\* When no argument is left, the command line is well-formed if, and only if,
\* an address and some data have been taken.
LEMMA AllTaken ==
  ASSUME TypeOK, Reading, TakenSoFar, i > Len(argv), DataRead
  PROVE  /\ \A options : Before(options) = Named(options)
         /\ WellFormed <=> Complete
  <1>1. /\ argv \in CommandLines /\ Len(argv) \in Nat /\ i = Len(argv) + 1
        /\ PairsRead /\ AddressRead /\ length \in Nat
    <2>1. argv \in CommandLines /\ PairsRead /\ AddressRead
      BY DEF Reading, TakenSoFar
    <2>2. Len(argv) \in Nat
      BY <2>1, TextGiven
    <2>3. i \in 1 .. Len(argv) + 1 /\ length \in 0 .. Most["--data"] /\ Most["--data"] \in Nat
      BY CommandLineAssumption DEF TypeOK
    <2>4. i = Len(argv) + 1 /\ length \in Nat
      BY <2>2, <2>3
    <2> QED
      BY <2>1, <2>2, <2>4
  <1>2. \A options : Before(options) = Named(options)
    <2>1. ASSUME NEW options, NEW k \in Named(options) PROVE k < i
      <3>1. k \in 1 .. Len(argv)
        BY <1>1, Positions
      <3> QED
        BY <1>1, <3>1
    <2> QED
      BY <2>1 DEF Before
  <1>3. Len(argv) % 2 = 0 /\ \A k \in Names : IsPair(argv[k], argv[k + 1])
    <2>1. \A k \in Names : k < i
      BY <1>1, Positions
    <2>2. i % 2 = 1
      BY <1>1 DEF PairsRead
    <2>3. Len(argv) % 2 = 0
      BY <1>1, <2>2
    <2> QED
      BY <1>1, <2>1, <2>3 DEF PairsRead
  <1>4. \A options : IsFiniteSet(Named(options))
    BY <1>1, Positions, FS_Subset
  <1>5. Cardinality({}) = 0 /\ \A x : Cardinality({x}) = 1
    BY FS_EmptySet, FS_Singleton
  <1>6. Cardinality(Named({"--address"})) = 1 <=> address # NoAddress
    <2> DEFINE given == Named({"--address"})
    <2>1. IF address = NoAddress THEN given = {} ELSE \E k \in Names : given = {k}
      BY <1>1, <1>2 DEF AddressRead
    <2> HIDE DEF given
    <2>2. CASE address = NoAddress
      BY <1>5, <2>1, <2>2 DEF given
    <2>3. CASE address # NoAddress
      <3>1. PICK k : given = {k}
        BY <2>1, <2>3
      <3> QED
        BY <1>5, <2>3, <3>1 DEF given
    <2> QED
      BY <2>2, <2>3
  <1>7. Cardinality(Named({"--data", "--file"})) = 1 <=> length # 0
    <2> DEFINE given == Named({"--data", "--file"})
    <2>1. IF length = 0 THEN given = {} ELSE \E k \in Names : given = {k}
      BY <1>2 DEF DataRead
    <2> HIDE DEF given
    <2>2. CASE length = 0
      BY <1>5, <2>1, <2>2 DEF given
    <2>3. CASE length # 0
      <3>1. PICK k : given = {k}
        BY <2>1, <2>3
      <3> QED
        BY <1>5, <2>3, <3>1 DEF given
    <2> QED
      BY <2>2, <2>3
  <1> QED
    BY <1>1, <1>2, <1>3, <1>6, <1>7 DEF WellFormed, Complete

\* Every step of parse(argc, argv) keeps what has been taken.
LEMMA TakenNext ==
  ASSUME TypeOK, Reading, TakenSoFar, [Next]_vars
  PROVE  TakenSoFar'
  <1>1. CASE ReadAddress \/ (\E o \in Counted : ReadNumber(o)) \/ ReadData \/ OpenFile \/ ReadPart
    BY <1>1, AddressTaken, NumberTaken, DataOptionTaken, FileOpened, PartTaken
  <1>2. CASE ReadNothing \/ UNCHANGED vars
    <2>1. UNCHANGED vars
      BY <1>2 DEF ReadNothing
    <2>2. PairsRead' /\ AddressRead' /\ \A o \in Counted : LastRead(o)'
      BY <2>1, StaysTaken DEF vars
    <2>3. DataRead => DataRead'
      BY <2>1, Stays DEF vars
    <2>4. FileRead => FileRead'
      <3>1. Before({"--data", "--file"})' = Before({"--data", "--file"})
        BY <2>1, Stays DEF vars
      <3> QED
        BY <2>1, <3>1 DEF vars, FileRead
    <2>5. Judged'
      <3>1. WellFormed <=> WellFormed'
        BY <2>1, Stays DEF vars
      <3> QED
        BY <2>1, <3>1 DEF vars, TakenSoFar, Judged, Complete
    <2> QED
      BY <2>1, <2>2, <2>3, <2>4, <2>5 DEF vars, TakenSoFar
  <1>3. CASE Reject \/ Finish \/ Fails
    <2>1. /\ UNCHANGED <<argv, i, address, number, length, unread>>
          /\ status' \in {"accepted", "rejected", "failed"}
      BY <1>3 DEF Reject, Finish, Fails
    <2>2. PairsRead' /\ AddressRead' /\ \A o \in Counted : LastRead(o)'
      BY <2>1, StaysTaken
    <2>3. WellFormed <=> WellFormed'
      BY <2>1, Stays
    <2>4. status' = "rejected" => ~WellFormed
      <3>1. CASE Reject
        BY <3>1, RejectedRightly
      <3>2. CASE Finish
        BY <3>2, AllTaken DEF Finish, TakenSoFar
      <3>3. CASE Fails
        BY <3>3 DEF Fails
      <3> QED
        BY <1>3, <3>1, <3>2, <3>3
    <2>5. status' = "accepted" => i > Len(argv) /\ Complete /\ DataRead
      BY <1>3 DEF Reject, Finish, Fails, TakenSoFar
    <2>6. status' = "accepted" => DataRead'
      BY <2>1, <2>5, Stays
    <2>7. Judged'
      BY <2>1, <2>3, <2>4, <2>5 DEF Judged, Complete
    <2> QED
      BY <2>1, <2>2, <2>6, <2>7 DEF TakenSoFar
  <1> QED
    BY <1>1, <1>2, <1>3 DEF Next, Read

\* The largest of the positions of an argument that is given once, or more often.
LEMMA LargestGiven ==
  ASSUME argv \in CommandLines, NEW options, NEW k \in Named(options),
         \A l \in Named(options) : l <= k
  PROVE  Max(Named(options)) = k
  <1> DEFINE d == Named(options)
  <1>1. d \subseteq 1 .. Len(argv) /\ d # {} /\ Len(argv) \in Nat
    BY Positions
  <1> HIDE DEF d
  <1>2. Max(d) \in d /\ \A y \in d : Max(d) >= y
    BY <1>1, LargestOf
  <1>3. Max(d) \in Nat /\ k \in Nat /\ k \in d
    BY <1>1, <1>2 DEF d
  <1>4. Max(d) <= k /\ Max(d) >= k
    BY <1>2, <1>3 DEF d
  <1> QED
    BY <1>3, <1>4 DEF d

\* What has been taken when the parser returns is what the command line asks.
LEMMA TakenRight ==
  ASSUME TypeOK, Reading, TakenSoFar
  PROVE  TakenAsAsked
  <1> SUFFICES ASSUME status = "accepted"
               PROVE  /\ WellFormed
                      /\ {address} = Meanings(argv[Max(Named({"--address"})) + 1])
                      /\ \A o \in Counted : number[o] = AskedNumber(o)
                      /\ length = AskedLength
    BY DEF TakenAsAsked, TakenSoFar, Judged
  <1>1. /\ argv \in CommandLines /\ i > Len(argv) /\ Complete /\ DataRead /\ AddressRead
        /\ PairsRead /\ address # NoAddress /\ length # 0 /\ Len(argv) \in Nat
    BY TextGiven DEF Reading, TakenSoFar, Judged, Complete
  <1>2. WellFormed /\ \A options : Before(options) = Named(options)
    BY <1>1, AllTaken
  <1>3. \A k \in Names : k \in Nat /\ k <= k /\ k + 1 \in 1 .. Len(argv)
    <2> SUFFICES ASSUME NEW k \in Names PROVE k + 1 \in 1 .. Len(argv) /\ k \in Nat
      OBVIOUS
    <2>1. k \in 1 .. Len(argv)
      BY <1>1, Positions
    <2>2. i \in Nat
      BY <1>1 DEF TypeOK
    <2>3. k < i
      BY <1>1, <2>1, <2>2
    <2> QED
      BY <1>1, <2>1, <2>3 DEF PairsRead
  <1>4. {address} = Meanings(argv[Max(Named({"--address"})) + 1])
    <2>1. PICK k \in Names : Named({"--address"}) = {k} /\ address = Build(argv[k + 1])
      BY <1>1, <1>2 DEF AddressRead
    <2>2. Max(Named({"--address"})) = k
      BY <1>1, <1>3, <2>1, LargestGiven
    <2>3. argv[k + 1] \in Seq(Chars)
      BY <1>1, <1>3, Positions
    <2> QED
      BY <2>1, <2>2, <2>3, AddressBuilt
  <1>5. ASSUME NEW o \in Counted PROVE number[o] = AskedNumber(o)
    <2>1. CASE Named({o}) = {}
      BY <1>2, <2>1 DEF TakenSoFar, LastRead, AskedNumber
    <2>2. CASE Named({o}) # {}
      <3>1. PICK k \in Named({o}) : /\ \A l \in Named({o}) : l <= k
                                    /\ number[o] = NumberOf(argv[k + 1])
        BY <1>2, <2>2 DEF TakenSoFar, LastRead
      <3>2. Max(Named({o})) = k
        BY <1>1, <3>1, LargestGiven
      <3> QED
        BY <2>2, <3>1, <3>2 DEF AskedNumber
    <2> QED
      BY <2>1, <2>2
  <1>6. length = AskedLength
    <2>1. PICK k \in Names : Named({"--data", "--file"}) = {k} /\ length = GivenLength(k)
      BY <1>1, <1>2 DEF DataRead
    <2>2. Max(Named({"--data", "--file"})) = k
      BY <1>1, <1>3, <2>1, LargestGiven
    <2> QED
      BY <2>1, <2>2 DEF AskedLength, GivenLength
  <1> QED
    BY <1>2, <1>4, <1>5, <1>6

\* However long the command line is, and in whichever order its options are, the
\* loop of parse(argc, argv) accepts it only when it is well-formed as a whole,
\* with the one address, the numbers and the complete data it asks for, and
\* rejects it only when it is not: that a part has been given twice, or is
\* missing, is seen from what the members hold.
THEOREM Taken == Spec => []TakenAsAsked
  <1>1. Spec => [](TypeOK /\ Reading /\ TakenSoFar)
    BY TypedAtFirst, TypedNext, TakenAtFirst, TakenNext, PTL DEF Spec
  <1>2. TypeOK /\ Reading /\ TakenSoFar => TakenAsAsked
    BY TakenRight
  <1> QED
    BY <1>1, <1>2, PTL

\* However long it is, build() takes a text for the one thing it means: no text
\* has a second reading as a host and a port, extract_ip_port() finds the one
\* there is, and only what has none is the path of a Unix socket.
THEOREM Addresses == Spec => []AddressesAsWritten
  <1>1. TypeOK /\ Reading => AddressesAsWritten
    BY Positions, AddressBuilt DEF Reading, AddressesAsWritten
  <1>2. Spec => [](TypeOK /\ Reading)
    BY TypedAtFirst, TypedNext, PTL DEF Spec
  <1> QED
    BY <1>1, <1>2, PTL

-----------------------------------------------------------------------------
(* What is printed.                                                        *)

\* The digit printed last for n.
LastDigit(n) == CHOOSE c \in Digit : DigitValue[c] = n % 10

\* There is a digit for it.
LEMMA DigitChosen ==
  ASSUME NEW n \in Nat
  PROVE  LastDigit(n) \in Digit /\ DigitValue[LastDigit(n)] = n % 10
  <1>1. /\ "0" \in Digit /\ DigitValue["0"] = 0
        /\ "1" \in Digit /\ DigitValue["1"] = 1
        /\ "2" \in Digit /\ DigitValue["2"] = 2
        /\ "3" \in Digit /\ DigitValue["3"] = 3
        /\ "4" \in Digit /\ DigitValue["4"] = 4
        /\ "5" \in Digit /\ DigitValue["5"] = 5
        /\ "6" \in Digit /\ DigitValue["6"] = 6
        /\ "7" \in Digit /\ DigitValue["7"] = 7
        /\ "8" \in Digit /\ DigitValue["8"] = 8
        /\ "9" \in Digit /\ DigitValue["9"] = 9
    BY DEF Digit, DigitValue
  <1>2. n % 10 \in 0 .. 9
    OBVIOUS
  <1>3. \E c \in Digit : DigitValue[c] = n % 10
    BY <1>1, <1>2
  <1> QED
    BY <1>3 DEF LastDigit

\* The recursion of Decimal defines a function.
LEMMA Decimals ==
  /\ Decimal \in [0 .. MaxPort -> Seq(Digit)]
  /\ \A n \in 0 .. MaxPort :
       Decimal[n] = IF n < 10 THEN <<LastDigit(n)>> ELSE Append(Decimal[n \div 10], LastDigit(n))
  <1> DEFINE D == 0 .. MaxPort
             size == [n \in D |-> n]
             pred == [n \in D |-> n \div 10]
             V == Seq(Digit)
             base == <<LastDigit(0)>>
             F == [p \in D \X V |-> IF p[1] < 10 THEN <<LastDigit(p[1])>>
                                                 ELSE Append(p[2], LastDigit(p[1]))]
             Prints(f) == f = [n \in D |-> IF n < 10 THEN <<LastDigit(n)>>
                                                     ELSE Append(f[n \div 10], LastDigit(n))]
  <1>1. MaxPort \in Nat
    BY AddressAssumption
  <1>2. ASSUME NEW n \in D
        PROVE  /\ n \in Nat /\ LastDigit(n) \in Digit /\ <<LastDigit(n)>> \in V
               /\ n \div 10 \in D /\ (n # 0 => n \div 10 < n)
    <2>1. n \in Nat /\ n <= MaxPort
      BY <1>1
    <2>2. LastDigit(n) \in Digit
      BY <2>1, DigitChosen
    <2>3. <<LastDigit(n)>> \in V
      BY <2>2, Marks
    <2>4. n \div 10 \in Nat /\ n \div 10 <= n /\ (n # 0 => n \div 10 < n)
      BY <2>1
    <2> QED
      BY <1>1, <2>1, <2>2, <2>3, <2>4
  <1>3. Recurs(D, size, pred, V, base, F)
    <2>1. size \in [D -> Nat] /\ pred \in [D -> D]
      BY <1>2
    <2>2. base \in V
      <3>1. 0 \in D
        BY <1>1
      <3> QED
        BY <1>2, <3>1
    <2>3. F \in [D \X V -> V]
      <3>1. ASSUME NEW n \in D, NEW t \in V PROVE Append(t, LastDigit(n)) \in V
        BY <1>2, AppendProperties
      <3>2. ASSUME NEW p \in D \X V
            PROVE  (IF p[1] < 10 THEN <<LastDigit(p[1])>>
                                 ELSE Append(p[2], LastDigit(p[1]))) \in V
        <4>1. p[1] \in D /\ p[2] \in V
          OBVIOUS
        <4> HIDE DEF D, V
        <4> QED
          BY <1>2, <3>1, <4>1
      <3> HIDE DEF D, V
      <3> QED
        BY <3>2
    <2>4. \A d \in D : size[d] # 0 => size[pred[d]] < size[d]
      BY <1>2
    <2> HIDE DEF D, size, pred, V, base, F
    <2> QED
      BY <2>1, <2>2, <2>3, <2>4 DEF Recurs
  <1>4. PICK g : Solves(g, D, size, pred, V, base, F)
    <2> HIDE DEF D, size, pred, V, base, F
    <2> QED
      BY <1>3, Recursion
  <1>5. g \in [D -> V]
    BY <1>4 DEF Solves
  <1>6. ASSUME NEW n \in D
        PROVE  g[n] = IF n < 10 THEN <<LastDigit(n)>> ELSE Append(g[n \div 10], LastDigit(n))
    <2>1. size[n] = n /\ pred[n] = n \div 10 /\ n \div 10 \in D
      BY <1>2
    <2>2. g[n] = IF n = 0 THEN base ELSE F[<<n, g[n \div 10]>>]
      <3> HIDE DEF D, size, pred, V, base, F
      <3> QED
        BY <1>4, <2>1 DEF Solves
    <2>3. g[n \div 10] \in V
      <3> HIDE DEF D, V
      <3> QED
        BY <1>5, <2>1
    <2>4. F[<<n, g[n \div 10]>>] = IF n < 10 THEN <<LastDigit(n)>>
                                            ELSE Append(g[n \div 10], LastDigit(n))
      <3> HIDE DEF D, V
      <3> QED
        BY <2>3
    <2>5. n = 0 => base = <<LastDigit(n)>> /\ n < 10
      OBVIOUS
    <2> HIDE DEF D, V, F, base
    <2> QED
      BY <2>2, <2>4, <2>5
  <1>7. Prints(g)
    <2>1. g = [n \in D |-> g[n]]
      BY <1>5
    <2> HIDE DEF D
    <2> QED
      BY <1>6, <2>1
  <1>8. Prints(Decimal)
    <2>1. Decimal = CHOOSE f : Prints(f)
      BY DEF Decimal, LastDigit
    <2> HIDE DEF Prints
    <2> QED
      BY <1>7, <2>1
  <1>9. \A n \in D : Decimal[n] = IF n < 10 THEN <<LastDigit(n)>>
                                           ELSE Append(Decimal[n \div 10], LastDigit(n))
    <2> HIDE DEF D
    <2> QED
      BY <1>8
  <1> DEFINE T == {k \in Nat : \A n \in D : n <= k => Decimal[n] \in V}
  <1>10. 0 \in T
    <2>1. ASSUME NEW n \in D, n <= 0 PROVE Decimal[n] \in V
      <3>1. n < 10
        BY <1>2, <2>1
      <3> HIDE DEF D, V
      <3> QED
        BY <1>2, <1>9, <3>1
    <2> QED
      BY <2>1
  <1>11. ASSUME NEW k \in Nat, k \in T PROVE k + 1 \in T
    <2>1. ASSUME NEW n \in D, n <= k + 1 PROVE Decimal[n] \in V
      <3>1. CASE n < 10
        <4> HIDE DEF D, V
        <4> QED
          BY <1>2, <1>9, <3>1
      <3>2. CASE ~(n < 10)
        <4>1. n \div 10 \in D /\ n \div 10 <= k /\ LastDigit(n) \in Digit
          BY <1>2, <2>1, <3>2
        <4>2. Decimal[n \div 10] \in V
          BY <1>11, <4>1
        <4>3. Decimal[n] = Append(Decimal[n \div 10], LastDigit(n))
          <5> HIDE DEF D
          <5> QED
            BY <1>9, <3>2
        <4>4. Append(Decimal[n \div 10], LastDigit(n)) \in V
          BY <4>1, <4>2, AppendProperties
        <4> HIDE DEF V
        <4> QED
          BY <4>3, <4>4
      <3> QED
        BY <3>1, <3>2
    <2> QED
      BY <2>1
  <1>12. Decimal \in [D -> V]
    <2>1. Nat \subseteq T
      <3> HIDE DEF T
      <3> QED
        BY <1>10, <1>11, NumberInduction
    <2>2. ASSUME NEW n \in D PROVE Decimal[n] \in V
      <3>1. n \in Nat /\ n \in T /\ n <= n
        <4> HIDE DEF T
        <4> QED
          BY <1>2, <2>1
      <3> QED
        BY <3>1
    <2>3. Decimal = [n \in D |-> Decimal[n]]
      BY <1>8
    <2> HIDE DEF D, V
    <2> QED
      BY <2>2, <2>3
  <1> QED
    BY <1>9, <1>12

\* A loop that has read a text and can hold one more digit reads that one, too.
LEMMA OneMoreDigit ==
  ASSUME NEW m \in Nat, NEW t \in Seq(Digit), NEW c \in Digit, NEW h, HoldsSoFar(h, t, m),
         h[Len(t)] # Invalid, h[Len(t)] * 10 + DigitValue[c] <= m
  PROVE  \E g : /\ HoldsSoFar(g, Append(t, c), m)
                /\ g[Len(Append(t, c))] = h[Len(t)] * 10 + DigitValue[c]
  <1> DEFINE s == Append(t, c)
             n == Len(t)
             x == h[n] * 10 + DigitValue[c]
             g == [k \in 0 .. n + 1 |-> IF k = n + 1 THEN x ELSE h[k]]
  <1>1. n \in Nat
    BY LenProperties
  <1>2. Len(s) = n + 1 /\ s[n + 1] = c /\ \A k \in 1 .. n : s[k] = t[k]
    BY AppendProperties
  <1>3. /\ h \in [0 .. n -> {Invalid} \cup 0 .. m] /\ h[0] = 0
        /\ \A k \in 1 .. n :
             LET y == h[k - 1] * 10 + DigitValue[t[k]]
             IN h[k] = IF h[k - 1] # Invalid /\ t[k] \in Digit /\ y <= m THEN y ELSE Invalid
    BY DEF HoldsSoFar
  <1>4. DigitValue[c] \in Nat
    BY DigitsAreValues
  <1> HIDE DEF s, n
  <1>5. h[n] \in 0 .. m /\ x \in 0 .. m
    <2>1. h[n] \in 0 .. m
      BY <1>1, <1>3 DEF n
    <2> QED
      BY <1>4, <2>1 DEF n
  <1>6. x <= m /\ h[n] # Invalid
    BY DEF n
  <1> HIDE DEF x
  <1>7. /\ g[n + 1] = x /\ \A k \in 0 .. n : k \in 0 .. n + 1 /\ g[k] = h[k]
    BY <1>1
  <1>8. g \in [0 .. n + 1 -> {Invalid} \cup 0 .. m] /\ g[0] = 0
    <2>1. ASSUME NEW k \in 0 .. n + 1
          PROVE  (IF k = n + 1 THEN x ELSE h[k]) \in {Invalid} \cup 0 .. m
      <3>1. k = n + 1 \/ k \in 0 .. n
        BY <1>1
      <3> QED
        BY <1>3, <1>5, <3>1
    <2>2. 0 \in 0 .. n
      BY <1>1
    <2> QED
      BY <1>3, <1>7, <2>1, <2>2
  <1> HIDE DEF g
  <1>9. ASSUME NEW k \in 1 .. n + 1
        PROVE  LET y == g[k - 1] * 10 + DigitValue[s[k]]
               IN g[k] = IF g[k - 1] # Invalid /\ s[k] \in Digit /\ y <= m THEN y ELSE Invalid
    <2>1. CASE k = n + 1
      <3>1. k - 1 = n /\ n \in 0 .. n
        BY <1>1, <2>1
      <3>2. g[k - 1] = h[n] /\ g[k] = x /\ s[k] = c
        BY <1>2, <1>7, <2>1, <3>1
      <3> QED
        BY <1>6, <3>2 DEF x
    <2>2. CASE k # n + 1
      <3>1. k \in 1 .. n /\ k \in 0 .. n /\ k - 1 \in 0 .. n
        BY <1>1, <2>2
      <3>2. g[k] = h[k] /\ g[k - 1] = h[k - 1] /\ s[k] = t[k]
        BY <1>2, <1>7, <3>1
      <3> QED
        BY <1>3, <3>1, <3>2
    <2> QED
      BY <2>1, <2>2
  <1>10. HoldsSoFar(g, s, m)
    BY <1>2, <1>8, <1>9 DEF HoldsSoFar
  <1>11. g[Len(s)] = x
    BY <1>2, <1>7
  <1> QED
    BY <1>10, <1>11 DEF s, x, n

\* A number is its other digits and the last one.
LEMMA LastOfTen ==
  ASSUME NEW n \in Nat
  PROVE  n = (n \div 10) * 10 + (n % 10) /\ n \div 10 \in Nat /\ (n < 10 => n % 10 = n)
  OBVIOUS

\* A loop that may hold every port reads a number that is printed.
LEMMA DecimalRead ==
  ASSUME NEW p \in 0 .. MaxPort
  PROVE  \E h : HoldsSoFar(h, Decimal[p], MaxPort) /\ h[Len(Decimal[p])] = p
  <1> DEFINE ReadBack(n) ==
               \E h : HoldsSoFar(h, Decimal[n], MaxPort) /\ h[Len(Decimal[n])] = n
             T == {k \in Nat : \A n \in 0 .. MaxPort : n <= k => ReadBack(n)}
  <1>1. MaxPort \in Nat /\ p \in Nat
    BY AddressAssumption
  <1>2. ASSUME NEW n \in 0 .. MaxPort
        PROVE  /\ n \in Nat /\ LastDigit(n) \in Digit /\ DigitValue[LastDigit(n)] = n % 10
               /\ n # Invalid
    BY <1>1, DigitChosen DEF Invalid
  <1>3. ASSUME NEW n \in 0 .. MaxPort, n < 10
        PROVE  ReadBack(n)
    <2> DEFINE h == [k \in 0 .. 0 |-> 0]
               e == <<>>
               c == LastDigit(n)
    <2>1. e \in Seq(Digit) /\ Len(e) = 0
      OBVIOUS
    <2>2. HoldsSoFar(h, e, MaxPort) /\ h[Len(e)] = 0
      BY <1>1 DEF HoldsSoFar
    <2>3. Decimal[n] = Append(e, c)
      BY <1>3, Decimals
    <2>4. c \in Digit /\ DigitValue[c] = n /\ n \in Nat /\ n <= MaxPort
      BY <1>1, <1>2, <1>3, LastOfTen
    <2> HIDE DEF h, e, c
    <2>5. h[Len(e)] # Invalid /\ h[Len(e)] * 10 + DigitValue[c] = n
      BY <2>2, <2>4 DEF Invalid
    <2>6. h[Len(e)] * 10 + DigitValue[c] <= MaxPort
      BY <2>4, <2>5
    <2>7. \E g : /\ HoldsSoFar(g, Append(e, c), MaxPort)
                 /\ g[Len(Append(e, c))] = h[Len(e)] * 10 + DigitValue[c]
      BY <1>1, <2>1, <2>2, <2>4, <2>5, <2>6, OneMoreDigit
    <2> QED
      BY <2>3, <2>5, <2>7
  <1>4. ASSUME NEW n \in 0 .. MaxPort, ~(n < 10), ReadBack(n \div 10)
        PROVE  ReadBack(n)
    <2> DEFINE q == n \div 10
               c == LastDigit(n)
    <2>1. n = q * 10 + (n % 10) /\ q \in 0 .. MaxPort
      BY <1>1, <1>2, LastOfTen
    <2>2. PICK h : HoldsSoFar(h, Decimal[q], MaxPort) /\ h[Len(Decimal[q])] = q
      BY <1>4
    <2>3. Decimal[n] = Append(Decimal[q], c)
      BY <1>4, Decimals
    <2> HIDE DEF q
    <2>4. Decimal[q] \in Seq(Digit)
      BY <2>1, Decimals
    <2>5. c \in Digit /\ q * 10 + DigitValue[c] = n /\ n <= MaxPort /\ q # Invalid
      BY <1>1, <1>2, <2>1
    <2> HIDE DEF c
    <2> DEFINE last == h[Len(Decimal[q])]
    <2>6. last # Invalid /\ last * 10 + DigitValue[c] <= MaxPort
      BY <2>2, <2>5
    <2>7. \E g : /\ HoldsSoFar(g, Append(Decimal[q], c), MaxPort)
                 /\ g[Len(Append(Decimal[q], c))] = last * 10 + DigitValue[c]
      BY <1>1, <2>2, <2>4, <2>5, <2>6, OneMoreDigit
    <2> QED
      BY <2>2, <2>3, <2>5, <2>7
  <1> HIDE DEF ReadBack
  <1>5. 0 \in T
    <2>1. ASSUME NEW n \in 0 .. MaxPort, n <= 0 PROVE ReadBack(n)
      <3>1. n < 10
        BY <1>2, <2>1
      <3> QED
        BY <1>3, <3>1
    <2> QED
      BY <2>1
  <1>6. ASSUME NEW k \in Nat, k \in T PROVE k + 1 \in T
    <2>1. ASSUME NEW n \in 0 .. MaxPort, n <= k + 1 PROVE ReadBack(n)
      <3>1. CASE n < 10
        BY <1>3, <3>1
      <3>2. CASE ~(n < 10)
        <4>1. n \div 10 \in 0 .. MaxPort /\ n \div 10 <= k
          BY <1>1, <1>2, <2>1, <3>2
        <4>2. ReadBack(n \div 10)
          BY <1>6, <4>1
        <4> QED
          BY <1>4, <3>2, <4>2
      <3> QED
        BY <3>1, <3>2
    <2> QED
      BY <2>1
  <1>7. p \in T
    <2> HIDE DEF T
    <2> QED
      BY <1>1, <1>5, <1>6, NumberInduction
  <1>8. ReadBack(p)
    BY <1>1, <1>7
  <1> QED
    BY <1>8 DEF ReadBack

\* A port is printed as the text of digits that is written for it.
LEMMA DecimalWritten ==
  ASSUME NEW p \in 1 .. MaxPort
  PROVE  /\ Decimal[p] \in Seq(Chars) /\ Decimal[p] # <<>>
         /\ IsNumber(Decimal[p]) /\ NumberOf(Decimal[p]) = p
  <1> DEFINE s == Decimal[p]
  <1>1. MaxPort \in Nat /\ p \in Nat /\ p # Invalid /\ p # 0 /\ p \in 0 .. MaxPort
    BY AddressAssumption DEF Invalid
  <1>2. s \in Seq(Digit)
    BY <1>1, Decimals
  <1>3. PICK h : HoldsSoFar(h, s, MaxPort) /\ h[Len(s)] = p
    BY <1>1, DecimalRead
  <1> HIDE DEF s
  <1>4. s \in Seq(Chars)
    <2>1. Digit \subseteq Chars
      BY DEF Chars
    <2> QED
      BY <1>2, <2>1, SeqMonotonic
  <1>5. /\ \A k \in 1 .. Len(s) : s[k] \in Digit
        /\ NumberOf(s) = p
    BY <1>1, <1>3, <1>4, NumberRead
  <1>6. s # <<>>
    <2> SUFFICES ASSUME s = <<>> PROVE FALSE
      OBVIOUS
    <2>1. Len(s) = 0 /\ h[0] = 0
      BY <1>3 DEF HoldsSoFar
    <2> QED
      BY <1>1, <1>3, <2>1
  <1>7. DOMAIN s = 1 .. Len(s)
    BY <1>4, LenProperties
  <1> QED
    BY <1>4, <1>5, <1>6, <1>7 DEF s, IsNumber, Range

\* The parts of a text, those that are not empty, can be taken from it.
HasParts(s, a, b, c) ==
  /\ s \in Seq(Chars)
  /\ Len(a) > 0 => \E m, n \in DOMAIN s : a = SubSeq(s, m, n)
  /\ Len(b) > 0 => \E m, n \in DOMAIN s : b = SubSeq(s, m, n)
  /\ Len(c) > 0 => c \in Suffixes(s)

\* A text of three parts has them.
LEMMA PartsTaken ==
  ASSUME NEW a \in Seq(Chars), NEW b \in Seq(Chars), NEW c \in Seq(Chars)
  PROVE  HasParts(a \o b \o c, a, b, c)
  <1> DEFINE s == a \o b \o c
             ab == Len(a) + Len(b)
  <1>1. Len(a) \in Nat /\ Len(b) \in Nat /\ Len(c) \in Nat
    BY LenProperties
  <1>2. s \in Seq(Chars) /\ Joins(s, a, b, c)
    BY Joined
  <1> HIDE DEF s
  <1>3. Len(s) = ab + Len(c) /\ ab \in Nat
    BY <1>1, <1>2 DEF Joins
  <1>4. DOMAIN s = 1 .. Len(s)
    BY <1>2, LenProperties
  <1>5. /\ \A j \in 1 .. Len(a) : s[j] = a[j]
        /\ \A j \in 1 .. Len(b) : s[Len(a) + j] = b[j]
        /\ \A j \in 1 .. Len(c) : s[ab + j] = c[j]
    BY <1>2 DEF Joins
  <1>6. ASSUME NEW t \in Seq(Chars), NEW m \in Nat, NEW n \in Nat, m >= 1, n <= Len(s), m <= n + 1,
               Len(t) = n - m + 1, \A j \in 1 .. Len(t) : s[m + j - 1] = t[j]
        PROVE  t = SubSeq(s, m, n)
    <2>1. /\ SubSeq(s, m, n) \in Seq(Chars) /\ Len(SubSeq(s, m, n)) = n - m + 1
          /\ \A j \in 1 .. n - m + 1 : SubSeq(s, m, n)[j] = s[m + j - 1]
      BY <1>2, <1>6, Part
    <2>2. Len(t) = Len(SubSeq(s, m, n)) /\ \A j \in 1 .. Len(t) : t[j] = SubSeq(s, m, n)[j]
      BY <1>6, <2>1
    <2> HIDE <1>6
    <2> QED
      BY <2>1, <2>2, SeqEqual
  <1> HIDE DEF ab
  <1>7. ASSUME Len(a) > 0
        PROVE  /\ 1 \in DOMAIN s /\ Len(a) \in DOMAIN s /\ a = SubSeq(s, 1, Len(a))
    <2>1. /\ 1 \in Nat /\ 1 >= 1 /\ Len(a) <= Len(s) /\ 1 <= Len(a) + 1
          /\ Len(a) = Len(a) - 1 + 1 /\ \A j \in 1 .. Len(a) : 1 + j - 1 = j
      BY <1>1, <1>3 DEF ab
    <2>2. \A j \in 1 .. Len(a) : s[1 + j - 1] = a[j]
      BY <1>5, <2>1
    <2>3. a = SubSeq(s, 1, Len(a))
      BY <1>1, <1>6, <2>1, <2>2
    <2> QED
      BY <1>1, <1>4, <1>7, <2>1, <2>3
  <1>8. ASSUME Len(b) > 0
        PROVE  /\ Len(a) + 1 \in DOMAIN s /\ ab \in DOMAIN s
               /\ b = SubSeq(s, Len(a) + 1, ab)
    <2> DEFINE m == Len(a) + 1
    <2>1. /\ m \in Nat /\ m >= 1 /\ ab <= Len(s) /\ m <= ab + 1 /\ m <= ab
          /\ Len(b) = ab - m + 1 /\ \A j \in 1 .. Len(b) : m + j - 1 = Len(a) + j
      BY <1>1, <1>3, <1>8 DEF ab
    <2> HIDE DEF m
    <2>2. \A j \in 1 .. Len(b) : s[m + j - 1] = b[j]
      BY <1>5, <2>1
    <2>3. b = SubSeq(s, m, ab)
      BY <1>3, <1>6, <2>1, <2>2
    <2>4. m \in DOMAIN s /\ ab \in DOMAIN s
      <3>1. Len(s) \in Nat
        BY <1>1, <1>3
      <3> QED
        BY <1>3, <1>4, <2>1, <3>1
    <2> QED
      BY <2>3, <2>4 DEF m
  <1>9. ASSUME Len(c) > 0
        PROVE  c \in Suffixes(s)
    <2> DEFINE m == ab + 1
               n == Len(s)
    <2>1. /\ m \in Nat /\ n \in Nat /\ m >= 1 /\ n <= n /\ m <= n + 1 /\ m <= n
          /\ Len(c) = n - m + 1 /\ \A j \in 1 .. Len(c) : m + j - 1 = ab + j
      BY <1>1, <1>3, <1>9
    <2>2. n = Len(s)
      OBVIOUS
    <2> HIDE DEF m, n
    <2>3. \A j \in 1 .. Len(c) : s[m + j - 1] = c[j]
      BY <1>5, <2>1
    <2>4. c = SubSeq(s, m, n)
      BY <1>6, <2>1, <2>2, <2>3
    <2>5. m \in 1 .. n
      BY <2>1
    <2> QED
      BY <2>2, <2>4, <2>5 DEF Suffixes
  <1> HIDE DEF ab
  <1>10. HasParts(s, a, b, c)
    BY <1>2, <1>7, <1>8, <1>9 DEF HasParts
  <1> QED
    BY <1>10 DEF s

\* The second and the last one of four parts.
LEMMA SecondTaken ==
  ASSUME NEW a \in Seq(Chars), NEW b \in Seq(Chars), NEW c \in Seq(Chars), NEW d \in Seq(Chars)
  PROVE  HasParts(a \o b \o c \o d, a, b, d)
  <1> DEFINE ab == a \o b
             cd == c \o d
             s == a \o b \o c \o d
  <1>1. ab \in Seq(Chars) /\ cd \in Seq(Chars)
    BY ConcatProperties
  <1>2. s = a \o b \o cd
    OBVIOUS
  <1>3. s = ab \o c \o d
    OBVIOUS
  <1> HIDE DEF ab, cd, s
  <1>4. HasParts(ab \o c \o d, ab, c, d)
    BY <1>1, PartsTaken
  <1>5. HasParts(a \o b \o cd, a, b, cd)
    BY <1>1, PartsTaken
  <1>6. HasParts(s, a, b, d)
    BY <1>2, <1>3, <1>4, <1>5 DEF HasParts
  <1> QED
    BY <1>6 DEF s

\* What is printed for a host and a port reads as that host and that port.
LEMMA PrintedReads ==
  ASSUME NEW c \in Seq(Chars), Len(c) \in 1 .. AddrStrLen - 1, c[1] # "[", NEW p \in 1 .. MaxPort,
         NEW s, \/ s = c \o <<":">> \o Decimal[p]
                \/ s = <<"[">> \o c \o <<"]", ":">> \o Decimal[p]
  PROVE  s \in Seq(Chars) /\ <<c, Decimal[p]>> \in Readings(s)
  <1> DEFINE d == Decimal[p]
             a == <<":">>
             b == <<"[">>
             e == <<"]", ":">>
  <1>1. a \in Seq(Chars) /\ b \in Seq(Chars) /\ e \in Seq(Chars)
    BY MarkTexts
  <1>2. d \in Seq(Chars) /\ d # <<>> /\ IsNumber(d) /\ NumberOf(d) = p
    BY DecimalWritten
  <1>3. Reads(s, c, d)
    BY DEF Reads
  <1>4. s = c \o a \o d \/ s = b \o c \o e \o d
    OBVIOUS
  <1>5. Len(c) > 0
    BY LenProperties
  <1> HIDE DEF a, b, d, e
  <1>6. Len(d) > 0
    <2>1. Len(d) \in Nat \ {0}
      BY <1>2, EmptySeq
    <2> QED
      BY <2>1
  <1>7. /\ s \in Seq(Chars) /\ d \in Suffixes(s)
        /\ \E m, n \in DOMAIN s : c = SubSeq(s, m, n)
    <2>1. CASE s = c \o a \o d
      <3>1. HasParts(c \o a \o d, c, a, d)
        BY <1>1, <1>2, PartsTaken
      <3> QED
        BY <1>5, <1>6, <2>1, <3>1 DEF HasParts
    <2>2. CASE s = b \o c \o e \o d
      <3>1. HasParts(b \o c \o e \o d, b, c, d)
        BY <1>1, <1>2, SecondTaken
      <3> QED
        BY <1>5, <1>6, <2>2, <3>1 DEF HasParts
    <2> QED
      BY <1>4, <2>1, <2>2
  <1>8. c \in Hosts(s)
    BY <1>7, HostTexts
  <1>9. d \in Ports(s)
    BY <1>2, <1>7 DEF Ports
  <1>10. <<c, d>> \in Readings(s)
    <2>1. <<c, d>>[1] = c /\ <<c, d>>[2] = d /\ <<c, d>> \in Hosts(s) \X Ports(s)
      BY <1>8, <1>9
    <2> QED
      BY <1>3, <2>1 DEF Readings
  <1> QED
    BY <1>7, <1>10 DEF d

\* build() therefore makes that host and that port of it.
LEMMA PrintedBuilt ==
  ASSUME NEW c \in Seq(Chars), Len(c) \in 1 .. AddrStrLen - 1, c[1] # "[", NEW p \in 1 .. MaxPort,
         NEW s, \/ s = c \o <<":">> \o Decimal[p]
                \/ s = <<"[">> \o c \o <<"]", ":">> \o Decimal[p]
  PROVE  Build(s) = BuildIp(c, p)
  <1> DEFINE q == <<c, Decimal[p]>>
  <1>1. s \in Seq(Chars) /\ q \in Readings(s)
    BY PrintedReads
  <1>2. q[1] = c /\ NumberOf(q[2]) = p
    BY DecimalWritten
  <1> HIDE DEF q
  <1>3. BuildIp(q[1], NumberOf(q[2])) \in Meanings(s)
    BY <1>1 DEF Meanings
  <1>4. {Build(s)} = Meanings(s)
    BY <1>1, AddressBuilt
  <1> QED
    BY <1>2, <1>3, <1>4

\* What build() has made of a text, printed and read again, is the same.
LEMMA ReadsBack ==
  ASSUME NEW t \in Seq(Chars), Build(t).host # <<>>
  PROVE  Build(AddressText(Build(t))) = Build(t)
  <1> DEFINE a == Build(t)
  <1>1. NoAddress.host = <<>>
    BY DEF NoAddress, SocketAddress
  <1>2. CASE ExtractIpPort(t) = {}
    <2>1. a = SocketAddress("unix", t, 0)
      BY <1>1, <1>2 DEF Build, BuildUnix
    <2>2. a.family = "unix" /\ a.host = t /\ t # <<>>
      BY <2>1 DEF SocketAddress
    <2> HIDE DEF a
    <2>3. AddressText(a) = t
      BY <2>2 DEF AddressText
    <2> QED
      BY <2>3 DEF a
  <1>3. CASE ExtractIpPort(t) # {}
    <2>1. PICK k : Split(t, k)
      BY <1>3, Extracted
    <2> DEFINE ip == HostAt(t, k)
               port == NumberOf(PortAt(t, k))
               found == CHOOSE q \in ExtractIpPort(t) : TRUE
    <2>2. port \in 1 .. MaxPort
      BY <2>1 DEF Split
    <2>3. ExtractIpPort(t) = {<<ip, port>>}
      BY <2>1, Extracted
    <2> HIDE DEF ip, port
    <2>4. found = <<ip, port>> /\ a = BuildIp(found[1], found[2])
      BY <1>3, <2>3 DEF Build
    <2> HIDE DEF found
    <2>5. a = BuildIp(ip, port)
      BY <2>4
    <2> HIDE DEF a
    <2>6. CASE ip \in DOMAIN Inet4
      <3> DEFINE c == Canonical[Inet4[ip]]
      <3>1. /\ c \in DOMAIN Inet4 /\ Inet4[c] = Inet4[ip]
            /\ c \in Seq(STRING) /\ Len(c) \in 1 .. AddrStrLen - 1 /\ c[1] # "["
        BY <2>6, AddressAssumption
      <3>2. a = SocketAddress("inet", Inet4[ip], port)
        BY <2>5, <2>6 DEF BuildIp
      <3>3. AddressText(a) = c \o <<":">> \o Decimal[port]
        BY <3>2 DEF AddressText, SocketAddress
      <3> HIDE DEF c
      <3>4. Build(AddressText(a)) = BuildIp(c, port)
        BY <2>2, <3>1, <3>3, TextOfChars, PrintedBuilt
      <3> QED
        BY <3>1, <3>2, <3>4 DEF BuildIp, a
    <2>7. CASE ip \notin DOMAIN Inet4 /\ ip \in DOMAIN Inet6
      <3> DEFINE c == Canonical[Inet6[ip]]
      <3>1. /\ c \in DOMAIN Inet6 /\ Inet6[c] = Inet6[ip]
            /\ c \in Seq(STRING) /\ Len(c) \in 1 .. AddrStrLen - 1 /\ c[1] # "["
        BY <2>7, AddressAssumption
      <3>2. a = SocketAddress("inet6", Inet6[ip], port)
        BY <2>5, <2>7 DEF BuildIp
      <3>3. AddressText(a) = <<"[">> \o c \o <<"]", ":">> \o Decimal[port]
        BY <3>2 DEF AddressText, Inet6Text, SocketAddress
      <3> HIDE DEF c
      <3>4. Build(AddressText(a)) = BuildIp(c, port)
        BY <2>2, <3>1, <3>3, TextOfChars, PrintedBuilt
      <3>5. c \notin DOMAIN Inet4
        BY <3>1, AddressAssumption
      <3> QED
        BY <3>1, <3>2, <3>4, <3>5 DEF BuildIp, a
    <2>8. CASE ip \notin DOMAIN Inet4 /\ ip \notin DOMAIN Inet6
      BY <1>1, <2>5, <2>8 DEF BuildIp, a
    <2> QED
      BY <2>6, <2>7, <2>8
  <1> QED
    BY <1>2, <1>3

\* An address the parser has taken, printed and read again, is the same.
LEMMA AddressPrinted ==
  ASSUME Reading, TakenSoFar
  PROVE  PrintedAddressReadsBack
  <1>1. CASE address = NoAddress
    BY <1>1 DEF PrintedAddressReadsBack, NoAddress, SocketAddress
  <1>2. CASE address # NoAddress
    <2>1. PICK k \in Names : Before({"--address"}) = {k} /\ address = Build(argv[k + 1])
      BY <1>2 DEF TakenSoFar, AddressRead
    <2>2. k < i /\ k \in 1 .. Len(argv) /\ Len(argv) \in Nat
      BY <2>1, Positions DEF Before, Reading
    <2>3. k + 1 \in 1 .. Len(argv)
      BY <2>2 DEF TakenSoFar, PairsRead
    <2>4. argv[k + 1] \in Seq(Chars)
      BY <2>3, Positions DEF Reading
    <2> QED
      BY <2>1, <2>4, ReadsBack DEF PrintedAddressReadsBack
  <1> QED
    BY <1>1, <1>2

\* However it is written, an address that has been read and is printed, as
\* accepted() and main() do with to_string(), is read by build() as the same
\* address: the text inet_ntop() gives for a host and the digits of a port are
\* never taken for another host, another port or the path of a Unix socket.
THEOREM Printed == Spec => []PrintedAddressReadsBack
  <1>1. Spec => [](TypeOK /\ Reading /\ TakenSoFar)
    BY TypedAtFirst, TypedNext, TakenAtFirst, TakenNext, PTL DEF Spec
  <1>2. TypeOK /\ Reading /\ TakenSoFar => PrintedAddressReadsBack
    BY AddressPrinted
  <1> QED
    BY <1>1, <1>2, PTL

=============================================================================

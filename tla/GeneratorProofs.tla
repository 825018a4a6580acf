-------------------------- MODULE GeneratorProofs --------------------------
(***************************************************************************)
(* Proofs about DiffBuilder's workers, for all archives whose tokenization *)
(* is what GeneratorAssumption says, all plans, deltas and runs, however   *)
(* the runs before were cancelled or crashed:                              *)
(*                                                                         *)
(*  - the tokens that a run works with are those of its archives;          *)
(*  - the diff rebuilds the target, by recipes that are true;              *)
(*  - what a stage selects the next can extract and lay out;               *)
(*  - what the source makes is not needed of the diff.                     *)
(*                                                                         *)
(* Before the steps come the facts they rest on: what is made of a stock   *)
(* by recipes is the least set closed under them; each of some sequences   *)
(* lies in the concatenation of all where the ones before it end; a finite *)
(* set can be sorted.                                                      *)
(***************************************************************************)
EXTENDS Generator, FiniteSetTheorems, WellFoundedInduction, SequenceTheorems,
        TLAPS

-----------------------------------------------------------------------------
(* Induction.                                                              *)

\* A set of natural numbers that is not empty has a least one.
LEMMA Least ==
  ASSUME NEW T, T \subseteq Nat, T # {}
  PROVE  \E m \in T : \A n \in T : m <= n
<1>1. PICK m \in T : \A n \in T : ~(<<n, m>> \in OpToRel(<, Nat))
  BY NatLessThanWellFounded, WFMin
<1>2. \A n \in T : ~(n < m) BY <1>1 DEF OpToRel
<1> QED BY <1>2

\* Induction, for a set of numbers.
LEMMA AllNumbers ==
  ASSUME NEW T, 0 \in T, \A n \in Nat : n \in T => n + 1 \in T
  PROVE  Nat \subseteq T
<1> SUFFICES ASSUME Nat \ T # {} PROVE FALSE OBVIOUS
<1>1. PICK m \in Nat \ T : \A n \in Nat \ T : m <= n BY Least
<1>2. m # 0 /\ m - 1 \in Nat /\ m - 1 < m BY <1>1
<1>3. m - 1 \in T BY <1>1, <1>2
<1>4. (m - 1) + 1 = m BY <1>1
<1> QED BY <1>1, <1>2, <1>3, <1>4

-----------------------------------------------------------------------------
(* What is made of a stock.                                                *)

\* The rounds up to the n-th.
Rounds(made, stock, recipes, n) ==
    made = [k \in 0 .. n |-> IF k = 0 THEN stock ELSE MakesOf(made[k - 1], recipes)]

\* There are as many rounds as one likes.
LEMMA RoundsExist ==
  ASSUME NEW stock, NEW recipes
  PROVE  \A n \in Nat : \E made : Rounds(made, stock, recipes, n)
<1> DEFINE T == {n \in Nat : \E made : Rounds(made, stock, recipes, n)}
<1>1. 0 \in T
  <2> DEFINE g == [k \in 0 .. 0 |-> stock]
  <2>1. Rounds(g, stock, recipes, 0) BY DEF Rounds
  <2> QED BY <2>1
<1>2. ASSUME NEW n \in Nat, n \in T PROVE n + 1 \in T
  <2>1. PICK f : Rounds(f, stock, recipes, n) BY <1>2
  <2> DEFINE g == [k \in 0 .. n + 1 |->
                      IF k = n + 1 THEN MakesOf(f[n], recipes) ELSE f[k]]
  <2>2. \A k \in 0 .. n : f[k] = IF k = 0 THEN stock ELSE MakesOf(f[k - 1], recipes)
    BY <2>1 DEF Rounds
  <2>3. \A k \in 0 .. n : g[k] = f[k] OBVIOUS
  <2>4. ASSUME NEW k \in 0 .. n + 1
        PROVE  g[k] = IF k = 0 THEN stock ELSE MakesOf(g[k - 1], recipes)
    <3>1. CASE k = n + 1
      <4>1. g[k] = MakesOf(f[n], recipes) BY <3>1
      <4>2. k - 1 = n /\ k # 0 BY <3>1
      <4>3. g[k - 1] = f[n] BY <2>3, <4>2
      <4> QED BY <4>1, <4>2, <4>3
    <3>2. CASE k # n + 1
      <4>1. k \in 0 .. n BY <3>2
      <4>2. CASE k = 0 BY <2>2, <2>3, <4>1, <4>2
      <4>3. CASE k # 0
        <5>1. k - 1 \in 0 .. n BY <4>1, <4>3
        <5> QED BY <2>2, <2>3, <4>1, <4>3, <5>1
      <4> QED BY <4>2, <4>3
    <3> QED BY <3>1, <3>2
  <2>5. g = [k \in 0 .. n + 1 |->
                IF k = 0 THEN stock ELSE MakesOf(g[k - 1], recipes)]
    <3> HIDE DEF g
    <3>1. g = [k \in 0 .. n + 1 |-> g[k]] BY DEF g
    <3> QED BY <2>4, <3>1
  <2>6. Rounds(g, stock, recipes, n + 1) BY <2>5 DEF Rounds
  <2> HIDE DEF g
  <2> QED BY <2>6
<1> HIDE DEF T
<1>3. Nat \subseteq T BY <1>1, <1>2, AllNumbers
<1> QED BY <1>3 DEF T

\* Of two sequences of rounds one is the beginning of the other.
LEMMA RoundsAgree ==
  ASSUME NEW stock, NEW recipes, NEW f, NEW g, NEW n \in Nat, NEW m \in Nat,
         Rounds(f, stock, recipes, n), Rounds(g, stock, recipes, m), n <= m
  PROVE  \A k \in 0 .. n : f[k] = g[k]
<1> DEFINE T == {k \in Nat : k \in 0 .. n => f[k] = g[k]}
<1>0. /\ \A k \in 0 .. n : f[k] = IF k = 0 THEN stock ELSE MakesOf(f[k - 1], recipes)
      /\ \A k \in 0 .. m : g[k] = IF k = 0 THEN stock ELSE MakesOf(g[k - 1], recipes)
  BY DEF Rounds
<1>1. 0 \in T BY <1>0
<1>2. ASSUME NEW k \in Nat, k \in T PROVE k + 1 \in T
  <2> SUFFICES ASSUME k + 1 \in 0 .. n PROVE f[k + 1] = g[k + 1] OBVIOUS
  <2>1. k \in 0 .. n /\ (k + 1) - 1 = k /\ k + 1 # 0 /\ k + 1 \in 0 .. m OBVIOUS
  <2>2. f[k] = g[k] BY <1>2, <2>1
  <2> QED BY <1>0, <2>1, <2>2
<1> HIDE DEF T
<1>3. Nat \subseteq T BY <1>1, <1>2, AllNumbers
<1> QED BY <1>3 DEF T

\* MadeIn is what its definition says.
LEMMA MadeInRounds ==
  ASSUME NEW stock, NEW recipes
  PROVE  /\ MadeIn(stock, recipes)[0] = stock
         /\ \A n \in Nat : MadeIn(stock, recipes)[n + 1]
                             = MakesOf(MadeIn(stock, recipes)[n], recipes)
<1> DEFINE R(n) == CHOOSE made : Rounds(made, stock, recipes, n)
           f == [n \in Nat |-> R(n)[n]]
<1>1. \A n \in Nat : Rounds(R(n), stock, recipes, n) BY RoundsExist
<1> HIDE DEF R
<1>2. ASSUME NEW n \in Nat
      PROVE  f[n] = IF n = 0 THEN stock ELSE MakesOf(f[n - 1], recipes)
  <2>1. R(n)[n] = IF n = 0 THEN stock ELSE MakesOf(R(n)[n - 1], recipes)
    <3>1. Rounds(R(n), stock, recipes, n) BY <1>1
    <3> QED BY <3>1 DEF Rounds
  <2>2. CASE n = 0 BY <2>1, <2>2
  <2>3. CASE n # 0
    <3>1. n - 1 \in Nat /\ n - 1 <= n /\ n - 1 \in 0 .. n - 1 BY <2>3
    <3>2. Rounds(R(n - 1), stock, recipes, n - 1) /\ Rounds(R(n), stock, recipes, n)
      BY <1>1, <3>1
    <3>3. R(n - 1)[n - 1] = R(n)[n - 1] BY <3>1, <3>2, RoundsAgree
    <3> QED BY <2>1, <2>3, <3>1, <3>3
  <2> QED BY <2>2, <2>3
<1>3. f = [n \in Nat |-> IF n = 0 THEN stock ELSE MakesOf(f[n - 1], recipes)]
  <2> HIDE DEF f
  <2>1. f = [n \in Nat |-> f[n]] BY DEF f
  <2> QED BY <1>2, <2>1
<1> DEFINE h == MadeIn(stock, recipes)
<1>4. h = [n \in Nat |-> IF n = 0 THEN stock ELSE MakesOf(h[n - 1], recipes)]
  BY <1>3 DEF MadeIn
<1> HIDE DEF h
<1>5. h[0] = stock BY <1>4
<1>6. ASSUME NEW n \in Nat PROVE h[n + 1] = MakesOf(h[n], recipes)
  <2>1. n + 1 \in Nat /\ n + 1 # 0 /\ (n + 1) - 1 = n OBVIOUS
  <2> QED BY <1>4, <2>1
<1> QED BY <1>5, <1>6 DEF h

\* What is made of a stock holds it.
LEMMA MadeHolds ==
  ASSUME NEW stock, NEW recipes, IsFiniteSet(recipes)
  PROVE  stock \subseteq Made(stock, recipes)
<1> DEFINE m == MadeIn(stock, recipes)
           T == {k \in Nat : stock \subseteq m[k]}
<1>1. m[0] = stock /\ \A n \in Nat : m[n + 1] = MakesOf(m[n], recipes)
  BY MadeInRounds
<1> HIDE DEF m
<1>2. 0 \in T BY <1>1
<1>3. ASSUME NEW n \in Nat, n \in T PROVE n + 1 \in T
  BY <1>1, <1>3 DEF MakesOf
<1> HIDE DEF T
<1>4. Nat \subseteq T BY <1>2, <1>3, AllNumbers
<1>5. Cardinality(recipes) \in Nat BY FS_CardinalityType
<1> QED BY <1>4, <1>5 DEF T, m, Made

\* It is in every set that holds the stock and is closed under the recipes.
LEMMA MadeLeast ==
  ASSUME NEW stock, NEW recipes, IsFiniteSet(recipes), NEW S, stock \subseteq S,
         \A r \in recipes : ToSet(r.items) \subseteq S => r.result \in S
  PROVE  Made(stock, recipes) \subseteq S
<1> DEFINE m == MadeIn(stock, recipes)
           T == {k \in Nat : m[k] \subseteq S}
<1>1. m[0] = stock /\ \A n \in Nat : m[n + 1] = MakesOf(m[n], recipes)
  BY MadeInRounds
<1> HIDE DEF m
<1>2. 0 \in T BY <1>1
<1>3. ASSUME NEW n \in Nat, n \in T PROVE n + 1 \in T
  <2>1. \A r \in recipes : ToSet(r.items) \subseteq m[n] => r.result \in S BY <1>3
  <2> QED BY <1>1, <1>3, <2>1 DEF MakesOf
<1> HIDE DEF T
<1>4. Nat \subseteq T BY <1>2, <1>3, AllNumbers
<1>5. Cardinality(recipes) \in Nat BY FS_CardinalityType
<1> QED BY <1>4, <1>5 DEF T, m, Made

\* And it is closed under the recipes: as long as something was added, one more
\* recipe can be used, so as many rounds as there are recipes are enough.
LEMMA MadeClosed ==
  ASSUME NEW stock, NEW recipes, IsFiniteSet(recipes), NEW r \in recipes,
         ToSet(r.items) \subseteq Made(stock, recipes)
  PROVE  r.result \in Made(stock, recipes)
<1> DEFINE m == MadeIn(stock, recipes)
           U(k) == {q \in recipes : ToSet(q.items) \subseteq m[k]}
           Done(k) == \A q \in U(k) : q.result \in m[k]
           T == {k \in Nat : Done(k) \/ Cardinality(U(k)) >= k + 1}
<1>1. m[0] = stock /\ \A n \in Nat : m[n + 1] = MakesOf(m[n], recipes)
  BY MadeInRounds
<1> HIDE DEF m
<1>2. \A n \in Nat : m[n + 1] = m[n] \union {q.result : q \in U(n)}
  BY <1>1 DEF MakesOf
<1>3. \A n \in Nat : IsFiniteSet(U(n)) /\ Cardinality(U(n)) \in Nat
                     /\ Cardinality(U(n)) <= Cardinality(recipes)
  <2> SUFFICES ASSUME NEW n \in Nat
               PROVE  IsFiniteSet(U(n)) /\ Cardinality(U(n)) \in Nat
                      /\ Cardinality(U(n)) <= Cardinality(recipes)
    OBVIOUS
  <2>1. U(n) \in SUBSET recipes OBVIOUS
  <2> HIDE DEF U
  <2> QED BY <2>1, FS_Subset, FS_CardinalityType
<1>4. 0 \in T
  <2>1. CASE U(0) = {} BY <2>1
  <2>2. CASE U(0) # {}
    <3>1. IsFiniteSet(U(0)) /\ Cardinality(U(0)) \in Nat BY <1>3
    <3> HIDE DEF U
    <3>2. Cardinality(U(0)) # 0 BY <2>2, <3>1, FS_EmptySet
    <3> QED BY <3>1, <3>2
  <2> QED BY <2>1, <2>2
<1>5. ASSUME NEW n \in Nat, n \in T PROVE n + 1 \in T
  <2>1. m[n] \subseteq m[n + 1] /\ U(n) \subseteq U(n + 1) BY <1>2
  <2>2. CASE Done(n)
    <3>1. {q.result : q \in U(n)} \subseteq m[n] BY <2>2
    <3>2. m[n + 1] = m[n]
      <4> HIDE DEF U
      <4> QED BY <1>2, <3>1
    <3> QED BY <2>2, <3>2
  <2>3. CASE ~Done(n) /\ U(n + 1) = U(n)
    <3>1. Done(n + 1) BY <1>2, <2>3
    <3> QED BY <3>1
  <2>4. CASE ~Done(n) /\ U(n + 1) # U(n)
    <3>1. Cardinality(U(n)) >= n + 1 BY <1>5, <2>4
    <3>2. /\ IsFiniteSet(U(n)) /\ IsFiniteSet(U(n + 1))
          /\ Cardinality(U(n)) \in Nat /\ Cardinality(U(n + 1)) \in Nat
      BY <1>3
    <3>3. U(n) # U(n + 1) BY <2>4
    <3>4. Cardinality(U(n)) <= Cardinality(U(n + 1))
          /\ Cardinality(U(n)) # Cardinality(U(n + 1))
      <4> HIDE DEF U
      <4>1. U(n) \in SUBSET U(n + 1) BY <2>1
      <4> QED BY <3>2, <3>3, <4>1, FS_Subset
    <3>5. Cardinality(U(n + 1)) >= n + 2
      <4> HIDE DEF U
      <4> QED BY <3>1, <3>2, <3>4
    <3>6. Cardinality(U(n + 1)) >= (n + 1) + 1 /\ n + 1 \in Nat
      <4> HIDE DEF U
      <4> QED BY <3>2, <3>5
    <3> QED BY <3>6
  <2> QED BY <2>2, <2>3, <2>4
<1> HIDE DEF T
<1>6. Nat \subseteq T BY <1>4, <1>5, AllNumbers
<1> DEFINE n == Cardinality(recipes)
<1>7. n \in Nat BY FS_CardinalityType
<1> HIDE DEF n
<1>8. Done(n)
  <2>1. Done(n) \/ Cardinality(U(n)) >= n + 1 BY <1>6, <1>7 DEF T
  <2>2. Cardinality(U(n)) \in Nat /\ Cardinality(U(n)) <= n
    BY <1>3, <1>7 DEF n
  <2> HIDE DEF U, Done
  <2> QED BY <1>7, <2>1, <2>2
<1>9. Made(stock, recipes) = m[n] BY DEF Made, m, n
<1> QED BY <1>8, <1>9

-----------------------------------------------------------------------------
(* Sequences one after the other.                                          *)

\* An item is its content.
Items == Seq(Int)

\* Where the blocks of a concatenation are.
LEMMA Concatenated ==
  ASSUME NEW s \in Items, NEW t \in Items
  PROVE  /\ Len(s) \in Nat /\ Len(t) \in Nat
         /\ Len(s \o t) = Len(s) + Len(t)
         /\ \A p \in 1 .. Len(s) : (s \o t)[p] = s[p]
         /\ \A p \in 1 .. Len(t) : (s \o t)[Len(s) + p] = t[p]
<1>1. /\ Len(s) \in Nat /\ Len(t) \in Nat
      /\ Len(s \o t) = Len(s) + Len(t)
      /\ \A p \in 1 .. Len(s) + Len(t) :
            (s \o t)[p] = IF p <= Len(s) THEN s[p] ELSE t[p - Len(s)]
  BY ConcatProperties, LenProperties DEF Items
<1>2. \A p \in 1 .. Len(s) : p \in 1 .. Len(s) + Len(t) /\ p <= Len(s) BY <1>1
<1>3. \A p \in 1 .. Len(t) : /\ Len(s) + p \in 1 .. Len(s) + Len(t)
                             /\ ~(Len(s) + p <= Len(s))
                             /\ (Len(s) + p) - Len(s) = p
  BY <1>1
<1> QED BY <1>1, <1>2, <1>3

\* The blocks of a part of an item.
LEMMA Within ==
  ASSUME NEW w \in Items, NEW a \in Nat, NEW b \in Nat, a + b <= Len(w)
  PROVE  /\ SubSeq(w, a + 1, a + b) \in Items
         /\ Len(SubSeq(w, a + 1, a + b)) = b
         /\ \A p \in 1 .. b : SubSeq(w, a + 1, a + b)[p] = w[a + p]
<1>1. Len(w) \in Nat BY DEF Items
<1>2. \A k \in a + 1 .. a + b : w[k] \in Int
  <2>1. \A k \in a + 1 .. a + b : k \in 1 .. Len(w) BY <1>1
  <2> QED BY <2>1 DEF Items
<1> DEFINE m == a + 1
           n == a + b
<1>3. m \in Int /\ n \in Int /\ n - m + 1 = b /\ (m <= n <=> b > 0) OBVIOUS
<1>4. \A k \in m .. n : w[k] \in Int BY <1>2
<1>5. \A p \in 1 .. b : m + p - 1 = a + p OBVIOUS
<1> HIDE DEF m, n
<1>6. /\ SubSeq(w, m, n) \in Seq(Int)
      /\ Len(SubSeq(w, m, n)) = IF m <= n THEN n - m + 1 ELSE 0
      /\ \A p \in 1 .. n - m + 1 : SubSeq(w, m, n)[p] = w[m + p - 1]
  BY <1>3, <1>4, SubSeqProperties
<1>7. Len(SubSeq(w, m, n)) = b BY <1>3, <1>6
<1>8. \A p \in 1 .. b : SubSeq(w, m, n)[p] = w[a + p] BY <1>3, <1>5, <1>6
<1> QED BY <1>6, <1>7, <1>8 DEF m, n, Items

\* The first k of them together, for every k.
Joined(f, list) ==
    /\ f[0] = <<>>
    /\ \A k \in 1 .. Len(list) : f[k] = f[k - 1] \o list[k]

\* A list of items can be joined one after the other.
LEMMA JoinedExists ==
  ASSUME NEW list \in Seq(Items)
  PROVE  \A n \in 0 .. Len(list) :
            \E f \in [0 .. n -> Items] :
               /\ f[0] = <<>>
               /\ \A k \in 1 .. n : f[k] = f[k - 1] \o list[k]
<1> DEFINE Good(f, n) == /\ f \in [0 .. n -> Items] /\ f[0] = <<>>
                         /\ \A k \in 1 .. n : f[k] = f[k - 1] \o list[k]
           T == {n \in Nat : n <= Len(list) => \E f : Good(f, n)}
<1>1. 0 \in T
  <2> DEFINE f == [k \in 0 .. 0 |-> <<>>]
  <2>1. f \in [0 .. 0 -> Items] /\ f[0] = <<>> BY DEF Items
  <2>2. Good(f, 0) BY <2>1
  <2> QED BY <2>2
<1>2. ASSUME NEW n \in Nat, n \in T PROVE n + 1 \in T
  <2> HIDE DEF Good
  <2> SUFFICES ASSUME n + 1 <= Len(list) PROVE \E f : Good(f, n + 1) OBVIOUS
  <2>0. Len(list) \in Nat OBVIOUS
  <2>1. PICK f : Good(f, n) BY <1>2, <2>0
  <2> USE DEF Good
  <2>2. list[n + 1] \in Items /\ f[n] \in Items BY <2>0, <2>1
  <2> DEFINE g == [k \in 0 .. n + 1 |->
                      IF k = n + 1 THEN f[n] \o list[n + 1] ELSE f[k]]
  <2>3. f[n] \o list[n + 1] \in Items BY <2>2 DEF Items
  <2>4. g \in [0 .. n + 1 -> Items] BY <2>1, <2>3
  <2>5. g[0] = <<>> BY <2>1
  <2>6. ASSUME NEW k \in 1 .. n + 1 PROVE g[k] = g[k - 1] \o list[k]
    <3>1. CASE k = n + 1
      <4>1. k - 1 = n /\ n \in 0 .. n + 1 /\ n # n + 1 BY <3>1
      <4>2. g[k - 1] = f[n] BY <4>1
      <4> QED BY <3>1, <4>2
    <3>2. CASE k # n + 1
      <4>1. k \in 1 .. n /\ k - 1 \in 0 .. n + 1 /\ k - 1 # n + 1 BY <3>2
      <4>2. g[k] = f[k] /\ g[k - 1] = f[k - 1] BY <3>2, <4>1
      <4> QED BY <2>1, <4>1, <4>2
    <3> QED BY <3>1, <3>2
  <2> HIDE DEF g
  <2>7. Good(g, n + 1) BY <2>4, <2>5, <2>6
  <2> QED BY <2>7
<1> HIDE DEF T
<1>3. Nat \subseteq T BY <1>1, <1>2, AllNumbers
<1> SUFFICES ASSUME NEW n \in 0 .. Len(list) PROVE \E f : Good(f, n) OBVIOUS
<1>4. n \in Nat /\ n <= Len(list) OBVIOUS
<1> QED BY <1>3, <1>4 DEF T

\* FlattenSeq joins all of them.
LEMMA FlattenIsJoined ==
  ASSUME NEW list \in Seq(Items), NEW f \in [0 .. Len(list) -> Items], Joined(f, list)
  PROVE  FlattenSeq(list) = f[Len(list)]
<1> DEFINE n == Len(list)
           Flat(g) == g = [i \in 1 .. n |->
                              IF i = 1 THEN list[i] ELSE g[i - 1] \o list[i]]
<1>0. n \in Nat OBVIOUS
<1> HIDE DEF n
<1>1. CASE n = 0
  <2>1. list = <<>> BY <1>1, EmptySeq DEF n
  <2> QED BY <1>1, <2>1 DEF FlattenSeq, Joined, n
<1>2. CASE n # 0
  <2> DEFINE h == [i \in 1 .. n |-> f[i]]
             flatten == CHOOSE g : Flat(g)
  <2>1. ASSUME NEW i \in 1 .. n
        PROVE  h[i] = IF i = 1 THEN list[i] ELSE h[i - 1] \o list[i]
    <3>1. f[i] = f[i - 1] \o list[i] BY DEF Joined, n
    <3>2. CASE i = 1
      <4>1. list[1] \in Items BY <1>0, <3>2 DEF n
      <4>2. f[0] = <<>> BY DEF Joined
      <4>3. <<>> \o list[1] = list[1] BY <4>1, ConcatEmptySeq DEF Items
      <4>4. f[1] = f[0] \o list[1]
        <5>1. 1 \in 1 .. Len(list) /\ 1 - 1 = 0 BY <1>0, <3>2 DEF n
        <5>2. f[1] = f[1 - 1] \o list[1] BY <5>1 DEF Joined
        <5> QED BY <5>1, <5>2
      <4>5. f[1] = list[1]
        <5> HIDE DEF h
        <5> QED BY <4>2, <4>3, <4>4
      <4> QED BY <3>2, <4>5
    <3>3. CASE i # 1
      <4>1. i - 1 \in 1 .. n BY <1>0, <3>3
      <4> QED BY <3>1, <3>3, <4>1
    <3> QED BY <3>2, <3>3
  <2>2. Flat(h)
    <3>1. h = [i \in 1 .. n |-> h[i]] OBVIOUS
    <3> HIDE DEF h
    <3> QED BY <2>1, <3>1
  <2>3. Flat(flatten)
    <3> HIDE DEF h
    <3> QED BY <2>2
  <2>4. FlattenSeq(list) = flatten[n] BY <1>2 DEF FlattenSeq, n
  <2> HIDE DEF flatten
  <2>5. \A i \in 1 .. n : flatten[i] = IF i = 1 THEN list[i] ELSE flatten[i - 1] \o list[i]
    BY <2>3
  <2> DEFINE T == {k \in Nat : k \in 1 .. n => flatten[k] = h[k]}
  <2> HIDE DEF h
  <2>6. 0 \in T OBVIOUS
  <2>7. ASSUME NEW k \in Nat, k \in T PROVE k + 1 \in T
    <3> SUFFICES ASSUME k + 1 \in 1 .. n PROVE flatten[k + 1] = h[k + 1] OBVIOUS
    <3>1. CASE k = 0 BY <2>1, <2>5, <3>1
    <3>2. CASE k # 0
      <4>1. k \in 1 .. n /\ (k + 1) - 1 = k /\ k + 1 # 1 BY <1>0, <3>2
      <4>2. flatten[k] = h[k] BY <2>7, <4>1
      <4> QED BY <2>1, <2>5, <4>1, <4>2
    <3> QED BY <3>1, <3>2
  <2> HIDE DEF T
  <2>8. Nat \subseteq T BY <2>6, <2>7, AllNumbers
  <2>9. flatten[n] = h[n] BY <1>0, <1>2, <2>8 DEF T
  <2>10. h[n] = f[n] BY <1>0, <1>2 DEF h
  <2> QED BY <2>4, <2>9, <2>10 DEF n
<1> QED BY <1>1, <1>2

\* The first k of them, likewise.
LEMMA PrefixIsJoined ==
  ASSUME NEW list \in Seq(Items), NEW f \in [0 .. Len(list) -> Items],
         Joined(f, list), NEW k \in 0 .. Len(list)
  PROVE  FlattenSeq(SubSeq(list, 1, k)) = f[k]
<1> DEFINE first == SubSeq(list, 1, k)
           g == [i \in 0 .. k |-> f[i]]
<1>0. Len(list) \in Nat /\ k \in Nat /\ k <= Len(list) OBVIOUS
<1>1. /\ first \in Seq(Items) /\ Len(first) = k
      /\ \A i \in 1 .. k : first[i] = list[i]
  BY <1>0, SubSeqProperties
<1>2. g \in [0 .. Len(first) -> Items] BY <1>0, <1>1
<1>3. Joined(g, first)
  <2>1. g[0] = <<>> BY <1>0 DEF Joined
  <2>2. ASSUME NEW i \in 1 .. k PROVE g[i] = g[i - 1] \o first[i]
    <3>1. /\ i \in 1 .. Len(list) /\ i \in 0 .. k /\ i - 1 \in 0 .. k BY <1>0
    <3>2. f[i] = f[i - 1] \o list[i] BY <3>1 DEF Joined
    <3> QED BY <1>1, <3>1, <3>2
  <2> HIDE DEF g
  <2> QED BY <1>1, <2>1, <2>2 DEF Joined
<1> HIDE DEF g, first
<1>4. FlattenSeq(first) = g[Len(first)] BY <1>1, <1>2, <1>3, FlattenIsJoined
<1> QED BY <1>0, <1>1, <1>4 DEF g, first

\* A prefix of a sequence is one of what begins with that sequence.
LEMMA PrefixExtends ==
  ASSUME NEW a \in Items, NEW s \in Items, NEW t \in Items, NEW u, u = s \o t,
         Len(a) <= Len(s), \A p \in 1 .. Len(a) : s[p] = a[p]
  PROVE  Len(a) <= Len(u) /\ \A p \in 1 .. Len(a) : u[p] = a[p]
<1>1. /\ Len(a) \in Nat /\ Len(s) \in Nat /\ Len(t) \in Nat
      /\ Len(u) = Len(s) + Len(t)
      /\ \A p \in 1 .. Len(s) : u[p] = s[p]
  BY Concatenated DEF Items
<1>2. \A p \in 1 .. Len(a) : p \in 1 .. Len(s) BY <1>1
<1>3. Len(a) <= Len(u) BY <1>1
<1> QED BY <1>1, <1>2, <1>3

\* Where each of them lies in the whole.
LEMMA JoinedPrefix ==
  ASSUME NEW list \in Seq(Items), NEW f \in [0 .. Len(list) -> Items],
         Joined(f, list), NEW i \in 0 .. Len(list)
  PROVE  \A j \in i .. Len(list) :
            /\ Len(f[i]) <= Len(f[j])
            /\ \A p \in 1 .. Len(f[i]) : f[j][p] = f[i][p]
<1> DEFINE P(j) == /\ Len(f[i]) <= Len(f[j])
                   /\ \A p \in 1 .. Len(f[i]) : f[j][p] = f[i][p]
           T == {j \in Nat : j \in i .. Len(list) => P(j)}
<1>0. /\ Len(list) \in Nat /\ i \in Nat /\ f[i] \in Items /\ Len(f[i]) \in Nat
  BY DEF Items
<1>1. 0 \in T BY <1>0
<1>2. ASSUME NEW j \in Nat, j \in T PROVE j + 1 \in T
  <2> SUFFICES ASSUME j + 1 \in i .. Len(list) PROVE P(j + 1) OBVIOUS
  <2>1. CASE j + 1 = i BY <1>0, <2>1
  <2>2. CASE j + 1 # i
    <3>1. j \in i .. Len(list) /\ j + 1 \in 1 .. Len(list) /\ (j + 1) - 1 = j
      BY <1>0, <2>2
    <3>2. P(j) BY <1>2, <3>1
    <3>3. f[j] \in Items /\ list[j + 1] \in Items BY <1>0, <3>1
    <3>4. f[j + 1] = f[j] \o list[j + 1] BY <3>1 DEF Joined
    <3> DEFINE a == f[i]
               s == f[j]
               t == list[j + 1]
               u == f[j + 1]
    <3>5. /\ a \in Items /\ s \in Items /\ t \in Items /\ u = s \o t
          /\ Len(a) <= Len(s) /\ \A p \in 1 .. Len(a) : s[p] = a[p]
      BY <1>0, <3>2, <3>3, <3>4
    <3> HIDE DEF a, s, t, u
    <3>6. Len(a) <= Len(u) /\ \A p \in 1 .. Len(a) : u[p] = a[p]
      BY <3>5, PrefixExtends
    <3> QED BY <3>6 DEF a, u
  <2> QED BY <2>1, <2>2
<1> HIDE DEF T
<1>3. Nat \subseteq T BY <1>1, <1>2, AllNumbers
<1> SUFFICES ASSUME NEW j \in i .. Len(list) PROVE P(j) OBVIOUS
<1>4. j \in Nat BY <1>0
<1> QED BY <1>3, <1>4 DEF T

\* An item is found in the whole at the length of those before it.
LEMMA FlattenHolds ==
  ASSUME NEW list \in Seq(Items), NEW i \in 1 .. Len(list)
  PROVE  LET offset == Len(FlattenSeq(SubSeq(list, 1, i - 1)))
             whole == FlattenSeq(list)
         IN /\ whole \in Items /\ offset \in Nat
            /\ offset + Len(list[i]) <= Len(whole)
            /\ SubSeq(whole, offset + 1, offset + Len(list[i])) = list[i]
<1> DEFINE n == Len(list)
           whole == FlattenSeq(list)
<1>0. n \in Nat /\ i - 1 \in 0 .. n /\ i \in 0 .. n /\ n \in i .. n /\ n \in 0 .. n
      /\ list[i] \in Items
  OBVIOUS
<1>1. PICK f \in [0 .. n -> Items] : Joined(f, list)
  BY <1>0, JoinedExists DEF Joined
<1>2. whole = f[n] /\ FlattenSeq(SubSeq(list, 1, i - 1)) = f[i - 1]
  BY <1>0, <1>1, FlattenIsJoined, PrefixIsJoined
<1>3. f[i] = f[i - 1] \o list[i] BY <1>1 DEF Joined
<1> HIDE DEF n, whole
<1> DEFINE b == f[i - 1]
           x == list[i]
<1>4. b \in Items /\ f[i] \in Items /\ f[n] \in Items /\ x \in Items
  BY <1>0, <1>1
<1>5. /\ f[i] = b \o x BY <1>3
<1> HIDE DEF b, x
<1>6. /\ Len(b) \in Nat /\ Len(x) \in Nat /\ Len(f[n]) \in Nat
      /\ Len(f[i]) = Len(b) + Len(x)
      /\ \A p \in 1 .. Len(x) : f[i][Len(b) + p] = x[p]
  BY <1>4, <1>5, Concatenated DEF Items
<1>7. /\ Len(f[i]) <= Len(f[n])
      /\ \A p \in 1 .. Len(f[i]) : f[n][p] = f[i][p]
  BY <1>0, <1>1, JoinedPrefix DEF n
<1>8. SubSeq(f[n], Len(b) + 1, Len(b) + Len(x)) = x
  <2> DEFINE y == SubSeq(f[n], Len(b) + 1, Len(b) + Len(x))
  <2>1. /\ y \in Seq(Int) /\ Len(y) = Len(x)
        /\ \A p \in 1 .. Len(x) : y[p] = f[n][Len(b) + p]
    BY <1>4, <1>6, <1>7, Within DEF Items
  <2>2. \A p \in 1 .. Len(x) : y[p] = x[p]
    <3> SUFFICES ASSUME NEW p \in 1 .. Len(x) PROVE y[p] = x[p] OBVIOUS
    <3>1. Len(b) + p \in 1 .. Len(f[i]) BY <1>6
    <3>2. f[n][Len(b) + p] = f[i][Len(b) + p] BY <1>7, <3>1
    <3> HIDE DEF y
    <3> QED BY <1>6, <2>1, <3>2
  <2> HIDE DEF y
  <2>3. y = x BY <1>4, <2>1, <2>2, SeqEqual DEF Items
  <2> QED BY <2>3 DEF y
<1>9. Len(b) + Len(x) <= Len(f[n]) BY <1>6, <1>7
<1> QED BY <1>2, <1>4, <1>6, <1>8, <1>9 DEF b, x, whole

\* Of several items that are not empty none is the whole.
LEMMA WholeIsLonger ==
  ASSUME NEW list \in Seq(Items), Len(list) > 1,
         \A i \in 1 .. Len(list) : list[i] # <<>>, NEW i \in 1 .. Len(list)
  PROVE  list[i] # FlattenSeq(list)
<1>0. Len(list) \in Nat /\ \A k \in 1 .. Len(list) : list[k] \in Items OBVIOUS
<1>1. \A k \in 1 .. Len(list) : Len(list[k]) \in Nat /\ Len(list[k]) > 0
  <2> SUFFICES ASSUME NEW k \in 1 .. Len(list)
               PROVE  Len(list[k]) \in Nat /\ Len(list[k]) > 0
    OBVIOUS
  <2>1. list[k] \in Seq(Int) /\ list[k] # <<>> BY <1>0 DEF Items
  <2> QED BY <2>1, EmptySeq
<1> DEFINE n == Len(list)
<1>2. PICK f \in [0 .. n -> Items] : Joined(f, list)
  <2>1. n \in 0 .. n BY <1>0
  <2> QED BY <2>1, JoinedExists DEF Joined
<1>3. FlattenSeq(list) = f[n] BY <1>2, FlattenIsJoined
\* Each item makes the whole longer.
<1>4. ASSUME NEW k \in 1 .. n
      PROVE  /\ Len(f[k - 1]) \in Nat /\ Len(f[k]) \in Nat
             /\ Len(f[k]) = Len(f[k - 1]) + Len(list[k])
  <2>1. k - 1 \in 0 .. n /\ k \in 0 .. n BY <1>0
  <2> DEFINE s == f[k - 1]
             t == list[k]
             u == f[k]
  <2>2. s \in Items /\ t \in Items /\ u \in Items /\ u = s \o t
    BY <1>0, <1>2, <2>1 DEF Joined
  <2> HIDE DEF s, t, u
  <2>3. Len(s) \in Nat /\ Len(u) \in Nat /\ Len(u) = Len(s) + Len(t)
    BY <2>2, Concatenated DEF Items
  <2> QED BY <2>3 DEF s, t, u
<1>5. \A a \in 0 .. n : \A b \in a .. n :
        Len(f[a]) \in Nat /\ Len(f[b]) \in Nat /\ Len(f[a]) <= Len(f[b])
  <2> SUFFICES ASSUME NEW a \in 0 .. n, NEW b \in a .. n
               PROVE  Len(f[a]) \in Nat /\ Len(f[b]) \in Nat /\ Len(f[a]) <= Len(f[b])
    OBVIOUS
  <2>1. b \in 0 .. n BY <1>0
  <2>2. f[a] \in Items /\ f[b] \in Items BY <1>2, <2>1
  <2>3. Len(f[a]) \in Nat /\ Len(f[b]) \in Nat
    <3> DEFINE s == f[a]
               t == f[b]
    <3>1. s \in Seq(Int) /\ t \in Seq(Int) BY <2>2 DEF Items
    <3> HIDE DEF s, t
    <3>2. Len(s) \in Nat /\ Len(t) \in Nat BY <3>1
    <3> QED BY <3>2 DEF s, t
  <2>4. Len(f[a]) <= Len(f[b])
    <3>1. \A j \in a .. Len(list) : Len(f[a]) <= Len(f[j]) BY <1>2, JoinedPrefix
    <3> QED BY <3>1
  <2> QED BY <2>3, <2>4
<1> HIDE DEF n
<1>6. n \in Nat /\ n > 1 /\ i \in 1 .. n BY <1>0 DEF n
<1>7. CASE i = n
  <2>1. n - 1 \in 1 .. n /\ 0 \in 0 .. n /\ (n - 1) - 1 \in 0 .. n /\ n - 1 \in 0 .. n
    BY <1>6
  <2>2. Len(f[n]) = Len(f[n - 1]) + Len(list[n]) BY <1>4, <1>6, <1>7
  <2>3. Len(f[n - 1]) = Len(f[(n - 1) - 1]) + Len(list[n - 1])
        /\ Len(f[(n - 1) - 1]) \in Nat
    BY <1>4, <2>1
  <2>4. Len(list[n - 1]) \in Nat /\ Len(list[n - 1]) > 0 /\ Len(list[n]) \in Nat
    BY <1>1, <1>6, <1>7, <2>1 DEF n
  <2>5. Len(f[n]) # Len(list[n])
    <3> DEFINE a == Len(f[n])
               b == Len(f[n - 1])
               c == Len(f[(n - 1) - 1])
               d == Len(list[n - 1])
               e == Len(list[n])
    <3>1. a = b + e /\ b = c + d /\ c \in Nat /\ d \in Nat /\ d > 0 /\ e \in Nat
      BY <2>2, <2>3, <2>4
    <3> HIDE DEF a, b, c, d, e
    <3>2. a # e BY <3>1
    <3> QED BY <3>2 DEF a, e
  <2> QED BY <1>3, <1>7, <2>5
<1>8. CASE i # n
  <2>1. i + 1 \in 1 .. n /\ (i + 1) - 1 = i /\ i + 1 \in 0 .. n /\ n \in i + 1 .. n
    BY <1>6, <1>8
  <2>2. Len(f[i]) = Len(f[i - 1]) + Len(list[i]) /\ Len(f[i - 1]) \in Nat
    BY <1>4, <1>6
  <2>3. Len(f[i + 1]) = Len(f[i]) + Len(list[i + 1]) BY <1>4, <2>1
  <2>4. Len(f[i + 1]) <= Len(f[n]) /\ Len(f[n]) \in Nat BY <1>5, <2>1
  <2>5. Len(list[i]) \in Nat /\ Len(list[i + 1]) \in Nat /\ Len(list[i + 1]) > 0
    BY <1>1, <1>6, <2>1 DEF n
  <2>6. Len(f[n]) # Len(list[i])
    <3> DEFINE a == Len(f[i - 1])
               b == Len(f[i])
               c == Len(f[i + 1])
               d == Len(f[n])
               e == Len(list[i])
               g == Len(list[i + 1])
    <3>1. /\ b = a + e /\ c = b + g /\ c <= d
          /\ a \in Nat /\ e \in Nat /\ g \in Nat /\ g > 0 /\ d \in Nat
      BY <2>2, <2>3, <2>4, <2>5
    <3> HIDE DEF a, b, c, d, e, g
    <3>2. d # e BY <3>1
    <3> QED BY <3>2 DEF d, e
  <2> QED BY <1>3, <2>6
<1> QED BY <1>7, <1>8

\* One item alone is the whole.
LEMMA FlattenOne ==
  ASSUME NEW list \in Seq(Items), Len(list) = 1
  PROVE  FlattenSeq(list) = list[1]
<1>1. 1 \in 0 .. Len(list) /\ 1 \in 1 .. Len(list) /\ 1 - 1 = 0 /\ list[1] \in Items
  OBVIOUS
<1>2. PICK f \in [0 .. Len(list) -> Items] : Joined(f, list)
  <2>1. Len(list) \in 0 .. Len(list) BY <1>1
  <2> QED BY <2>1, JoinedExists DEF Joined
<1>3. FlattenSeq(list) = f[1] BY <1>2, FlattenIsJoined
<1>4. f[1] = f[0] \o list[1] /\ f[0] = <<>>
  <2>1. f[1] = f[1 - 1] \o list[1] BY <1>1, <1>2 DEF Joined
  <2> QED BY <1>1, <1>2, <2>1 DEF Joined
<1>5. <<>> \o list[1] = list[1] BY <1>1, ConcatEmptySeq DEF Items
<1> QED BY <1>3, <1>4, <1>5

-----------------------------------------------------------------------------
(* Sorting.                                                                *)

\* Finite sets of items.
ItemSets == {S \in SUBSET Items : IsFiniteSet(S)}

\* A length is a natural number.
LEMMA Lengths == \A x \in Items : Len(x) \in Nat
BY DEF Items

\* Taking an item away.
LEMMA OneLess ==
  ASSUME NEW S \in ItemSets, NEW n \in Nat, Cardinality(S) = n + 1
  PROVE  \E x \in S : S \ {x} \in ItemSets /\ Cardinality(S \ {x}) = n
<1>1. IsFiniteSet(S) BY DEF ItemSets
<1>2. S # {} BY <1>1, FS_EmptySet
<1>3. PICK x \in S : TRUE BY <1>2
<1>4. IsFiniteSet(S \ {x}) /\ Cardinality(S \ {x}) = Cardinality(S) - 1
  BY <1>1, <1>3, FS_RemoveElement
<1>5. Cardinality(S \ {x}) = n BY <1>4
<1> QED BY <1>3, <1>4, <1>5 DEF ItemSets

\* Of a finite set of items one is the longest.
LEMMA Longest ==
  ASSUME NEW S \in ItemSets, S # {}
  PROVE  \E x \in S : \A y \in S : Len(y) <= Len(x)
<1> DEFINE T == {n \in Nat : \A U \in ItemSets : Cardinality(U) = n /\ U # {} =>
                                \E x \in U : \A y \in U : Len(y) <= Len(x)}
<1>1. 0 \in T
  <2> SUFFICES ASSUME NEW U \in ItemSets, Cardinality(U) = 0, U # {} PROVE FALSE
    OBVIOUS
  <2>1. IsFiniteSet(U) BY DEF ItemSets
  <2> QED BY <2>1, FS_EmptySet
<1>2. ASSUME NEW n \in Nat, n \in T PROVE n + 1 \in T
  <2> SUFFICES ASSUME NEW U \in ItemSets, Cardinality(U) = n + 1
               PROVE  \E x \in U : \A y \in U : Len(y) <= Len(x)
    OBVIOUS
  <2>1. PICK z \in U : U \ {z} \in ItemSets /\ Cardinality(U \ {z}) = n BY OneLess
  <2>2. \A x \in U : Len(x) \in Nat BY Lengths DEF ItemSets
  <2>3. CASE U \ {z} = {}
    <3>1. \A y \in U : y = z BY <2>3
    <3> QED BY <2>2, <3>1
  <2>4. CASE U \ {z} # {}
    <3>1. PICK m \in U \ {z} : \A y \in U \ {z} : Len(y) <= Len(m) BY <1>2, <2>1, <2>4
    <3>2. CASE Len(m) <= Len(z)
      <4>1. \A y \in U : Len(y) <= Len(z)
        <5> SUFFICES ASSUME NEW y \in U PROVE Len(y) <= Len(z) OBVIOUS
        <5>1. /\ Len(y) \in Nat /\ Len(z) \in Nat /\ Len(m) \in Nat
              /\ y = z \/ Len(y) <= Len(m)
          BY <2>2, <3>1
        <5> QED BY <3>2, <5>1
      <4> QED BY <4>1
    <3>3. CASE ~(Len(m) <= Len(z))
      <4>1. Len(z) \in Nat /\ Len(m) \in Nat BY <2>2, <3>1
      <4>2. Len(z) <= Len(m) BY <3>3, <4>1
      <4> QED BY <3>1, <4>2
    <3> QED BY <3>2, <3>3
  <2> QED BY <2>3, <2>4
<1> HIDE DEF T
<1>3. Nat \subseteq T BY <1>1, <1>2, AllNumbers
<1>4. IsFiniteSet(S) /\ Cardinality(S) \in Nat BY FS_CardinalityType DEF ItemSets
<1> QED BY <1>3, <1>4 DEF T

\* Every finite set of items can be sorted.
Sorted(list, S) ==
    /\ ToSet(list) = S
    /\ \A i, j \in DOMAIN list : i < j => Len(list[i]) <= Len(list[j])

\* Every finite set of items has a sorted list.
LEMMA SortingExists ==
  ASSUME NEW S \in ItemSets
  PROVE  \E list \in [1 .. Cardinality(S) -> S] : Sorted(list, S)
<1> DEFINE T == {n \in Nat : \A U \in ItemSets : Cardinality(U) = n =>
                                \E list \in [1 .. n -> U] : Sorted(list, U)}
<1>1. 0 \in T
  <2> SUFFICES ASSUME NEW U \in ItemSets, Cardinality(U) = 0
               PROVE  \E list \in [1 .. 0 -> U] : Sorted(list, U)
    OBVIOUS
  <2>1. IsFiniteSet(U) BY DEF ItemSets
  <2>2. U = {} BY <2>1, FS_EmptySet
  <2> DEFINE l == [i \in 1 .. 0 |-> <<>>]
  <2>3. l \in [1 .. 0 -> U] /\ Sorted(l, U) BY <2>2 DEF Sorted, ToSet
  <2> QED BY <2>3
<1>2. ASSUME NEW n \in Nat, n \in T PROVE n + 1 \in T
  <2> SUFFICES ASSUME NEW U \in ItemSets, Cardinality(U) = n + 1
               PROVE  \E list \in [1 .. n + 1 -> U] : Sorted(list, U)
    OBVIOUS
  <2>1. IsFiniteSet(U) /\ U # {} BY FS_EmptySet DEF ItemSets
  <2>2. PICK x \in U : \A y \in U : Len(y) <= Len(x) BY <2>1, Longest
  <2> DEFINE V == U \ {x}
  <2>3. V \in ItemSets /\ Cardinality(V) = n
    <3>1. IsFiniteSet(V) /\ Cardinality(V) = Cardinality(U) - 1
      BY <2>1, <2>2, FS_RemoveElement
    <3> QED BY <3>1 DEF ItemSets
  <2>4. PICK l \in [1 .. n -> V] : Sorted(l, V) BY <1>2, <2>3
  <2> DEFINE g == [i \in 1 .. n + 1 |-> IF i = n + 1 THEN x ELSE l[i]]
  <2>5. \A i \in 1 .. n + 1 : i # n + 1 => i \in 1 .. n OBVIOUS
  <2>6. g \in [1 .. n + 1 -> U] BY <2>2, <2>4, <2>5
  <2>7. ToSet(g) = U
    <3>1. n + 1 \in 1 .. n + 1 /\ \A i \in 1 .. n : i \in 1 .. n + 1 /\ i # n + 1 OBVIOUS
    <3>2. g[n + 1] = x BY <3>1
    <3>3. \A i \in 1 .. n : g[i] = l[i] BY <3>1
    <3>4. \A y \in V : \E i \in 1 .. n : l[i] = y BY <2>4 DEF Sorted, ToSet
    <3>5. DOMAIN g = 1 .. n + 1 OBVIOUS
    <3> HIDE DEF g
    <3>6. \A y \in U : \E i \in 1 .. n + 1 : g[i] = y BY <3>1, <3>2, <3>3, <3>4
    <3> QED BY <2>6, <3>5, <3>6 DEF ToSet
  <2>8. ASSUME NEW i \in 1 .. n + 1, NEW j \in 1 .. n + 1, i < j
        PROVE  Len(g[i]) <= Len(g[j])
    <3>1. i \in 1 .. n /\ i # n + 1 /\ g[i] = l[i] BY <2>5, <2>8
    <3>2. CASE j = n + 1
      <4>1. g[i] \in U /\ g[j] = x BY <2>6, <3>2
      <4> QED BY <2>2, <4>1
    <3>3. CASE j # n + 1
      <4>1. j \in 1 .. n /\ g[j] = l[j] BY <2>5, <3>3
      <4>2. DOMAIN l = 1 .. n BY <2>4
      <4>3. Len(l[i]) <= Len(l[j]) BY <2>4, <2>8, <3>1, <4>1, <4>2 DEF Sorted
      <4> HIDE DEF g
      <4> QED BY <3>1, <4>1, <4>3
    <3> QED BY <3>2, <3>3
  <2>9. DOMAIN g = 1 .. n + 1 OBVIOUS
  <2> HIDE DEF g
  <2>10. Sorted(g, U) BY <2>7, <2>8, <2>9 DEF Sorted
  <2> QED BY <2>6, <2>10
<1> HIDE DEF T
<1>3. Nat \subseteq T BY <1>1, <1>2, AllNumbers
<1>4. IsFiniteSet(S) /\ Cardinality(S) \in Nat BY FS_CardinalityType DEF ItemSets
<1> QED BY <1>3, <1>4 DEF T

\* The sorted items are those of the set.
LEMMA SortedItems ==
  ASSUME NEW S \in ItemSets
  PROVE  /\ ByLength(S) \in Seq(Items)
         /\ Len(ByLength(S)) = Cardinality(S)
         /\ \A i \in 1 .. Len(ByLength(S)) : ByLength(S)[i] \in S
         /\ \A x \in S : \E i \in 1 .. Len(ByLength(S)) : ByLength(S)[i] = x
<1> DEFINE n == Cardinality(S)
           l == ByLength(S)
<1>1. n \in Nat BY FS_CardinalityType DEF ItemSets
<1>2. \E list \in [1 .. n -> S] : Sorted(list, S) BY SortingExists
<1>3. l \in [1 .. n -> S] /\ Sorted(l, S) BY <1>2 DEF Sorted, ByLength
<1> HIDE DEF l, n
<1>4. l \in Seq(Items) /\ Len(l) = n
  <2>1. l \in [1 .. n -> Items] BY <1>3 DEF ItemSets
  <2>2. l \in Seq(Items) BY <1>1, <2>1
  <2>3. DOMAIN l = 1 .. n /\ DOMAIN l = 1 .. Len(l) /\ Len(l) \in Nat BY <2>1, <2>2
  <2> QED BY <1>1, <2>2, <2>3
<1>5. \A x \in S : \E i \in DOMAIN l : l[i] = x BY <1>3 DEF Sorted, ToSet
<1> QED BY <1>3, <1>4, <1>5 DEF l, n

-----------------------------------------------------------------------------
(* The folder.                                                             *)

\* What each variable of the folder is.
Shape ==
    /\ hash = [s \in Sides |-> hash[s]]
    /\ json = [s \in Sides |-> json[s]]
    /\ cookie = [s \in Sides |-> cookie[s]]
    /\ worker = [s \in Sides |-> worker[s]]
    /\ tokens = [s \in Sides |-> tokens[s]]

\* A JSON text that was written is that of the archive that claimed the
\* folder, and a run that got past the claim was given that archive.
SideInv(s) ==
    /\ hash[s] = <<>> => json[s] = <<>>
    /\ json[s] \notin {<<>>, Begun} =>
          /\ json[s] = <<TokensOf[s][hash[s][1]]>>
          /\ ~TokensOf[s][hash[s][1]].thrown
    /\ At(s, "claim") => json[s] = <<>>
    /\ stage = "tokenize" /\ worker[s] \in {"load", "cookie", "close", "supplied", "closed"} =>
          hash[s] = <<archives[s]>>
    /\ Running /\ worker[s] \in {"cookie", "close", "supplied", "closed", "done"} =>
          /\ tokens[s] = TokensOf[s][archives[s]]
          /\ ~TokensOf[s][archives[s]].thrown
    /\ stage \notin {"idle", "tokenize", "done"} => worker[s] = "done"

\* The inductive invariant of the folder and of the tokens.
FolderInv ==
    /\ Shape
    /\ Running => \E pair \in Pairs : archives = ArchivesOf(pair)
    /\ \A s \in Sides : SideInv(s)

\* A step of one side leaves the other as it is.
LEMMA OtherSide ==
  ASSUME FolderInv, NEW s \in Sides, TokenizeArchive(s), NEW u \in Sides, u # s
  PROVE  SideInv(u)'
<1>1. /\ hash' = [hash EXCEPT ![s] = hash'[s]] \/ hash' = hash
      /\ json' = [json EXCEPT ![s] = json'[s]] \/ json' = json
      /\ worker' = [worker EXCEPT ![s] = worker'[s]] \/ worker' = worker
      /\ tokens' = [tokens EXCEPT ![s] = tokens'[s]] \/ tokens' = tokens
      /\ stage' = stage /\ archives' = archives
  BY DEF FolderInv, Shape, TokenizeArchive, Stopped, ClaimFolder, WriteHash,
     FindFolder, LoadPreviousTokens, LoadArchive, CreateCookie, CloseJson,
       SupplyTokens, CloseSupplied, CookieOfSupplied,
     Step, folder, execution
<1>2. hash'[u] = hash[u]
  <2>1. hash = [t \in Sides |-> hash[t]] BY DEF FolderInv, Shape
  <2> QED BY <1>1, <2>1
<1>3. json'[u] = json[u]
  <2>1. json = [t \in Sides |-> json[t]] BY DEF FolderInv, Shape
  <2> QED BY <1>1, <2>1
<1>4. worker'[u] = worker[u]
  <2>1. worker = [t \in Sides |-> worker[t]] BY DEF FolderInv, Shape
  <2> QED BY <1>1, <2>1
<1>5. tokens'[u] = tokens[u]
  <2>1. tokens = [t \in Sides |-> tokens[t]] BY DEF FolderInv, Shape
  <2> QED BY <1>1, <2>1
<1>6. SideInv(u) BY DEF FolderInv
<1> QED BY <1>1, <1>2, <1>3, <1>4, <1>5, <1>6 DEF SideInv, At, Running

\* The shape of the variables is kept.
LEMMA ShapeKept ==
  ASSUME FolderInv, [Next]_vars
  PROVE  Shape'
<1> USE DEF FolderInv, Shape, folder, execution, kept, work, Both
<1>1. CASE Begin BY <1>1 DEF Begin
<1>2. CASE Cancel \/ Crash BY <1>2 DEF Cancel, Crash
<1>3. CASE ExecuteTasks
  BY <1>3 DEF ExecuteTasks, Tokenized, SeeCancellation, AnalyzeArchiveTokens,
     SelectItemsForDelta, ExtractItemsForDelta, CreateDeltas,
     CreateDiffRecipes, WriteDiffToDisk, VerifyDiffOutput, SummarizeResults
<1>4. CASE \E s \in Sides : TokenizeArchive(s)
  BY <1>4 DEF TokenizeArchive, Stopped, ClaimFolder, WriteHash,
     FindFolder, LoadPreviousTokens, LoadArchive, CreateCookie, CloseJson,
       SupplyTokens, CloseSupplied, CookieOfSupplied, Step
<1>5. CASE UNCHANGED vars BY <1>5 DEF vars
<1> QED BY <1>1, <1>2, <1>3, <1>4, <1>5 DEF Next

\* What a step of a side does to it.
LEMMA ThisSide ==
  ASSUME FolderInv, NEW s \in Sides, TokenizeArchive(s)
  PROVE  SideInv(s)'
<1>0. SideInv(s) /\ Shape BY DEF FolderInv
<1> USE DEF Step, folder, execution, At, Running, Begun
<1>1. CASE Stopped(s)
  <2>1. worker'[s] = "threw" /\ stage = "tokenize" BY <1>0, <1>1 DEF Stopped, Shape
  <2> QED BY <1>0, <1>1, <2>1 DEF Stopped, SideInv
<1>2. CASE ClaimFolder(s)
  <2>1. worker'[s] = "claim" /\ hash'[s] = Begun /\ json[s] = <<>>
    BY <1>0, <1>2 DEF ClaimFolder, Shape, SideInv
  <2> QED BY <1>0, <1>2, <2>1 DEF ClaimFolder, SideInv
<1>3. CASE WriteHash(s)
  <2>1. worker'[s] = "load" /\ hash'[s] = <<archives[s]>> /\ json[s] = <<>>
    BY <1>0, <1>3 DEF WriteHash, Shape, SideInv
  <2> QED BY <1>0, <1>3, <2>1 DEF WriteHash, SideInv
<1>4. CASE FindFolder(s)
  <2>1. worker'[s] = IF Claimed(s) THEN "load" ELSE "threw"
    BY <1>0, <1>4 DEF FindFolder, Shape
  <2>2. (worker'[s] = "load" /\ hash[s] = <<archives[s]>>) \/ worker'[s] = "threw"
    BY <2>1 DEF Claimed
  <2> QED BY <1>0, <1>4, <2>2 DEF FindFolder, SideInv
<1>5. CASE LoadPreviousTokens(s)
  <2>1. worker'[s] = "done" /\ tokens'[s] = json[s][1] /\ stage = "tokenize"
    BY <1>0, <1>5 DEF LoadPreviousTokens, Shape
  <2>2. json[s] \notin {<<>>, Begun} /\ hash[s] = <<archives[s]>>
    BY <1>0, <1>5 DEF LoadPreviousTokens, HasPreviousTokens, SideInv
  <2>3. /\ json[s] = <<TokensOf[s][archives[s]]>> /\ ~TokensOf[s][archives[s]].thrown
    BY <1>0, <2>2 DEF SideInv
  <2>4. tokens'[s] = TokensOf[s][archives[s]] BY <2>1, <2>3
  <2> QED BY <1>0, <1>5, <2>1, <2>3, <2>4 DEF LoadPreviousTokens, SideInv
<1>6. CASE LoadArchive(s)
  <2>1. stage = "tokenize" /\ hash[s] = <<archives[s]>>
    BY <1>0, <1>6 DEF LoadArchive, SideInv
  <2>2. CASE TokensOf[s][archives[s]].thrown
    <3>1. worker'[s] = "threw" /\ UNCHANGED <<json, tokens>>
      BY <1>0, <1>6, <2>2 DEF LoadArchive, Shape
    <3> QED BY <1>0, <1>6, <2>1, <3>1 DEF LoadArchive, SideInv
  <2>3. CASE ~TokensOf[s][archives[s]].thrown
    <3>1. /\ worker'[s] = "cookie" /\ tokens'[s] = TokensOf[s][archives[s]]
          /\ json'[s] = Begun
      BY <1>0, <1>6, <2>3 DEF LoadArchive, Shape
    <3> QED BY <1>0, <1>6, <2>1, <2>3, <3>1 DEF LoadArchive, SideInv
  <2> QED BY <2>2, <2>3
<1>7. CASE CreateCookie(s)
  <2>1. worker'[s] = "close" /\ stage = "tokenize" BY <1>0, <1>7 DEF CreateCookie, Shape
  <2> QED BY <1>0, <1>7, <2>1 DEF CreateCookie, SideInv
<1>8. CASE CloseJson(s)
  <2>1. worker'[s] = "done" /\ json'[s] = <<tokens[s]>> /\ stage = "tokenize"
    BY <1>0, <1>8 DEF CloseJson, Shape
  <2>2. /\ hash[s] = <<archives[s]>> /\ tokens[s] = TokensOf[s][archives[s]]
        /\ ~TokensOf[s][archives[s]].thrown
    BY <1>0, <1>8 DEF CloseJson, SideInv
  <2> QED BY <1>0, <1>8, <2>1, <2>2 DEF CloseJson, SideInv
<1>9. CASE SupplyTokens(s)
  <2>1. /\ worker'[s] = "supplied" /\ tokens'[s] = TokensOf[s][archives[s]]
        /\ json'[s] = Begun /\ stage = "tokenize"
        /\ ~TokensOf[s][archives[s]].thrown
    BY <1>0, <1>9 DEF SupplyTokens, Shape
  <2>2. hash[s] = <<archives[s]>> BY <1>0, <1>9 DEF SupplyTokens, SideInv
  <2> QED BY <1>0, <1>9, <2>1, <2>2 DEF SupplyTokens, SideInv
<1>10. CASE CloseSupplied(s)
  <2>1. worker'[s] = "closed" /\ json'[s] = <<tokens[s]>> /\ stage = "tokenize"
    BY <1>0, <1>10 DEF CloseSupplied, Shape
  <2>2. /\ hash[s] = <<archives[s]>> /\ tokens[s] = TokensOf[s][archives[s]]
        /\ ~TokensOf[s][archives[s]].thrown
    BY <1>0, <1>10 DEF CloseSupplied, SideInv
  <2> QED BY <1>0, <1>10, <2>1, <2>2 DEF CloseSupplied, SideInv
<1>11. CASE CookieOfSupplied(s)
  <2>1. worker'[s] = "done" /\ stage = "tokenize"
    BY <1>0, <1>11 DEF CookieOfSupplied, Shape
  <2> QED BY <1>0, <1>11, <2>1 DEF CookieOfSupplied, SideInv
<1> QED BY <1>1, <1>2, <1>3, <1>4, <1>5, <1>6, <1>7, <1>8, <1>9, <1>10, <1>11
    DEF TokenizeArchive

\* The rest of a run leaves the folder and the tokens alone.
LEMMA StagesKeepSide ==
  ASSUME FolderInv, ExecuteTasks \/ Cancel \/ Crash, NEW s \in Sides
  PROVE  SideInv(s)'
<1>0. SideInv(s) BY DEF FolderInv
<1>1. UNCHANGED <<hash, json, worker, archives, tokens>>
  BY DEF ExecuteTasks, Tokenized, SeeCancellation, AnalyzeArchiveTokens,
     SelectItemsForDelta, ExtractItemsForDelta, CreateDeltas,
     CreateDiffRecipes, WriteDiffToDisk, VerifyDiffOutput, SummarizeResults,
     Cancel, Crash, kept, folder
<1>2. CASE Tokenized
  <2>1. /\ stage = "tokenize"
        /\ \/ stage' = "done"
           \/ stage' = "analyze" /\ worker[s] = "done"
    BY <1>2 DEF Tokenized, Goto, Fail
  <2> QED BY <1>0, <1>1, <2>1 DEF SideInv, At, Running
<1>3. CASE ~Tokenized
  <2>1. \/ stage' \in {"idle", "done"} \/ stage' = stage
        \/ stage \notin {"idle", "tokenize", "done"} /\ stage' # "tokenize"
    BY <1>3 DEF ExecuteTasks, Tokenized, SeeCancellation, AnalyzeArchiveTokens,
       SelectItemsForDelta, ExtractItemsForDelta, CreateDeltas,
       CreateDiffRecipes, WriteDiffToDisk, VerifyDiffOutput, SummarizeResults,
       Cancel, Crash, Enters, Goto, Fail
  <2> QED BY <1>0, <1>1, <2>1 DEF SideInv, At, Running
<1> QED BY <1>2, <1>3

\* Every step keeps it: one side is tokenized, or a stage leaves both alone.
LEMMA FolderKept ==
  ASSUME FolderInv, [Next]_vars
  PROVE  FolderInv'
<1>1. Shape' BY ShapeKept
<1>2. Running' => \E pair \in Pairs : archives' = ArchivesOf(pair)
  <2>1. CASE Begin BY <2>1 DEF Begin
  <2>2. CASE UNCHANGED archives /\ (Running' => Running) BY <2>2 DEF FolderInv
  <2>3. CASE Cancel \/ Crash \/ UNCHANGED vars
    BY <2>2, <2>3 DEF Cancel, Crash, vars, Running
  <2>4. CASE ExecuteTasks
    <3>1. Running
      BY <2>4 DEF ExecuteTasks, Tokenized, SeeCancellation, AnalyzeArchiveTokens,
         SelectItemsForDelta, ExtractItemsForDelta, CreateDeltas,
         CreateDiffRecipes, WriteDiffToDisk, VerifyDiffOutput, SummarizeResults,
         Enters, Running
    <3>2. UNCHANGED archives
      BY <2>4 DEF ExecuteTasks, Tokenized, SeeCancellation, AnalyzeArchiveTokens,
         SelectItemsForDelta, ExtractItemsForDelta, CreateDeltas,
         CreateDiffRecipes, WriteDiffToDisk, VerifyDiffOutput, SummarizeResults,
         kept
    <3> QED BY <2>2, <3>1, <3>2
  <2>5. CASE \E s \in Sides : TokenizeArchive(s)
    BY <2>2, <2>5 DEF TokenizeArchive, Stopped, ClaimFolder, WriteHash,
       FindFolder, LoadPreviousTokens, LoadArchive, CreateCookie, CloseJson,
       SupplyTokens, CloseSupplied, CookieOfSupplied,
       execution, At, Running
  <2> QED BY <2>1, <2>3, <2>4, <2>5 DEF Next
<1>3. ASSUME NEW s \in Sides PROVE SideInv(s)'
  <2>1. CASE Begin
    <3>1. SideInv(s) BY DEF FolderInv
    <3>2. /\ UNCHANGED <<hash, json>> /\ worker'[s] = "hash" /\ stage' = "tokenize"
      BY <2>1 DEF Begin, folder, Both
    <3> QED BY <3>1, <3>2 DEF SideInv, At, Running
  <2>2. CASE ExecuteTasks \/ Cancel \/ Crash BY <2>2, StagesKeepSide
  <2>3. CASE \E u \in Sides : TokenizeArchive(u) BY <2>3, ThisSide, OtherSide
  <2>4. CASE UNCHANGED vars
    <3>1. SideInv(s) BY DEF FolderInv
    <3> QED BY <2>4, <3>1 DEF vars, folder, work, SideInv, At, Running
  <2> QED BY <2>1, <2>2, <2>3, <2>4 DEF Next
<1> QED BY <1>1, <1>2, <1>3 DEF FolderInv

\* It always holds.
LEMMA FolderInvariance == Spec => []FolderInv
<1>1. Init => FolderInv
  <2> SUFFICES ASSUME Init PROVE FolderInv OBVIOUS
  <2>1. Shape BY DEF Init, Shape, Both
  <2>2. ~Running BY DEF Init, Running
  <2>3. \A s \in Sides : SideInv(s) BY <2>2 DEF Init, SideInv, At, Both
  <2> QED BY <2>1, <2>2, <2>3 DEF FolderInv
<1>2. FolderInv /\ [Next]_vars => FolderInv' BY FolderKept
<1> QED BY <1>1, <1>2, PTL DEF Spec

\* The tokens that a run works with are those of the archives it was given,
\* whatever was done in the folder before (TokenizeArchives.cs:139-236): only
\* an archive with the hash of the cookie gets past it, and a JSON text is
\* believed only when it was finished.
THEOREM TokensTrue == Spec => []TokensAreOfTheArchives
<1>1. FolderInv => TokensAreOfTheArchives
  BY DEF FolderInv, SideInv, TokensAreOfTheArchives
<1> QED BY <1>1, FolderInvariance, PTL

-----------------------------------------------------------------------------
(* Finite sets.                                                            *)

\* The values of a function with a finite domain.
LEMMA FiniteRange ==
  ASSUME NEW f, IsFiniteSet(DOMAIN f)
  PROVE  IsFiniteSet({f[x] : x \in DOMAIN f})
<1> DEFINE S == DOMAIN f
           T == {f[x] : x \in DOMAIN f}
           g == [x \in S |-> f[x]]
<1>1. g \in Surjection(S, T) BY DEF Surjection
<1> HIDE DEF S, T, g
<1>2. IsFiniteSet(S) BY DEF S
<1>3. IsFiniteSet(T) BY <1>1, <1>2, FS_Surjection
<1> QED BY <1>3 DEF T

\* A finite union of finite sets.
LEMMA FiniteUnion ==
  ASSUME NEW f, IsFiniteSet(DOMAIN f), \A x \in DOMAIN f : IsFiniteSet(f[x])
  PROVE  IsFiniteSet(UNION {f[x] : x \in DOMAIN f})
<1>1. IsFiniteSet({f[x] : x \in DOMAIN f}) BY FiniteRange
<1> QED BY <1>1, FS_UNION

\* A list has finitely many parts.
LEMMA FiniteParts ==
  ASSUME NEW list \in Seq(Items)
  PROVE  IsFiniteSet(ToSet(list)) /\ IsFiniteSet(DOMAIN list)
<1>1. DOMAIN list = 1 .. Len(list) /\ Len(list) \in Nat OBVIOUS
<1>2. IsFiniteSet(DOMAIN list) BY <1>1, FS_Interval
<1> QED BY <1>2, FiniteRange DEF ToSet

-----------------------------------------------------------------------------
(* Selecting recipes.                                                      *)

\* What CreateDiffRecipes starts from.
Ready ==
    /\ Whole(Source) /\ Source.archive \in Items
    /\ Whole(Target) /\ Target.archive \in Items
    /\ \A t \in DOMAIN catalog : catalog[t] \in Known(Source)

\* The parts of what is promised of an archive.
LEMMA WholeParts ==
  ASSUME NEW t, Whole(t), t.archive \in Items
  PROVE  /\ IsFiniteSet(t.recipes) /\ IsFiniteSet(t.payload)
         /\ \A r \in t.recipes : /\ r.result \in Items /\ r.items \in Seq(Items)
                                 /\ ~IsDeltaRecipe(r) /\ Makes(r)
         /\ \A i \in DOMAIN t.forward :
               /\ t.forward[i] \in t.recipes /\ t.forward[i].result = i
               /\ ToSet(t.forward[i].items) \subseteq DOMAIN t.reverse
         /\ \A i \in DOMAIN t.reverse : /\ t.reverse[i] \in t.recipes
                                        /\ t.reverse[i].result = i
                                        /\ ToSet(t.reverse[i].items) \subseteq Known(t)
         /\ Known(t) \subseteq Items
         /\ Results(t.recipes) \subseteq Known(t)
         /\ GetPayloadItems(t) \subseteq Known(t)
         /\ IsFiniteSet(Range(t.forward)) /\ IsFiniteSet(Range(t.reverse))
         /\ Range(t.forward) \subseteq t.recipes /\ Range(t.reverse) \subseteq t.recipes
<1> USE DEF Whole, Items
<1>1. IsFiniteSet(t.recipes) /\ IsFiniteSet(t.payload) OBVIOUS
<1>2. \A r \in t.recipes : /\ r.result \in Items /\ r.items \in Seq(Items)
                           /\ ~IsDeltaRecipe(r) /\ Makes(r)
  OBVIOUS
<1>3. \A i \in DOMAIN t.forward : /\ t.forward[i] \in t.recipes
                                  /\ t.forward[i].result = i
                                  /\ ToSet(t.forward[i].items) \subseteq DOMAIN t.reverse
  BY DEF Range
<1>4. \A i \in DOMAIN t.reverse : /\ t.reverse[i] \in t.recipes
                                  /\ t.reverse[i].result = i
                                  /\ ToSet(t.reverse[i].items) \subseteq Known(t)
  BY DEF Range
<1>5. Known(t) \subseteq Items BY <1>2, <1>4 DEF Known
<1>6. Range(t.forward) \subseteq t.recipes /\ Range(t.reverse) \subseteq t.recipes
  BY <1>3, <1>4 DEF Range
<1>7. IsFiniteSet(Range(t.forward)) /\ IsFiniteSet(Range(t.reverse))
  BY <1>1, <1>6, FS_Subset
<1>8. Results(t.recipes) \subseteq Known(t) /\ GetPayloadItems(t) \subseteq Known(t)
  OBVIOUS
<1> QED BY <1>1, <1>2, <1>3, <1>4, <1>5, <1>6, <1>7, <1>8

\* Who has the archive and the reverse recipes makes what is in it.
LEMMA ReverseMakes ==
  ASSUME NEW t, Whole(t), t.archive \in Items, NEW stock, NEW recipes,
         IsFiniteSet(recipes), Range(t.reverse) \subseteq recipes,
         t.archive \in Made(stock, recipes)
  PROVE  Known(t) \subseteq Made(stock, recipes)
<1> DEFINE M == Made(stock, recipes)
<1>1. IsFiniteSet(Range(t.reverse)) BY WholeParts
<1>2. \A r \in Range(t.reverse) : ToSet(r.items) \subseteq M => r.result \in M
  BY MadeClosed
<1>3. {t.archive} \subseteq M OBVIOUS
<1> HIDE DEF M
<1>4. Made({t.archive}, Range(t.reverse)) \subseteq M BY <1>1, <1>2, <1>3, MadeLeast
<1>5. DOMAIN t.reverse \subseteq M BY <1>4 DEF Whole
<1> QED BY <1>3, <1>5 DEF Known, M

\* What an archive is known to hold can be extracted.
LEMMA KnownIsExtractable ==
  ASSUME NEW t, Whole(t), t.archive \in Items, NEW S, S \subseteq Known(t)
  PROVE  CanExtract(t, S)
<1>1. /\ IsFiniteSet(t.recipes) /\ Range(t.reverse) \subseteq t.recipes BY WholeParts
<1>2. t.archive \in Made({t.archive}, t.recipes) BY <1>1, MadeHolds
<1> QED BY <1>1, <1>2, ReverseMakes DEF CanExtract

\* A basis is something that the source holds.
LEMMA PlansKnown ==
  ASSUME Whole(Source), Source.archive \in Items, NEW t
  PROVE  PlansOf(t) \subseteq Known(Source)
<1>1. /\ Results(Source.recipes) \subseteq Known(Source)
      /\ GetPayloadItems(Source) \subseteq Known(Source)
  BY WholeParts
<1>2. PayloadPlans(t) \subseteq Known(Source)
  BY <1>1 DEF PayloadPlans, GetPayloadItems
<1>3. SizePlans(t) \subseteq Known(Source) BY <1>1 DEF SizePlans, Results
<1> QED BY <1>2, <1>3 DEF PlansOf

\* What a delta recipe is.
LEMMA Deltas ==
  ASSUME Ready, NEW r \in DeltaRecipes
  PROVE  /\ r.result \in DOMAIN catalog /\ r.result \in GetPayloadItems(Target)
         /\ ~HasAnyRecipes(Source, r.result)
         /\ r.result \in Items /\ catalog[r.result] \in Known(Source)
         /\ IsDeltaRecipe(r) /\ r.kind = "bspatch_decompression"
         /\ r.items = <<DeltaOf(catalog[r.result], r.result), catalog[r.result]>>
         /\ r.items \in Seq(Items)
         /\ r = Recipe("bspatch_decompression", r.result, <<>>,
                       <<DeltaOf(catalog[r.result], r.result), catalog[r.result]>>)
<1>1. PICK t \in InitiallyNeeded \intersect DOMAIN catalog :
        r = Recipe("bspatch_decompression", t, <<>>,
                   <<DeltaOf(catalog[t], t), catalog[t]>>)
  BY DEF DeltaRecipes
<1>2. /\ r.result = t /\ r.kind = "bspatch_decompression"
      /\ r.items = <<DeltaOf(catalog[t], t), catalog[t]>>
  BY <1>1 DEF Recipe
<1>3. t \in GetPayloadItems(Target) /\ ~HasAnyRecipes(Source, t)
  BY <1>1 DEF InitiallyNeeded
<1>4. GetPayloadItems(Target) \subseteq Items /\ Known(Source) \subseteq Items
  BY WholeParts DEF Ready
<1>5. catalog[t] \in Known(Source) BY <1>1 DEF Ready
<1>6. DeltaOf(catalog[t], t) \in Items
  <2> DEFINE b == catalog[t]
  <2>1. b \in Seq(Int) /\ t \in Seq(Int) BY <1>3, <1>4, <1>5 DEF Items
  <2> HIDE DEF b
  <2>2. <<-1>> \in Seq(Int) /\ <<-2>> \in Seq(Int) OBVIOUS
  <2>3. <<-1>> \o b \o <<-2>> \o t \in Seq(Int) BY <2>1, <2>2, ConcatProperties
  <2> QED BY <2>3 DEF DeltaOf, b, Items
<1>7. r.items \in Seq(Items) BY <1>2, <1>4, <1>5, <1>6
<1> QED BY <1>1, <1>2, <1>3, <1>4, <1>5, <1>7 DEF IsDeltaRecipe

\* The recipes that the search starts with: those of the deltas, all reverse
\* recipes of the source, and forward recipes of the target for the rest.
LEMMA Before ==
  ASSUME Ready
  PROVE  /\ DeltaRecipes \subseteq BeforeSearch
         /\ Range(Source.reverse) \subseteq BeforeSearch
         /\ \A i \in DOMAIN Target.forward :
               \/ i \in Results(DeltaRecipes)
               \/ i \in DOMAIN Source.reverse
               \/ Target.forward[i] \in BeforeSearch
         /\ \A r \in BeforeSearch :
               \/ r \in DeltaRecipes
               \/ /\ r.result \in DOMAIN Source.reverse
                  /\ r = Source.reverse[r.result]
               \/ /\ r.result \in DOMAIN Target.forward
                  /\ r.result \notin Results(DeltaRecipes)
                  /\ r.result \notin DOMAIN Source.reverse
                  /\ r = Target.forward[r.result]
<1> DEFINE first == AddMissing(DeltaRecipes, Source.reverse)
<1>1. /\ \A i \in DOMAIN Source.reverse : /\ Source.reverse[i] \in Source.recipes
                                          /\ Source.reverse[i].result = i
      /\ \A i \in DOMAIN Target.forward : Target.forward[i].result = i
  BY WholeParts DEF Ready
<1>2. \A i \in DOMAIN Source.reverse : RecipesFor(DeltaRecipes, i) = {}
  <2> SUFFICES ASSUME NEW i \in DOMAIN Source.reverse, NEW r \in DeltaRecipes,
                      r.result = i
               PROVE  FALSE
    BY DEF RecipesFor
  <2>1. ~HasAnyRecipes(Source, i) BY Deltas
  <2> QED BY <1>1, <2>1 DEF HasAnyRecipes, Results
<1>3. first = DeltaRecipes \union Range(Source.reverse)
  BY <1>2 DEF AddMissing, Range
<1>4. BeforeSearch = AddMissing(first, Target.forward) BY DEF BeforeSearch
<1> HIDE DEF first
<1>5. DeltaRecipes \subseteq BeforeSearch /\ Range(Source.reverse) \subseteq BeforeSearch
  BY <1>3, <1>4 DEF AddMissing
<1>6. \A i : RecipesFor(first, i) = {} <=> /\ i \notin Results(DeltaRecipes)
                                           /\ i \notin DOMAIN Source.reverse
  BY <1>1, <1>3 DEF RecipesFor, Results, Range
<1>7. \A i \in DOMAIN Target.forward :
        \/ i \in Results(DeltaRecipes)
        \/ i \in DOMAIN Source.reverse
        \/ Target.forward[i] \in BeforeSearch
  BY <1>4, <1>6 DEF AddMissing
<1>8. ASSUME NEW r \in BeforeSearch
      PROVE  \/ r \in DeltaRecipes
             \/ r.result \in DOMAIN Source.reverse /\ r = Source.reverse[r.result]
             \/ /\ r.result \in DOMAIN Target.forward
                /\ r.result \notin Results(DeltaRecipes)
                /\ r.result \notin DOMAIN Source.reverse
                /\ r = Target.forward[r.result]
  <2>1. CASE r \in first BY <1>1, <1>3, <2>1 DEF Range
  <2>2. CASE r \notin first
    <3>1. PICK i \in DOMAIN Target.forward :
            RecipesFor(first, i) = {} /\ r = Target.forward[i]
      BY <1>4, <2>2 DEF AddMissing
    <3> QED BY <1>1, <1>6, <3>1
  <2> QED BY <2>1, <2>2
<1> QED BY <1>5, <1>7, <1>8

-----------------------------------------------------------------------------
\* What the search covers, what of that has no recipe, and the recipes of the
\* source for it.
Covered == Search({Target.archive}, BeforeSearch)
Bare == Covered \ Results(BeforeSearch)
FromSource == {Source.forward[i] : i \in Bare \intersect DOMAIN Source.forward}

\* There are finitely many deltas: one for an item of the payload.
LEMMA FiniteDeltas ==
  ASSUME Ready
  PROVE  IsFiniteSet(DeltaRecipes)
<1> DEFINE f == [q \in Target.payload |-> q.item]
           D == InitiallyNeeded \intersect DOMAIN catalog
           g == [t \in D |-> Recipe("bspatch_decompression", t, <<>>,
                                <<DeltaOf(catalog[t], t), catalog[t]>>)]
<1>1. IsFiniteSet(Target.payload) BY WholeParts DEF Ready
<1>2. GetPayloadItems(Target) = {f[q] : q \in DOMAIN f} BY DEF GetPayloadItems
<1>3. IsFiniteSet(DOMAIN f) BY <1>1
<1> HIDE DEF f
<1>4. IsFiniteSet(GetPayloadItems(Target)) BY <1>2, <1>3, FiniteRange
<1>5. D \subseteq GetPayloadItems(Target) BY DEF InitiallyNeeded
<1> HIDE DEF D
<1>6. IsFiniteSet(D) BY <1>4, <1>5, FS_Subset
<1>7. IsFiniteSet(DOMAIN g) BY <1>6
<1>8. DeltaRecipes = {g[t] : t \in DOMAIN g} BY DEF DeltaRecipes, D
<1> HIDE DEF g
<1> QED BY <1>7, <1>8, FiniteRange

\* The recipes that the search starts with are one for each of their results,
\* of what the archives are known to hold.
LEMMA BeforeRecipes ==
  ASSUME Ready
  PROVE  /\ IsFiniteSet(BeforeSearch)
         /\ \A r \in BeforeSearch :
               /\ r.result \in Items /\ r.items \in Seq(Items)
               /\ IsFiniteSet(Ingredients(r))
               /\ Ingredients(r) \subseteq Known(Source) \union Known(Target)
         /\ \A r \in BeforeSearch : IsDeltaRecipe(r) <=> r \in DeltaRecipes
         /\ \A r, u \in BeforeSearch : r.result = u.result => r = u
<1>1. /\ IsFiniteSet(Source.recipes) /\ IsFiniteSet(Target.recipes)
      /\ \A r \in Source.recipes \union Target.recipes :
            r.result \in Items /\ r.items \in Seq(Items) /\ ~IsDeltaRecipe(r)
      /\ \A i \in DOMAIN Source.reverse :
            /\ Source.reverse[i] \in Source.recipes /\ Source.reverse[i].result = i
            /\ ToSet(Source.reverse[i].items) \subseteq Known(Source)
      /\ \A i \in DOMAIN Target.forward :
            /\ Target.forward[i] \in Target.recipes
            /\ ToSet(Target.forward[i].items) \subseteq DOMAIN Target.reverse
  BY WholeParts DEF Ready
<1>2. \A r \in BeforeSearch :
        r \in DeltaRecipes \union Source.recipes \union Target.recipes
  BY <1>1, Before
<1>3. IsFiniteSet(BeforeSearch)
  <2>1. IsFiniteSet(DeltaRecipes \union Source.recipes \union Target.recipes)
    BY <1>1, FiniteDeltas, FS_Union
  <2>2. BeforeSearch \subseteq DeltaRecipes \union Source.recipes \union Target.recipes
    BY <1>2
  <2> QED BY <2>1, <2>2, FS_Subset
<1>4. ASSUME NEW r \in BeforeSearch
      PROVE  /\ r.result \in Items /\ r.items \in Seq(Items)
             /\ IsFiniteSet(Ingredients(r))
             /\ Ingredients(r) \subseteq Known(Source) \union Known(Target)
             /\ IsDeltaRecipe(r) <=> r \in DeltaRecipes
  <2>1. CASE r \in DeltaRecipes
    <3>1. /\ r.result \in Items /\ r.items \in Seq(Items) /\ IsDeltaRecipe(r)
          /\ catalog[r.result] \in Known(Source)
          /\ r.items = <<DeltaOf(catalog[r.result], r.result), catalog[r.result]>>
      BY <2>1, Deltas
    <3>2. Ingredients(r) = {catalog[r.result]} BY <3>1 DEF Ingredients, GetDeltaBasis
    <3> QED BY <2>1, <3>1, <3>2, FS_Singleton
  <2>2. CASE r \notin DeltaRecipes
    <3>1. r \in Source.recipes \union Target.recipes BY <1>2, <2>2
    <3>2. r.result \in Items /\ r.items \in Seq(Items) /\ ~IsDeltaRecipe(r) BY <1>1, <3>1
    <3>3. Ingredients(r) = ToSet(r.items) BY <3>2 DEF Ingredients
    <3>4. ToSet(r.items) \subseteq Known(Source) \union Known(Target)
      BY <1>1, <2>2, Before DEF Known
    <3> QED BY <2>2, <3>2, <3>3, <3>4, FiniteParts
  <2> QED BY <2>1, <2>2
<1>5. ASSUME NEW r \in BeforeSearch, NEW u \in BeforeSearch, r.result = u.result
      PROVE  r = u
  <2>1. CASE r \in DeltaRecipes \/ u \in DeltaRecipes
    <3>1. \A v \in DeltaRecipes : v.result \notin DOMAIN Source.reverse
      <4>1. \A v \in DeltaRecipes : ~HasAnyRecipes(Source, v.result) BY Deltas
      <4> QED BY <1>1, <4>1 DEF HasAnyRecipes, Results
    <3>2. r \in DeltaRecipes /\ u \in DeltaRecipes
      BY <1>5, <2>1, <3>1, Before DEF Results
    <3>3. /\ r = Recipe("bspatch_decompression", r.result, <<>>,
                     <<DeltaOf(catalog[r.result], r.result), catalog[r.result]>>)
          /\ u = Recipe("bspatch_decompression", u.result, <<>>,
                     <<DeltaOf(catalog[u.result], u.result), catalog[u.result]>>)
      BY <3>2, Deltas
    <3> QED BY <1>5, <3>3
  <2>2. CASE r \notin DeltaRecipes /\ u \notin DeltaRecipes
    BY <1>5, <2>2, Before
  <2> QED BY <2>1, <2>2
<1> QED BY <1>3, <1>4, <1>5

\* Finitely many recipes take finitely many steps of the search.
LEMMA FiniteTurned ==
  ASSUME NEW recipes, IsFiniteSet(recipes),
         \A r \in recipes : IsFiniteSet(Ingredients(r))
  PROVE  IsFiniteSet(Turned(recipes))
<1> DEFINE Step1(r, i) == [result |-> i, items |-> <<r.result>>]
           f == [r \in recipes |-> {Step1(r, i) : i \in Ingredients(r)}]
<1>1. \A r \in DOMAIN f : IsFiniteSet(f[r])
  <2> SUFFICES ASSUME NEW r \in recipes PROVE IsFiniteSet(f[r]) OBVIOUS
  <2> DEFINE g == [i \in Ingredients(r) |-> Step1(r, i)]
  <2>1. IsFiniteSet(DOMAIN g) OBVIOUS
  <2>2. f[r] = {g[i] : i \in DOMAIN g} OBVIOUS
  <2> HIDE DEF g, f
  <2> QED BY <2>1, <2>2, FiniteRange
<1>2. IsFiniteSet(DOMAIN f) OBVIOUS
<1>3. Turned(recipes) = UNION {f[r] : r \in DOMAIN f} BY DEF Turned
<1> HIDE DEF f
<1> QED BY <1>1, <1>2, <1>3, FiniteUnion

\* What a search covers: what it begins with and, with a result, the
\* ingredients of its recipe.
LEMMA Searched ==
  ASSUME NEW begin, NEW recipes, IsFiniteSet(recipes),
         \A r \in recipes : IsFiniteSet(Ingredients(r))
  PROVE  /\ begin \subseteq Search(begin, recipes)
         /\ \A r \in recipes : r.result \in Search(begin, recipes) =>
               Ingredients(r) \subseteq Search(begin, recipes)
         /\ \A S : /\ begin \subseteq S
                   /\ \A r \in recipes : r.result \in S => Ingredients(r) \subseteq S
                   => Search(begin, recipes) \subseteq S
<1>1. IsFiniteSet(Turned(recipes)) BY FiniteTurned
<1>2. \A x : ToSet(<<x>>) = {x} BY DEF ToSet
<1>3. begin \subseteq Search(begin, recipes) BY <1>1, MadeHolds DEF Search
<1>4. ASSUME NEW r \in recipes, r.result \in Search(begin, recipes),
             NEW i \in Ingredients(r)
      PROVE  i \in Search(begin, recipes)
  <2> DEFINE q == [result |-> i, items |-> <<r.result>>]
  <2>1. q \in Turned(recipes) BY DEF Turned
  <2>2. q.result = i /\ ToSet(q.items) = {r.result} BY <1>2
  <2> HIDE DEF q
  <2>3. ToSet(q.items) \subseteq Made(begin, Turned(recipes)) BY <1>4, <2>2 DEF Search
  <2>4. q.result \in Made(begin, Turned(recipes)) BY <1>1, <2>1, <2>3, MadeClosed
  <2> QED BY <2>2, <2>4 DEF Search
<1>5. ASSUME NEW S, begin \subseteq S,
             \A r \in recipes : r.result \in S => Ingredients(r) \subseteq S
      PROVE  Search(begin, recipes) \subseteq S
  <2>1. ASSUME NEW q \in Turned(recipes), ToSet(q.items) \subseteq S PROVE q.result \in S
    <3>1. PICK r \in recipes : \E i \in Ingredients(r) :
                  q = [result |-> i, items |-> <<r.result>>]
      BY <2>1 DEF Turned
    <3>2. PICK i \in Ingredients(r) : q = [result |-> i, items |-> <<r.result>>]
      BY <3>1
    <3>3. q.result = i /\ q.items = <<r.result>> BY <3>2
    <3>4. r.result \in S BY <1>2, <2>1, <3>3
    <3> QED BY <1>5, <3>3, <3>4
  <2> QED BY <1>1, <1>5, <2>1, MadeLeast DEF Search
<1> QED BY <1>3, <1>4, <1>5

\* The search covers the target and only what one of the archives holds.
LEMMA CoveredIs ==
  ASSUME Ready
  PROVE  /\ Target.archive \in Covered
         /\ Covered \subseteq Known(Source) \union Known(Target)
         /\ \A r \in BeforeSearch : r.result \in Covered => Ingredients(r) \subseteq Covered
<1>1. /\ IsFiniteSet(BeforeSearch)
      /\ \A r \in BeforeSearch : IsFiniteSet(Ingredients(r))
      /\ \A r \in BeforeSearch : Ingredients(r) \subseteq Known(Source) \union Known(Target)
  BY BeforeRecipes
<1>2. {Target.archive} \subseteq Known(Source) \union Known(Target) BY DEF Known
<1>3. Covered \subseteq Known(Source) \union Known(Target)
  <2> DEFINE S == Known(Source) \union Known(Target)
  <2>1. {Target.archive} \subseteq S BY <1>2
  <2>2. \A r \in BeforeSearch : Ingredients(r) \subseteq S BY <1>1
  <2> HIDE DEF S
  <2>3. \A r \in BeforeSearch : r.result \in S => Ingredients(r) \subseteq S BY <2>2
  <2>4. Search({Target.archive}, BeforeSearch) \subseteq S
    BY <1>1, <2>1, <2>3, Searched
  <2> QED BY <2>4 DEF S, Covered
<1> QED BY <1>1, <1>3, Searched DEF Covered

-----------------------------------------------------------------------------
(* What a diff is made of.                                                 *)

\* What SelectRecipes leaves over, its recipes, and the deltas among them.
Needed == Bare \ DOMAIN Source.forward
Recipes == BeforeSearch \union FromSource
DeltaItems == {GetDeltaItem(r) : r \in DeltaRecipes}

\* SelectRecipes() does not throw: a result has one recipe, and those of the
\* source are made of what the source holds.
LEMMA Selected ==
  ASSUME Ready
  PROVE  /\ SelectRecipes.recipes = Recipes
         /\ SelectRecipes.needed = Needed
         /\ ~SelectRecipes.throws
         /\ FromSource \subseteq Range(Source.forward)
         /\ IsFiniteSet(Recipes)
         /\ {q \in Recipes : IsDeltaRecipe(q)} = DeltaRecipes
<1>1. /\ IsFiniteSet(BeforeSearch)
      /\ \A r \in BeforeSearch : IsDeltaRecipe(r) <=> r \in DeltaRecipes
      /\ \A r, u \in BeforeSearch : r.result = u.result => r = u
  BY BeforeRecipes
<1>2. /\ IsFiniteSet(Range(Source.forward))
      /\ Range(Source.forward) \subseteq Source.recipes
      /\ \A r \in Source.recipes : ~IsDeltaRecipe(r)
      /\ \A i \in DOMAIN Source.forward :
            ToSet(Source.forward[i].items) \subseteq DOMAIN Source.reverse
      /\ \A i \in DOMAIN Source.reverse : Source.reverse[i].result = i
  BY WholeParts DEF Ready
<1>3. FromSource \subseteq Range(Source.forward) BY DEF FromSource, Range
<1>4. IsFiniteSet(Recipes)
  <2>1. IsFiniteSet(FromSource) BY <1>2, <1>3, FS_Subset
  <2> QED BY <1>1, <2>1, FS_Union DEF Recipes
<1>5. {q \in Recipes : IsDeltaRecipe(q)} = DeltaRecipes
  BY <1>1, <1>2, <1>3, Before DEF Recipes
<1>6. \A i \in Covered : ~(Cardinality(RecipesFor(BeforeSearch, i)) > 1)
  <2> SUFFICES ASSUME NEW i \in Covered
               PROVE  ~(Cardinality(RecipesFor(BeforeSearch, i)) > 1)
    OBVIOUS
  <2> DEFINE S == RecipesFor(BeforeSearch, i)
  <2>1. CASE S = {}
    <3>1. Cardinality(S) = 0 BY <2>1, FS_EmptySet
    <3> HIDE DEF S
    <3> QED BY <3>1 DEF S
  <2>2. CASE S # {}
    <3>1. PICK r \in BeforeSearch : r \in S BY <2>2 DEF RecipesFor
    <3>2. S = {r} BY <1>1, <3>1 DEF RecipesFor
    <3>3. Cardinality({r}) = 1 BY FS_Singleton
    <3> HIDE DEF S
    <3> QED BY <3>2, <3>3 DEF S
  <2> QED BY <2>1, <2>2
<1>7. \A r \in FromSource : ToSet(r.items) \subseteq Results(Recipes)
  <2>1. DOMAIN Source.reverse \subseteq Results(BeforeSearch)
    BY <1>2, Before DEF Results, Range
  <2> QED BY <1>2, <2>1 DEF FromSource, Recipes, Results
<1> DEFINE throws == \/ \E i \in Covered : Cardinality(RecipesFor(BeforeSearch, i)) > 1
                     \/ \E r \in FromSource : ~ToSet(r.items) \subseteq Results(Recipes)
<1>8. SelectRecipes = [recipes |-> Recipes, needed |-> Needed, throws |-> throws]
  BY DEF SelectRecipes, Recipes, Needed, Covered, Bare, FromSource
<1>9. ~throws BY <1>6, <1>7
<1> HIDE DEF throws
<1>10. /\ SelectRecipes.recipes = Recipes
       /\ SelectRecipes.needed = Needed
       /\ ~SelectRecipes.throws
  BY <1>8, <1>9
<1> QED BY <1>3, <1>4, <1>5, <1>10

\* The parts of NewDiff.
Assets == ByLength(DeltaItems)
Inline == FlattenSeq(Assets)
Remaining == ByLength(Needed \ {Inline})
Remainder == FlattenSeq(Remaining)
Slices == InlineSlices(Assets) \union RemainderSlices(Remaining)

\* What NewDiff is made of them, and when it throws.
LEMMA NewDiffIs ==
  ASSUME Ready
  PROVE  /\ NewDiff.made = [recipes |-> Recipes \union Slices,
                            needed |-> Needed \ {Inline, Remainder},
                            inline |-> Inline, remainder |-> Remainder]
         /\ NewDiff.throws <=> \/ ~CanExtract(Target, ToSet(Remaining))
                               \/ \E r \in Slices : SelfReferential(r)
<1>1. SortedDeltaItems(Recipes) = Assets
  BY Selected DEF SortedDeltaItems, Assets, DeltaItems
<1>2. /\ SelectRecipes.recipes = Recipes
      /\ SelectRecipes.needed = Needed
      /\ ~SelectRecipes.throws
  BY Selected
<1> DEFINE throws == \/ SelectRecipes.throws
                     \/ ~CanExtract(Target, ToSet(Remaining))
                     \/ \E r \in Slices : SelfReferential(r)
<1>3. NewDiff = [made |-> [recipes |-> Recipes \union Slices,
                           needed |-> Needed \ {Inline, Remainder},
                           inline |-> Inline, remainder |-> Remainder],
                 throws |-> throws]
  BY <1>1, <1>2 DEF NewDiff, Inline, Remaining, Remainder, Slices, SortedRemainderItems
<1>4. throws <=> \/ ~CanExtract(Target, ToSet(Remaining))
                 \/ \E r \in Slices : SelfReferential(r)
  BY <1>2
<1> HIDE DEF throws
<1> QED BY <1>3, <1>4

\* The assets are the deltas, the remainder what is needed.
LEMMA Lists ==
  ASSUME Ready
  PROVE  /\ Assets \in Seq(Items) /\ Remaining \in Seq(Items)
         /\ \A x \in DeltaItems : \E i \in 1 .. Len(Assets) : Assets[i] = x
         /\ \A x \in Needed \ {Inline} : \E i \in 1 .. Len(Remaining) : Remaining[i] = x
         /\ \A i \in 1 .. Len(Remaining) : Remaining[i] \in Needed \ {Inline}
<1>1. DeltaItems \in ItemSets
  <2>1. IsFiniteSet(DeltaItems)
    <3> DEFINE f == [r \in DeltaRecipes |-> GetDeltaItem(r)]
    <3>1. DeltaItems = {f[r] : r \in DOMAIN f} BY DEF DeltaItems
    <3>2. IsFiniteSet(DOMAIN f) BY FiniteDeltas
    <3> HIDE DEF f
    <3> QED BY <3>1, <3>2, FiniteRange
  <2>2. ASSUME NEW r \in DeltaRecipes PROVE GetDeltaItem(r) \in Items
    <3>1. /\ r.items \in Seq(Items)
          /\ r.items = <<DeltaOf(catalog[r.result], r.result), catalog[r.result]>>
      BY Deltas
    <3>2. Len(r.items) = 2 BY <3>1
    <3> QED BY <3>1, <3>2 DEF GetDeltaItem
  <2> QED BY <2>1, <2>2 DEF DeltaItems, ItemSets
<1>2. Needed \ {Inline} \in ItemSets
  <2>1. /\ IsFiniteSet(Source.recipes) /\ IsFiniteSet(Target.recipes)
        /\ \A i \in DOMAIN Source.reverse :
              Source.reverse[i] \in Source.recipes /\ Source.reverse[i].result = i
        /\ \A i \in DOMAIN Target.reverse :
              Target.reverse[i] \in Target.recipes /\ Target.reverse[i].result = i
        /\ Known(Source) \subseteq Items /\ Known(Target) \subseteq Items
    BY WholeParts DEF Ready
  <2> DEFINE U == Source.recipes \union Target.recipes
             f == [r \in U |-> r.result]
             E == {f[r] : r \in DOMAIN f}
             F == E \union ({Source.archive} \union {Target.archive})
  <2>2. IsFiniteSet(U) BY <2>1, FS_Union
  <2>3. E = {r.result : r \in U} OBVIOUS
  <2>4. IsFiniteSet(DOMAIN f) BY <2>2
  <2> HIDE DEF f
  <2>5. IsFiniteSet(E) BY <2>4, FiniteRange
  <2>6. IsFiniteSet({Source.archive} \union {Target.archive}) BY FS_Singleton, FS_Union
  <2>7. Known(Source) \union Known(Target) \subseteq F BY <2>1, <2>3 DEF Known
  <2> HIDE DEF E
  <2>8. IsFiniteSet(F) BY <2>5, <2>6, FS_Union
  <2>9. Needed \ {Inline} \subseteq Known(Source) \union Known(Target)
    BY CoveredIs DEF Needed, Bare
  <2> HIDE DEF F
  <2>10. IsFiniteSet(Needed \ {Inline}) BY <2>7, <2>8, <2>9, FS_Subset
  <2> QED BY <2>1, <2>9, <2>10 DEF ItemSets
<1>3. /\ Assets \in Seq(Items)
      /\ \A x \in DeltaItems : \E i \in 1 .. Len(Assets) : Assets[i] = x
  <2> DEFINE D == DeltaItems
  <2>1. D \in ItemSets BY <1>1
  <2> HIDE DEF D
  <2>2. /\ ByLength(D) \in Seq(Items)
        /\ \A x \in D : \E i \in 1 .. Len(ByLength(D)) : ByLength(D)[i] = x
    BY <2>1, SortedItems
  <2> QED BY <2>2 DEF D, Assets
<1>4. /\ Remaining \in Seq(Items)
      /\ \A x \in Needed \ {Inline} : \E i \in 1 .. Len(Remaining) : Remaining[i] = x
      /\ \A i \in 1 .. Len(Remaining) : Remaining[i] \in Needed \ {Inline}
  <2> DEFINE D == Needed \ {Inline}
  <2>1. D \in ItemSets BY <1>2
  <2> HIDE DEF D
  <2>2. /\ ByLength(D) \in Seq(Items)
        /\ \A x \in D : \E i \in 1 .. Len(ByLength(D)) : ByLength(D)[i] = x
        /\ \A i \in 1 .. Len(ByLength(D)) : ByLength(D)[i] \in D
    BY <2>1, SortedItems
  <2> QED BY <2>2 DEF D, Remaining
<1> QED BY <1>3, <1>4

-----------------------------------------------------------------------------
(* What CreateDiffRecipes promises.                                        *)

\* What the source is known to hold is not needed: it has a recipe.
LEMMA NeededIs ==
  ASSUME Ready, Source.archive \in DOMAIN Source.forward
  PROVE  Needed \intersect Known(Source) = {} /\ Needed \subseteq Known(Target)
<1>1. \A i \in DOMAIN Source.reverse : Source.reverse[i].result = i
  BY WholeParts DEF Ready
<1>2. DOMAIN Source.reverse \subseteq Results(BeforeSearch)
  BY <1>1, Before DEF Results, Range
<1>3. Needed \intersect Known(Source) = {} BY <1>2 DEF Needed, Bare, Known
<1>4. Needed \subseteq Known(Source) \union Known(Target) BY CoveredIs DEF Needed, Bare
<1> QED BY <1>3, <1>4

\* What is needed can be extracted, and no slice is one of itself.
LEMMA NothingThrows ==
  ASSUME Ready, Source.archive \in DOMAIN Source.forward, <<>> \notin Known(Target)
  PROVE  ~NewDiff.throws
<1>1. ToSet(Remaining) \subseteq Known(Target)
  <2>1. /\ Remaining \in Seq(Items)
        /\ \A i \in 1 .. Len(Remaining) : Remaining[i] \in Needed
    BY Lists
  <2>2. DOMAIN Remaining = 1 .. Len(Remaining) BY <2>1
  <2> QED BY <2>1, <2>2, NeededIs DEF ToSet
<1>2. CanExtract(Target, ToSet(Remaining)) BY <1>1, KnownIsExtractable DEF Ready
<1>3. ASSUME NEW r \in Slices PROVE ~SelfReferential(r)
  <2>1. \A item, offset, whole :
           /\ Slice(item, offset, whole).result = item
           /\ Slice(item, offset, whole).items = <<whole>>
           /\ SelfReferential(Slice(item, offset, whole)) <=> item = whole
    BY DEF Slice, Recipe, SelfReferential, ToSet
  <2>2. CASE r \in InlineSlices(Assets)
    <3>1. PICK i \in DOMAIN Assets : r = Slice(Assets[i], Offsets(Assets)[i], Inline)
      BY <2>2 DEF InlineSlices, SlicesOf, Inline
    <3>2. r.result # r.items[1] BY <2>2 DEF InlineSlices
    <3>3. Assets[i] # Inline BY <2>1, <3>1, <3>2
    <3> QED BY <2>1, <3>1, <3>3
  <2>3. CASE r \in RemainderSlices(Remaining)
    <3>1. r \in SlicesOf(Remaining, Remainder) /\ ~(Len(Remaining) <= 1)
      BY <2>3 DEF RemainderSlices, Remainder
    <3>2. PICK i \in DOMAIN Remaining :
            r = Slice(Remaining[i], Offsets(Remaining)[i], Remainder)
      BY <3>1 DEF SlicesOf
    <3>3. /\ Remaining \in Seq(Items)
          /\ \A j \in 1 .. Len(Remaining) : Remaining[j] \in Needed
      BY Lists
    <3>4. DOMAIN Remaining = 1 .. Len(Remaining) /\ Len(Remaining) > 1 BY <3>1, <3>3
    <3>5. \A j \in 1 .. Len(Remaining) : Remaining[j] # <<>> BY <3>3, NeededIs
    <3>6. Remaining[i] # Remainder
      BY <3>2, <3>3, <3>4, <3>5, WholeIsLonger DEF Remainder
    <3> QED BY <2>1, <3>2, <3>6
  <2> QED BY <2>2, <2>3 DEF Slices
<1> QED BY <1>2, <1>3, NewDiffIs

-----------------------------------------------------------------------------
(* The diff rebuilds the target.                                           *)

\* A part as long as the whole is the whole.
LEMMA WholeOfItself ==
  ASSUME NEW w \in Items, NEW a \in Nat, NEW x \in Items,
         a + Len(x) <= Len(w), SubSeq(w, a + 1, a + Len(x)) = x, Len(x) = Len(w)
  PROVE  x = w
<1> DEFINE n == Len(w)
<1>1. n \in Nat BY DEF Items
<1>2. a = 0
  <2> HIDE DEF n
  <2>1. a + n <= n BY DEF n
  <2> QED BY <1>1, <2>1
<1>3. \A p \in 1 .. n : x[p] = w[a + p]
  <2>1. a + n <= Len(w) /\ SubSeq(w, a + 1, a + n) = x OBVIOUS
  <2> HIDE DEF n
  <2>2. \A p \in 1 .. n : SubSeq(w, a + 1, a + n)[p] = w[a + p]
    BY <1>1, <2>1, Within
  <2> QED BY <2>1, <2>2
<1>4. \A p \in 1 .. n : x[p] = w[p] BY <1>1, <1>2, <1>3
<1>5. x = [p \in 1 .. n |-> x[p]] /\ w = [p \in 1 .. n |-> w[p]] BY DEF Items
<1> HIDE DEF n
<1> QED BY <1>4, <1>5

\* A slice of a list is what it says.
LEMMA SlicesMake ==
  ASSUME NEW list \in Seq(Items), NEW r \in SlicesOf(list, FlattenSeq(list))
  PROVE  Makes(r)
<1>1. PICK i \in DOMAIN list :
        r = Slice(list[i], Offsets(list)[i], FlattenSeq(list))
  BY DEF SlicesOf
<1> DEFINE w == FlattenSeq(list)
           o == Len(FlattenSeq(SubSeq(list, 1, i - 1)))
           x == list[i]
<1>2. i \in 1 .. Len(list) OBVIOUS
<1>3. o + Len(x) <= Len(w) /\ SubSeq(w, o + 1, o + Len(x)) = x BY <1>2, FlattenHolds
<1>4. Offsets(list)[i] = o BY DEF Offsets
<1> HIDE DEF w, o, x
<1>5. r = Slice(x, o, w) BY <1>1, <1>4 DEF w, x
<1>6. /\ r.kind = "slice" /\ r.result = x /\ r.numbers = <<o>> /\ r.items = <<w>>
  BY <1>5 DEF Slice, Recipe
<1>7. SliceMakes(r) BY <1>3, <1>6 DEF SliceMakes
<1> QED BY <1>6, <1>7 DEF Makes

\* Every recipe of the diff is true: it makes its result of its ingredients.
LEMMA RecipesTrue ==
  ASSUME Ready, NEW r \in Recipes \union Slices
  PROVE  Makes(r)
<1>1. \A u \in Source.recipes \union Target.recipes : Makes(u) BY WholeParts DEF Ready
<1>2. CASE r \in DeltaRecipes
  <2>1. /\ r.kind = "bspatch_decompression"
        /\ r.items = <<DeltaOf(catalog[r.result], r.result), catalog[r.result]>>
    BY <1>2, Deltas
  <2>2. PatchMakes(r) BY <2>1 DEF PatchMakes, GetDeltaItem, GetDeltaBasis
  <2> QED BY <2>1, <2>2 DEF Makes
<1>3. CASE r \in Recipes /\ r \notin DeltaRecipes
  <2>1. /\ \A i \in DOMAIN Source.forward : Source.forward[i] \in Source.recipes
        /\ \A i \in DOMAIN Source.reverse : Source.reverse[i] \in Source.recipes
        /\ \A i \in DOMAIN Target.forward : Target.forward[i] \in Target.recipes
    BY WholeParts DEF Ready
  <2>2. r \in Source.recipes \union Target.recipes
    BY <1>3, <2>1, Before DEF Recipes, FromSource
  <2> QED BY <1>1, <2>2
<1>4. CASE r \in Slices
  <2>1. Assets \in Seq(Items) /\ Remaining \in Seq(Items) BY Lists
  <2>2. r \in SlicesOf(Assets, FlattenSeq(Assets))
        \/ r \in SlicesOf(Remaining, FlattenSeq(Remaining))
    BY <1>4 DEF Slices, InlineSlices, RemainderSlices
  <2> QED BY <2>1, <2>2, SlicesMake
<1> QED BY <1>2, <1>3, <1>4

\* The diff has finitely many recipes.
LEMMA FiniteSlices ==
  ASSUME Ready
  PROVE  IsFiniteSet(Recipes \union Slices)
<1>1. ASSUME NEW list \in Seq(Items), NEW w PROVE IsFiniteSet(SlicesOf(list, w))
  <2> DEFINE f == [i \in DOMAIN list |-> Slice(list[i], Offsets(list)[i], w)]
  <2>1. IsFiniteSet(DOMAIN f) BY FiniteParts
  <2>2. SlicesOf(list, w) = {f[i] : i \in DOMAIN f} BY DEF SlicesOf
  <2> HIDE DEF f
  <2> QED BY <2>1, <2>2, FiniteRange
<1>2. Assets \in Seq(Items) /\ Remaining \in Seq(Items) BY Lists
<1>3. Slices \subseteq SlicesOf(Assets, Inline) \union SlicesOf(Remaining, Remainder)
  BY DEF Slices, InlineSlices, RemainderSlices, Inline, Remainder
<1>4. IsFiniteSet(SlicesOf(Assets, Inline)) /\ IsFiniteSet(SlicesOf(Remaining, Remainder))
  BY <1>1, <1>2
<1>5. IsFiniteSet(Slices) BY <1>3, <1>4, FS_Union, FS_Subset
<1> QED BY <1>5, Selected, FS_Union

\* Who has the source, the inline assets and the remainder makes the target.
\* From the target on, what the search covers and has no recipe comes of the
\* source or is carried; the rest follows as the forward recipes put the
\* archive together.
LEMMA Rebuilt ==
  ASSUME Ready
  PROVE  Target.archive
            \in Made({Source.archive, Inline, Remainder}, Recipes \union Slices)
<1> DEFINE R == Recipes \union Slices
           M == Made({Source.archive, Inline, Remainder}, R)
<1>1. \A r \in R : ToSet(r.items) \subseteq M => r.result \in M
  BY FiniteSlices, MadeClosed
<1>2. {Source.archive, Inline, Remainder} \subseteq M BY FiniteSlices, MadeHolds
<1>3. \A x : ToSet(<<x>>) = {x} BY DEF ToSet
<1>4. Known(Source) \subseteq M
  <2>1. Range(Source.reverse) \subseteq R BY Before DEF Recipes
  <2>2. Source.archive \in M BY <1>2
  <2> QED BY <2>1, <2>2, FiniteSlices, ReverseMakes DEF Ready
<1> HIDE DEF M
<1>5. \A r \in Slices : ToSet(r.items) \subseteq M => r.result \in M BY <1>1
<1>6. DeltaItems \subseteq M
  <2> SUFFICES ASSUME NEW x \in DeltaItems PROVE x \in M OBVIOUS
  <2>1. Assets \in Seq(Items) BY Lists
  <2>2. PICK i \in 1 .. Len(Assets) : Assets[i] = x BY Lists
  <2> DEFINE o == Offsets(Assets)[i]
             r == Slice(x, o, Inline)
  <2>3. i \in DOMAIN Assets BY <2>1
  <2>4. o = Len(FlattenSeq(SubSeq(Assets, 1, i - 1))) BY <2>3 DEF Offsets
  <2>5. /\ Inline \in Items /\ o \in Nat /\ x \in Items
        /\ o + Len(x) <= Len(Inline) /\ SubSeq(Inline, o + 1, o + Len(x)) = x
    <3>1. /\ FlattenSeq(Assets) \in Items
          /\ Len(FlattenSeq(SubSeq(Assets, 1, i - 1))) \in Nat
          /\ Len(FlattenSeq(SubSeq(Assets, 1, i - 1))) + Len(Assets[i]) <= Len(FlattenSeq(Assets))
          /\ SubSeq(FlattenSeq(Assets), Len(FlattenSeq(SubSeq(Assets, 1, i - 1))) + 1,
                    Len(FlattenSeq(SubSeq(Assets, 1, i - 1))) + Len(Assets[i])) = Assets[i]
      BY <2>1, FlattenHolds
    <3>2. Assets[i] \in Items BY <2>1
    <3> HIDE DEF o
    <3> QED BY <2>2, <2>4, <3>1, <3>2 DEF Inline
  <2>6. r \in SlicesOf(Assets, Inline) BY <2>2, <2>3 DEF SlicesOf
  <2>7. r.result = x /\ r.items = <<Inline>> BY DEF Slice, Recipe
  <2> HIDE DEF o, r
  <2>8. CASE Len(x) = Len(Inline)
    BY <1>2, <2>5, <2>8, WholeOfItself
  <2>9. CASE Len(x) # Len(Inline)
    <3>1. r \in Slices BY <2>6, <2>7, <2>9 DEF Slices, InlineSlices, Inline
    <3>2. ToSet(r.items) = {Inline} BY <1>3, <2>7
    <3>3. ToSet(r.items) \subseteq M BY <1>2, <3>2
    <3>4. r.result \in M BY <1>5, <3>1, <3>3
    <3> QED BY <2>7, <3>4
  <2> QED BY <2>8, <2>9
<1>7. Results(DeltaRecipes) \subseteq M
  <2> SUFFICES ASSUME NEW r \in DeltaRecipes PROVE r.result \in M BY DEF Results
  <2>1. /\ catalog[r.result] \in Known(Source)
        /\ r.items = <<DeltaOf(catalog[r.result], r.result), catalog[r.result]>>
    BY Deltas
  <2>2. GetDeltaItem(r) \in M BY <1>6 DEF DeltaItems
  <2>3. ToSet(r.items) = {GetDeltaItem(r), catalog[r.result]}
    BY <2>1 DEF ToSet, GetDeltaItem
  <2>4. r \in R BY Before DEF Recipes
  <2> QED BY <1>1, <1>4, <2>1, <2>2, <2>3, <2>4
<1>8. Needed \subseteq M
  <2> SUFFICES ASSUME NEW x \in Needed, x # Inline PROVE x \in M BY <1>2
  <2>1. Remaining \in Seq(Items) BY Lists
  <2>2. PICK i \in 1 .. Len(Remaining) : Remaining[i] = x BY Lists
  <2>3. CASE Len(Remaining) = 1
    BY <1>2, <2>1, <2>2, <2>3, FlattenOne DEF Remainder
  <2>4. CASE Len(Remaining) # 1
    <3>1. Len(Remaining) \in Nat /\ ~(Len(Remaining) <= 1) /\ i \in DOMAIN Remaining
      <4>1. Len(Remaining) \in Nat /\ DOMAIN Remaining = 1 .. Len(Remaining) BY <2>1
      <4> DEFINE n == Len(Remaining)
      <4>2. n \in Nat /\ n # 1 /\ i \in 1 .. n BY <2>2, <2>4, <4>1
      <4> HIDE DEF n
      <4>3. ~(n <= 1) BY <4>2
      <4> QED BY <2>2, <4>1, <4>3 DEF n
    <3> DEFINE r == Slice(x, Offsets(Remaining)[i], Remainder)
    <3>2. r \in SlicesOf(Remaining, Remainder) BY <2>2, <3>1 DEF SlicesOf
    <3>3. r.result = x /\ r.items = <<Remainder>> BY DEF Slice, Recipe
    <3>4. r \in Slices BY <3>1, <3>2 DEF Slices, RemainderSlices, Remainder
    <3> HIDE DEF r
    <3>5. ToSet(r.items) = {Remainder} BY <1>3, <3>3
    <3>6. ToSet(r.items) \subseteq M BY <1>2, <3>5
    <3>7. r.result \in M BY <1>5, <3>4, <3>6
    <3> QED BY <3>3, <3>7
  <2> QED BY <2>3, <2>4
<1>9. Bare \subseteq M
  <2> SUFFICES ASSUME NEW x \in Bare, x \in DOMAIN Source.forward PROVE x \in M
    BY <1>8 DEF Needed
  <2>1. /\ ToSet(Source.forward[x].items) \subseteq DOMAIN Source.reverse
        /\ Source.forward[x].result = x
    BY WholeParts DEF Ready
  <2>2. Source.forward[x] \in R BY DEF FromSource, Recipes
  <2> QED BY <1>1, <1>4, <2>1, <2>2 DEF Known
<1>10. \A x \in Covered : x \in DOMAIN Target.forward \/ x \in M
  <2> SUFFICES ASSUME NEW x \in Covered, x \notin DOMAIN Target.forward PROVE x \in M
    OBVIOUS
  <2>1. CASE x \in Bare BY <1>9, <2>1
  <2>2. CASE x \in Results(BeforeSearch)
    <3>1. PICK r \in BeforeSearch : r.result = x BY <2>2 DEF Results
    <3>2. r \in DeltaRecipes \/ x \in DOMAIN Source.reverse BY <3>1, Before
    <3> QED BY <1>4, <1>7, <3>1, <3>2 DEF Results, Known
  <2> QED BY <2>1, <2>2 DEF Bare
<1> DEFINE F == Target.forward
           S == {i \in DOMAIN F \union Parts(Target) : i \in Covered => i \in M}
<1>11. DOMAIN F \subseteq S
  <2>1. Parts(Target) \ DOMAIN F \subseteq S BY <1>10
  <2>2. ASSUME NEW r \in Range(F), ToSet(r.items) \subseteq S PROVE r.result \in S
    <3>1. PICK i \in DOMAIN F : r = F[i] BY DEF Range
    <3>2. r.result = i /\ r \in Target.recipes /\ ~IsDeltaRecipe(r)
      BY <3>1, WholeParts DEF Ready
    <3>3. ASSUME i \in Covered PROVE i \in M
      <4>1. CASE i \in Results(DeltaRecipes) BY <1>7, <4>1
      <4>2. CASE i \in DOMAIN Source.reverse BY <1>4, <4>2 DEF Known
      <4>3. CASE r \in BeforeSearch
        <5>1. Ingredients(r) \subseteq Covered BY <3>2, <3>3, <4>3, CoveredIs
        <5>2. ToSet(r.items) \subseteq Covered BY <3>2, <5>1 DEF Ingredients
        <5>3. ToSet(r.items) \subseteq M BY <2>2, <5>2
        <5>4. r \in R BY <4>3 DEF Recipes
        <5> QED BY <1>1, <3>2, <5>3, <5>4
      <4> QED BY <3>1, <4>1, <4>2, <4>3, Before
    <3> QED BY <3>2, <3>3
  <2>3. IsFiniteSet(Range(F)) BY WholeParts DEF Ready
  <2>4. DOMAIN F \subseteq Made(Parts(Target) \ DOMAIN F, Range(F))
    BY DEF Ready, Whole
  <2> HIDE DEF S, F
  <2>5. Made(Parts(Target) \ DOMAIN F, Range(F)) \subseteq S
    BY <2>1, <2>2, <2>3, MadeLeast
  <2> QED BY <2>4, <2>5
<1>12. Target.archive \in Covered BY CoveredIs
<1> QED BY <1>10, <1>11, <1>12 DEF M

-----------------------------------------------------------------------------
(* The stages.                                                             *)

\* The stages that work with the tokens.
Tokened == {"analyze", "select", "extract", "deltas", "recipes", "write",
            "verify", "summarize"}

\* What was tokenized is what is promised.
LEMMA TokensAreWhole ==
  ASSUME FolderInv, stage \in Tokened
  PROVE  \A s \in Sides : /\ tokens[s] = TokensOf[s][archives[s]]
                          /\ ~tokens[s].thrown
                          /\ Whole(tokens[s]) /\ tokens[s].archive = archives[s]
                          /\ archives[s] \in Items
<1>1. Running /\ stage \notin {"idle", "tokenize", "done"} BY DEF Tokened, Running
<1>2. PICK pair \in Pairs : archives = ArchivesOf(pair) BY <1>1 DEF FolderInv
<1> SUFFICES ASSUME NEW s \in Sides
             PROVE  /\ tokens[s] = TokensOf[s][archives[s]]
                    /\ ~tokens[s].thrown
                    /\ Whole(tokens[s]) /\ tokens[s].archive = archives[s]
                    /\ archives[s] \in Items
  OBVIOUS
<1>3. /\ tokens[s] = TokensOf[s][archives[s]]
      /\ ~TokensOf[s][archives[s]].thrown
  <2>1. SideInv(s) BY DEF FolderInv
  <2> QED BY <1>1, <2>1 DEF SideInv
<1>4. /\ archives[s] \in Seq(Int)
      /\ TokensOf[s][archives[s]].archive = archives[s]
      /\ TokensOf[s][archives[s]].thrown \/ Whole(TokensOf[s][archives[s]])
  BY <1>2, GeneratorAssumption DEF GeneratorAssumption
<1> QED BY <1>3, <1>4 DEF Items

\* What CreateDiffRecipes starts from is there.
LEMMA ReadyIs ==
  ASSUME FolderInv, stage \in Tokened,
         \A t \in DOMAIN catalog : catalog[t] \in Known(Source)
  PROVE  /\ Ready
         /\ Source.archive = archives["source"] /\ Target.archive = archives["target"]
<1>1. "source" \in Sides /\ "target" \in Sides BY DEF Sides
<1> QED BY <1>1, TokensAreWhole DEF Ready, Source, Target

\* The diff rebuilds the archive, and its recipes are true.
Rebuilds(d) ==
    /\ archives["target"] \in Made(Stock(d), d.recipes)
    /\ \A r \in d.recipes : Makes(r)

\* The inductive invariant of the stages: what each leaves to the next.
StageInv ==
    /\ stage \in {"extract", "deltas"} =>
          /\ DOMAIN plans \subseteq Known(Target)
          /\ \A t \in DOMAIN plans : plans[t] \subseteq Known(Source)
    /\ stage \in {"recipes", "write"} =>
          \A t \in DOMAIN catalog : catalog[t] \in Known(Source)
    /\ stage \in {"write", "verify"} => Rebuilds(diff)
    /\ stage = "verify" => output = <<[target |-> archives["target"], diff |-> diff]>>
    /\ failure # "verify"

\* A step that ends a run, or that is not of a stage with a diff.
LEMMA EndsKeepStage ==
  ASSUME StageInv,
         stage' \in {"idle", "tokenize", "analyze", "select", "summarize", "done"},
         failure' # "verify"
  PROVE  StageInv'
BY DEF StageInv

\* What SelectItemsForDelta plans is of the archives.
LEMMA PlansSelected ==
  ASSUME FolderInv, Enters("select"), SelectItemsForDelta
  PROVE  /\ DOMAIN plans' \subseteq Known(Target)
         /\ \A t \in DOMAIN plans' : plans'[t] \subseteq Known(Source)
<1>1. stage \in Tokened BY DEF Enters, Tokened
<1>2. /\ Whole(Source) /\ Source.archive \in Items
      /\ Whole(Target) /\ Target.archive \in Items
  <2>1. "source" \in Sides /\ "target" \in Sides BY DEF Sides
  <2> QED BY <1>1, <2>1, TokensAreWhole DEF Source, Target
<1>3. GetPayloadItems(Target) \subseteq Known(Target) BY <1>2, WholeParts
<1>4. plans' = DeltaPlans BY DEF SelectItemsForDelta
<1> DEFINE D == {t \in GetPayloadItems(Target) : PlansOf(t) # {}}
<1>5. plans' = [t \in D |-> PlansOf(t)] BY <1>4 DEF DeltaPlans
<1>6. \A t : PlansOf(t) \subseteq Known(Source) BY <1>2, PlansKnown
<1>7. DOMAIN plans' = D /\ \A t \in D : plans'[t] = PlansOf(t) BY <1>5
<1>8. D \subseteq Known(Target) BY <1>3
<1> HIDE DEF D
<1> QED BY <1>6, <1>7, <1>8

\* What is planned can be extracted.
LEMMA PlansExtract ==
  ASSUME FolderInv, StageInv, Enters("extract")
  PROVE  /\ CanExtract(Source, UNION {plans[t] : t \in DOMAIN plans})
         /\ CanExtract(Target, DOMAIN plans)
<1>1. stage \in Tokened /\ stage = "extract" BY DEF Enters, Tokened
<1>2. /\ Whole(Source) /\ Source.archive \in Items
      /\ Whole(Target) /\ Target.archive \in Items
  <2>1. "source" \in Sides /\ "target" \in Sides BY DEF Sides
  <2> QED BY <1>1, <2>1, TokensAreWhole DEF Source, Target
<1>3. /\ DOMAIN plans \subseteq Known(Target)
      /\ UNION {plans[t] : t \in DOMAIN plans} \subseteq Known(Source)
  BY <1>1 DEF StageInv
<1> QED BY <1>2, <1>3, KnownIsExtractable

\* The diff that CreateDiffRecipes makes.
LEMMA NewDiffRebuilds ==
  ASSUME FolderInv, StageInv, Enters("recipes")
  PROVE  Rebuilds(NewDiff.made)
<1>1. stage \in Tokened /\ stage = "recipes" BY DEF Enters, Tokened
<1>2. /\ Ready
      /\ Source.archive = archives["source"] /\ Target.archive = archives["target"]
  BY <1>1, ReadyIs DEF StageInv
<1>3. /\ NewDiff.made.recipes = Recipes \union Slices
      /\ NewDiff.made.inline = Inline /\ NewDiff.made.remainder = Remainder
  BY <1>2, NewDiffIs
<1>4. Stock(NewDiff.made) = {Source.archive, Inline, Remainder}
  BY <1>2, <1>3 DEF Stock
<1>5. Target.archive \in Made({Source.archive, Inline, Remainder}, Recipes \union Slices)
  BY <1>2, Rebuilt
<1>6. \A r \in Recipes \union Slices : Makes(r) BY <1>2, RecipesTrue
<1> QED BY <1>2, <1>3, <1>4, <1>5, <1>6 DEF Rebuilds

\* Every step keeps StageInv.
LEMMA StagesKept ==
  ASSUME FolderInv, StageInv, [Next]_vars
  PROVE  StageInv'
<1> USE DEF kept, work, folder
<1>0. failure # "verify" BY DEF StageInv
<1>1. CASE Begin \/ Crash
  <2>1. stage' \in {"idle", "tokenize"} /\ failure' # "verify"
    BY <1>0, <1>1 DEF Begin, Crash
  <2> QED BY <2>1, EndsKeepStage
<1>2. CASE \E s \in Sides : TokenizeArchive(s)
  <2>1. stage' = "tokenize" /\ failure' # "verify"
    BY <1>0, <1>2 DEF TokenizeArchive, Stopped, ClaimFolder, WriteHash,
       FindFolder, LoadPreviousTokens, LoadArchive, CreateCookie, CloseJson,
       SupplyTokens, CloseSupplied, CookieOfSupplied, At, execution
  <2> QED BY <2>1, EndsKeepStage
<1>3. CASE Cancel \/ UNCHANGED vars
  <2>1. UNCHANGED <<stage, plans, catalog, diff, output, failure, archives, tokens>>
    BY <1>3 DEF Cancel, vars
  <2> QED BY <2>1 DEF StageInv, Rebuilds, Stock, Source, Target
<1>4. CASE Tokenized \/ SeeCancellation \/ AnalyzeArchiveTokens \/ SummarizeResults
  <2>1. stage' \in {"analyze", "select", "done"} /\ failure' # "verify"
    BY <1>0, <1>4 DEF Tokenized, SeeCancellation, AnalyzeArchiveTokens,
       SummarizeResults, Goto, Fail
  <2> QED BY <2>1, EndsKeepStage
<1>5. CASE SelectItemsForDelta
  <2>1. Enters("select") /\ stage' = "extract" /\ failure' # "verify" /\ tokens' = tokens
    BY <1>0, <1>5 DEF SelectItemsForDelta, Goto
  <2>2. /\ DOMAIN plans' \subseteq Known(Target)
        /\ \A t \in DOMAIN plans' : plans'[t] \subseteq Known(Source)
    BY <1>5, <2>1, PlansSelected
  <2> QED BY <2>1, <2>2 DEF StageInv, Source, Target
<1>6. CASE ExtractItemsForDelta
  <2>1. /\ stage = "extract" /\ stage' \in {"deltas", "done"} /\ failure' # "verify"
        /\ UNCHANGED <<tokens, plans>>
    BY <1>0, <1>6 DEF ExtractItemsForDelta, Enters, Goto, Fail
  <2> QED BY <2>1 DEF StageInv, Source, Target
<1>7. CASE CreateDeltas
  <2>1. /\ stage = "deltas" /\ stage' = "recipes" /\ failure' # "verify"
        /\ tokens' = tokens
    BY <1>0, <1>7 DEF CreateDeltas, Enters, Goto
  <2>2. PICK planned \in SUBSET DOMAIN plans :
          \E c \in [planned -> UNION {plans[t] : t \in planned}] :
             (\A t \in planned : c[t] \in plans[t]) /\ catalog' = c
    BY <1>7 DEF CreateDeltas
  <2>3. \A t \in DOMAIN catalog' : catalog'[t] \in plans[t] /\ t \in DOMAIN plans
    BY <2>2
  <2>4. \A t \in DOMAIN plans : plans[t] \subseteq Known(Source) BY <2>1 DEF StageInv
  <2>5. \A t \in DOMAIN catalog' : catalog'[t] \in Known(Source) BY <2>3, <2>4
  <2> QED BY <2>1, <2>5 DEF StageInv, Source
<1>8. CASE CreateDiffRecipes
  <2>1. /\ Enters("recipes") /\ stage = "recipes" /\ failure' # "verify"
        /\ UNCHANGED <<tokens, catalog, archives>>
        /\ stage' = "done" \/ (stage' = "write" /\ diff' = NewDiff.made)
    BY <1>0, <1>8 DEF CreateDiffRecipes, Enters, Goto, Fail
  <2>2. CASE stage' = "done" BY <2>1, <2>2, EndsKeepStage
  <2>3. CASE stage' = "write" /\ diff' = NewDiff.made
    <3>1. Rebuilds(NewDiff.made) BY <2>1, NewDiffRebuilds
    <3>2. Rebuilds(diff)' BY <2>1, <2>3, <3>1 DEF Rebuilds, Stock
    <3>3. \A t \in DOMAIN catalog' : catalog'[t] \in Known(Source)'
      BY <2>1 DEF StageInv, Source
    <3> QED BY <2>1, <2>3, <3>2, <3>3 DEF StageInv
  <2> QED BY <2>1, <2>2, <2>3
<1>9. CASE WriteDiffToDisk
  <2>1. /\ stage = "write" /\ stage' = "verify" /\ failure' # "verify"
        /\ UNCHANGED <<archives, diff>>
        /\ output' = <<[target |-> archives["target"], diff |-> diff]>>
    BY <1>0, <1>9 DEF WriteDiffToDisk, Enters, Goto
  <2> QED BY <2>1 DEF StageInv, Rebuilds, Stock
<1>10. CASE VerifyDiffOutput
  <2>1. stage = "verify" BY <1>10 DEF VerifyDiffOutput, Enters
  <2>2. /\ output[1].diff = diff /\ output[1].target = archives["target"]
        /\ Rebuilds(diff)
    BY <2>1 DEF StageInv
  <2>3. stage' = "summarize" /\ failure' # "verify"
    BY <1>0, <1>10, <2>2 DEF VerifyDiffOutput, Rebuilds, Goto
  <2> QED BY <2>3, EndsKeepStage
<1> QED BY <1>1, <1>2, <1>3, <1>4, <1>5, <1>6, <1>7, <1>8, <1>9, <1>10
    DEF Next, ExecuteTasks

\* It always holds.
LEMMA StageInvariance == Spec => []StageInv
<1>1. Init => StageInv BY DEF Init, StageInv
<1>2. FolderInv /\ StageInv /\ [Next]_vars => StageInv' BY StagesKept
<1> QED BY <1>1, <1>2, FolderInvariance, PTL DEF Spec

\* The diff rebuilds the target from the source, its inline assets and its
\* remainder, by recipes that are true, so that its verification never fails
\* (CreateDiffRecipes.cs:35-300, VerifyDiffOutput.cs:44): what the search finds
\* no recipe for is made by the source or carried, a slice or an only item of
\* the remainder, and the forward recipes of the target make the rest.
THEOREM DiffRebuilds == Spec => []DiffRebuildsTarget
<1>1. StageInv => DiffRebuildsTarget BY DEF StageInv, Rebuilds, DiffRebuildsTarget
<1> QED BY <1>1, StageInvariance, PTL

\* The hypotheses about the archives are about those of the run.
LEMMA CutAndNotEmpty ==
  ASSUME FolderInv, stage \in Tokened
  PROVE  /\ SourcesAreCut => Source.archive \in DOMAIN Source.forward
         /\ NothingEmpty => <<>> \notin Known(Target)
<1>1. "source" \in Sides /\ "target" \in Sides BY DEF Sides
<1>2. /\ Source = TokensOf["source"][archives["source"]] /\ ~Source.thrown
      /\ Target = TokensOf["target"][archives["target"]] /\ ~Target.thrown
  BY <1>1, TokensAreWhole DEF Source, Target
<1>3. Running BY DEF Running, Tokened
<1>4. PICK pair \in Pairs : archives = ArchivesOf(pair) BY <1>3 DEF FolderInv
<1>5. archives["source"] = pair[1] /\ archives["target"] = pair[2]
  BY <1>4 DEF ArchivesOf
<1> QED BY <1>2, <1>4, <1>5 DEF SourcesAreCut, NothingEmpty

\* What is planned can be extracted and what is selected laid out
\* (ExtractItemsForDelta.cs:37, CreateDiffRecipes.cs:143), if the source was cut
\* and no item of the target is empty: recipes and plans name nothing but items
\* that the reverse recipes make, and no slice is one of itself.
THEOREM StagesDoAgree ==
  ASSUME SourcesAreCut, NothingEmpty
  PROVE  Spec => []StagesAgree
<1>1. Init => StagesAgree BY DEF Init, StagesAgree
<1>2. ASSUME FolderInv, StageInv, StagesAgree, [Next]_vars PROVE StagesAgree'
  <2> USE DEF kept, work, folder
  <2>0. failure \notin {"extract", "recipes"} BY <1>2 DEF StagesAgree
  <2>1. CASE ExtractItemsForDelta
    <3>1. failure' = failure
      BY <1>2, <2>1, PlansExtract DEF ExtractItemsForDelta, Goto
    <3> QED BY <2>0, <3>1 DEF StagesAgree
  <2>2. CASE CreateDiffRecipes
    <3>1. Enters("recipes") /\ stage \in Tokened
      BY <2>2 DEF CreateDiffRecipes, Enters, Tokened
    <3>2. Ready BY <1>2, <3>1, ReadyIs DEF StageInv, Enters
    <3>3. ~NewDiff.throws BY <1>2, <3>1, <3>2, CutAndNotEmpty, NothingThrows
    <3>4. failure' = failure BY <2>2, <3>3 DEF CreateDiffRecipes, Goto
    <3> QED BY <2>0, <3>4 DEF StagesAgree
  <2>3. CASE \/ Tokenized \/ SeeCancellation \/ AnalyzeArchiveTokens
             \/ SelectItemsForDelta \/ CreateDeltas \/ WriteDiffToDisk
             \/ VerifyDiffOutput \/ SummarizeResults
    <3>1. \/ failure' = failure
          \/ failure' \in {"tokenize", "cancelled", "analyze", "verify", "summarize"}
      BY <2>3 DEF Tokenized, SeeCancellation, AnalyzeArchiveTokens,
         SelectItemsForDelta, CreateDeltas, WriteDiffToDisk, VerifyDiffOutput,
         SummarizeResults, Goto, Fail
    <3> QED BY <2>0, <3>1 DEF StagesAgree
  <2>4. CASE Begin BY <2>4 DEF Begin, StagesAgree
  <2>5. CASE Cancel \/ Crash \/ UNCHANGED vars
    BY <2>0, <2>5 DEF Cancel, Crash, vars, StagesAgree
  <2>6. CASE \E s \in Sides : TokenizeArchive(s)
    <3>1. failure' = failure
      BY <2>6 DEF TokenizeArchive, Stopped, ClaimFolder, WriteHash,
         FindFolder, LoadPreviousTokens, LoadArchive, CreateCookie, CloseJson,
       SupplyTokens, CloseSupplied, CookieOfSupplied, execution
    <3> QED BY <2>0, <3>1 DEF StagesAgree
  <2> QED BY <1>2, <2>1, <2>2, <2>3, <2>4, <2>5, <2>6 DEF Next, ExecuteTasks
<1> QED BY <1>1, <1>2, FolderInvariance, StageInvariance, PTL DEF Spec

\* Nothing is needed of the diff that can be made of the source, if that was
\* cut (Diff.SelectRecipes, Diff.cs:126-254): what the source holds has its
\* reverse recipe and is never found without one, and the source itself gets
\* its forward recipe.
THEOREM SourceIsNotNeeded ==
  ASSUME SourcesAreCut
  PROVE  Spec => [](stage \in {"recipes", "write"} =>
                       SelectRecipes.needed
                          \intersect Made({archives["source"]}, Source.recipes) = {})
<1>1. ASSUME FolderInv, StageInv, stage \in {"recipes", "write"}
      PROVE  SelectRecipes.needed
                \intersect Made({archives["source"]}, Source.recipes) = {}
  <2>1. stage \in Tokened BY <1>1 DEF Tokened
  <2>2. Ready /\ Source.archive = archives["source"] BY <1>1, <2>1, ReadyIs DEF StageInv
  <2>3. SelectRecipes.needed = Needed BY <2>2, Selected
  <2>4. Needed \intersect Known(Source) = {}
    BY <1>1, <2>1, <2>2, CutAndNotEmpty, NeededIs
  <2>5. IsFiniteSet(Source.recipes) /\ Results(Source.recipes) \subseteq Known(Source)
    BY <2>2, WholeParts DEF Ready
  <2> DEFINE K == Known(Source)
  <2>6. {Source.archive} \subseteq K BY DEF Known
  <2>7. \A r \in Source.recipes : r.result \in K BY <2>5 DEF Results
  <2> HIDE DEF K
  <2>8. Made({Source.archive}, Source.recipes) \subseteq K BY <2>5, <2>6, <2>7, MadeLeast
  <2> QED BY <2>2, <2>3, <2>4, <2>8 DEF K
<1> QED BY <1>1, FolderInvariance, StageInvariance, PTL

=============================================================================

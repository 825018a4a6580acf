--------------------------- MODULE ReadersProofs ---------------------------
(***************************************************************************)
(* Prepared items are read as they are, for all items that                 *)
(* ReadersAssumption admits: of any size, nested to any depth, read by any *)
(* calls.                                                                  *)
(***************************************************************************)
EXTENDS Readers, SequenceTheorems, WellFoundedInduction, TLAPS

-----------------------------------------------------------------------------
(* Induction.                                                              *)

\* A set of natural numbers that is not empty has a least one.
LEMMA LeastNumber ==
  ASSUME NEW T, T \subseteq Nat, T # {}
  PROVE  \E m \in T : \A n \in T : m <= n
<1>1. PICK m \in T : \A n \in T : ~(<<n, m>> \in OpToRel(<, Nat))
  BY NatLessThanWellFounded, WFMin
<1>2. \A n \in T : ~(n < m) BY <1>1 DEF OpToRel
<1> QED BY <1>2

\* A set that holds 0 and with each number the next holds them all.
LEMMA EveryNumber ==
  ASSUME NEW T, 0 \in T, \A n \in Nat : n \in T => n + 1 \in T
  PROVE  Nat \subseteq T
<1> SUFFICES ASSUME Nat \ T # {} PROVE FALSE OBVIOUS
<1>1. PICK m \in Nat \ T : \A n \in Nat \ T : m <= n BY LeastNumber
<1>2. m # 0 /\ m - 1 \in Nat /\ m - 1 < m BY <1>1
<1>3. m - 1 \in T BY <1>1, <1>2
<1>4. (m - 1) + 1 = m BY <1>1
<1> QED BY <1>1, <1>2, <1>3, <1>4

\* The same up to a number.
LEMMA EveryNumberTo ==
  ASSUME NEW n \in Nat, NEW T, 0 \in T, \A k \in 1 .. n : k - 1 \in T => k \in T
  PROVE  0 .. n \subseteq T
<1> DEFINE U == {k \in Nat : k <= n => k \in T}
<1>1. 0 \in U OBVIOUS
<1>2. ASSUME NEW k \in Nat, k \in U PROVE k + 1 \in U
  <2>1. CASE k + 1 <= n
    <3>1. k + 1 \in 1 .. n /\ (k + 1) - 1 = k /\ k <= n BY <2>1
    <3>2. k \in T BY <1>2, <3>1
    <3>3. k + 1 \in T BY <3>1, <3>2
    <3> QED BY <3>3
  <2>2. CASE ~(k + 1 <= n) BY <2>2
  <2> QED BY <2>1, <2>2
<1> HIDE DEF U
<1>3. Nat \subseteq U BY <1>1, <1>2, EveryNumber
<1> QED BY <1>3 DEF U

LEMMA SumsRegroup ==
  ASSUME NEW a \in Nat, NEW b \in Nat, NEW c \in Nat
  PROVE  (a + b) + c = a + (b + c)
OBVIOUS

-----------------------------------------------------------------------------
(* Bytes.                                                                  *)

LEMMA BytesAre ==
  ASSUME NEW b \in Seq(Nat), NEW o \in Nat, NEW n \in Nat
  PROVE  /\ Bytes(b, o, n) \in Seq(Nat)
         /\ Len(Bytes(b, o, n)) = IF o >= Len(b) THEN 0 ELSE LeastOf(n, Len(b) - o)
         /\ \A k \in 1 .. Len(Bytes(b, o, n)) : Bytes(b, o, n)[k] = b[o + k]
<1> DEFINE l == LeastOf(o + n, Len(b))
<1>1. Len(b) \in Nat /\ \A k \in 1 .. Len(b) : b[k] \in Nat BY LenProperties, ElementOfSeq
<1>2. l \in Nat /\ l <= Len(b) /\ l <= o + n /\ (l = Len(b) \/ l = o + n)
  BY <1>1 DEF LeastOf
<1> HIDE DEF l
<1>3. \A i \in o + 1 .. l : b[i] \in Nat BY <1>1, <1>2
<1>4. /\ SubSeq(b, o + 1, l) \in Seq(Nat)
      /\ Len(SubSeq(b, o + 1, l)) = IF o + 1 <= l THEN l - (o + 1) + 1 ELSE 0
      /\ \A i \in 1 .. l - (o + 1) + 1 : SubSeq(b, o + 1, l)[i] = b[(o + 1) + i - 1]
  <2>1. o + 1 \in Int /\ l \in Int BY <1>2
  <2> QED BY <1>3, <2>1, SubSeqProperties
<1>5. Bytes(b, o, n) = SubSeq(b, o + 1, l) BY DEF Bytes, l
<1>6. (IF o + 1 <= l THEN l - (o + 1) + 1 ELSE 0)
         = IF o >= Len(b) THEN 0 ELSE LeastOf(n, Len(b) - o)
  BY <1>1, <1>2 DEF LeastOf
<1>7. ASSUME NEW k \in 1 .. Len(Bytes(b, o, n)) PROVE Bytes(b, o, n)[k] = b[o + k]
  <2>1. k \in 1 .. l - (o + 1) + 1 /\ (o + 1) + k - 1 = o + k BY <1>2, <1>4, <1>5
  <2> QED BY <1>4, <1>5, <2>1
<1> QED BY <1>4, <1>5, <1>6, <1>7

\* As many as are asked for, when there are as many.
LEMMA BytesWithin ==
  ASSUME NEW b \in Seq(Nat), NEW o \in Nat, NEW n \in Nat, o + n <= Len(b)
  PROVE  /\ Bytes(b, o, n) \in Seq(Nat) /\ Len(Bytes(b, o, n)) = n
         /\ \A k \in 1 .. n : Bytes(b, o, n)[k] = b[o + k]
<1>1. /\ Bytes(b, o, n) \in Seq(Nat)
      /\ Len(Bytes(b, o, n)) = IF o >= Len(b) THEN 0 ELSE LeastOf(n, Len(b) - o)
      /\ \A k \in 1 .. Len(Bytes(b, o, n)) : Bytes(b, o, n)[k] = b[o + k]
  BY BytesAre
<1>2. (IF o >= Len(b) THEN 0 ELSE LeastOf(n, Len(b) - o)) = n
  <2>1. Len(b) \in Nat BY LenProperties
  <2> QED BY <2>1 DEF LeastOf
<1> QED BY <1>1, <1>2

LEMMA NoBytes ==
  ASSUME NEW b \in Seq(Nat), NEW o \in Nat, NEW n \in Nat, o >= Len(b) \/ n = 0
  PROVE  Bytes(b, o, n) = <<>>
<1>1. /\ Bytes(b, o, n) \in Seq(Nat)
      /\ Len(Bytes(b, o, n)) = IF o >= Len(b) THEN 0 ELSE LeastOf(n, Len(b) - o)
  BY BytesAre
<1>2. (IF o >= Len(b) THEN 0 ELSE LeastOf(n, Len(b) - o)) = 0
  <2>1. Len(b) \in Nat BY LenProperties
  <2> QED BY <2>1 DEF LeastOf
<1>3. Len(Bytes(b, o, n)) = 0 BY <1>1, <1>2
<1> QED BY <1>1, <1>3, EmptySeq

\* Only what is there is got.
LEMMA BytesToTheEnd ==
  ASSUME NEW b \in Seq(Nat), NEW o \in Nat, NEW m \in Nat, NEW n \in Nat,
         m = n \/ (o + m >= Len(b) /\ o + n >= Len(b))
  PROVE  Bytes(b, o, m) = Bytes(b, o, n)
<1>1. Len(b) \in Nat BY LenProperties
<1>2. LeastOf(o + m, Len(b)) = LeastOf(o + n, Len(b)) BY <1>1 DEF LeastOf
<1> QED BY <1>2 DEF Bytes

\* There always are some that are there, and they are all that there are.
LEMMA BytesGot ==
  ASSUME NEW b \in Seq(Nat), NEW o \in Nat, NEW n \in Nat, o <= Len(b)
  PROVE  \E m \in Nat :
            /\ m <= n /\ o + m <= Len(b) /\ (m = n \/ o + m = Len(b))
            /\ Bytes(b, o, n) = Bytes(b, o, m) /\ Len(Bytes(b, o, n)) = m
<1>1. Len(b) \in Nat BY LenProperties
<1>2. PICK m \in Nat : m <= n /\ o + m <= Len(b) /\ (m = n \/ o + m = Len(b))
  <2>1. CASE o + n <= Len(b) BY <2>1
  <2>2. CASE ~(o + n <= Len(b))
    <3> DEFINE m == Len(b) - o
    <3>1. m \in Nat /\ m <= n /\ o + m <= Len(b) /\ o + m = Len(b) BY <1>1, <2>2
    <3> HIDE DEF m
    <3> QED BY <3>1
  <2> QED BY <2>1, <2>2
<1>3. m = n \/ (o + m >= Len(b) /\ o + n >= Len(b)) BY <1>1, <1>2
<1>4. Bytes(b, o, m) = Bytes(b, o, n) BY <1>3, BytesToTheEnd
<1>5. Len(Bytes(b, o, m)) = m BY <1>2, BytesWithin
<1> QED BY <1>2, <1>4, <1>5

LEMMA AllBytes ==
  ASSUME NEW b \in Seq(Nat)
  PROVE  Bytes(b, 0, Len(b)) = b
<1>1. Len(b) \in Nat /\ 0 + Len(b) <= Len(b) BY LenProperties
<1>2. /\ Bytes(b, 0, Len(b)) \in Seq(Nat) /\ Len(Bytes(b, 0, Len(b))) = Len(b)
      /\ \A k \in 1 .. Len(b) : Bytes(b, 0, Len(b))[k] = b[0 + k]
  BY <1>1, BytesWithin
<1>3. \A k \in 1 .. Len(b) : Bytes(b, 0, Len(b))[k] = b[k]
  <2>1. \A k \in 1 .. Len(b) : 0 + k = k BY <1>1
  <2> QED BY <1>2, <2>1
<1> QED BY <1>2, <1>3, SeqEqual

LEMMA BytesJoin ==
  ASSUME NEW b \in Seq(Nat), NEW o \in Nat, NEW m \in Nat, NEW n \in Nat,
         o + m + n <= Len(b)
  PROVE  Bytes(b, o, m) \o Bytes(b, o + m, n) = Bytes(b, o, m + n)
<1> DEFINE x == Bytes(b, o, m)
           y == Bytes(b, o + m, n)
           z == Bytes(b, o, m + n)
<1>1. /\ Len(b) \in Nat /\ o + m \in Nat /\ m + n \in Nat
  BY LenProperties
<1>0. o + m <= Len(b) /\ (o + m) + n <= Len(b) /\ o + (m + n) <= Len(b) BY <1>1
<1>2. x \in Seq(Nat) /\ Len(x) = m /\ \A k \in 1 .. m : x[k] = b[o + k]
  BY <1>0, BytesWithin
<1>3. y \in Seq(Nat) /\ Len(y) = n /\ \A k \in 1 .. n : y[k] = b[(o + m) + k]
  BY <1>0, <1>1, BytesWithin
<1>4. z \in Seq(Nat) /\ Len(z) = m + n /\ \A k \in 1 .. m + n : z[k] = b[o + k]
  BY <1>0, <1>1, BytesWithin
<1> HIDE DEF x, y, z
<1>6. /\ x \o y \in Seq(Nat) /\ Len(x \o y) = m + n
      /\ \A k \in 1 .. m + n : (x \o y)[k] = IF k <= m THEN x[k] ELSE y[k - m]
  BY <1>2, <1>3, ConcatProperties, ZenonT(30)
<1>7. ASSUME NEW k \in 1 .. m + n PROVE (x \o y)[k] = z[k]
  <2>1. CASE k <= m
    <3>1. k \in 1 .. m BY <2>1
    <3> QED BY <1>2, <1>4, <1>6, <2>1, <3>1
  <2>2. CASE ~(k <= m)
    <3>1. k - m \in 1 .. n /\ (o + m) + (k - m) = o + k BY <2>2
    <3>2. y[k - m] = b[o + k] BY <1>3, <3>1
    <3> QED BY <1>4, <1>6, <2>2, <3>2
  <2> QED BY <2>1, <2>2
<1>8. x \o y = z BY <1>4, <1>6, <1>7, SeqEqual
<1> QED BY <1>8 DEF x, y, z

\* The bytes of bytes.
LEMMA BytesOfBytes ==
  ASSUME NEW b \in Seq(Nat), NEW o \in Nat, NEW l \in Nat, o + l <= Len(b),
         NEW p \in Nat, NEW n \in Nat, p + n <= l
  PROVE  Bytes(Bytes(b, o, l), p, n) = Bytes(b, o + p, n)
<1> DEFINE x == Bytes(b, o, l)
<1>1. Len(b) \in Nat /\ o + p \in Nat /\ (o + p) + n <= Len(b) BY LenProperties
<1>2. x \in Seq(Nat) /\ Len(x) = l /\ \A k \in 1 .. l : x[k] = b[o + k]
  BY <1>1, BytesWithin
<1> HIDE DEF x
<1>3. /\ Bytes(x, p, n) \in Seq(Nat) /\ Len(Bytes(x, p, n)) = n
      /\ \A k \in 1 .. n : Bytes(x, p, n)[k] = x[p + k]
  BY <1>2, BytesWithin
<1>4. /\ Bytes(b, o + p, n) \in Seq(Nat) /\ Len(Bytes(b, o + p, n)) = n
      /\ \A k \in 1 .. n : Bytes(b, o + p, n)[k] = b[(o + p) + k]
  BY <1>1, BytesWithin
<1>5. ASSUME NEW k \in 1 .. n PROVE Bytes(x, p, n)[k] = Bytes(b, o + p, n)[k]
  <2>1. p + k \in 1 .. l /\ o + (p + k) = (o + p) + k OBVIOUS
  <2> QED BY <1>2, <1>3, <1>4, <2>1
<1>6. Bytes(x, p, n) = Bytes(b, o + p, n) BY <1>3, <1>4, <1>5, SeqEqual
<1> QED BY <1>6 DEF x

LEMMA LeastIs ==
  ASSUME NEW a \in Nat, NEW b \in Nat
  PROVE  /\ LeastOf(a, b) \in Nat /\ LeastOf(a, b) <= a /\ LeastOf(a, b) <= b
         /\ LeastOf(a, b) = a \/ LeastOf(a, b) = b
BY DEF LeastOf

-----------------------------------------------------------------------------
(* Views.                                                                  *)

Views == [device : Seq(Nat), offset : Nat, length : Nat]

\* A view of something that is there.
IsView(v) == v \in Views /\ v.length > 0 /\ v.offset + v.length <= Len(v.device)

ContentOfView(v) == Bytes(v.device, v.offset, v.length)

LEMMA ViewIs ==
  ASSUME NEW v, IsView(v)
  PROVE  /\ v.device \in Seq(Nat) /\ v.offset \in Nat /\ v.length \in Nat
         /\ v = [device |-> v.device, offset |-> v.offset, length |-> v.length]
         /\ Len(v.device) \in Nat /\ v.length > 0
         /\ v.offset + v.length <= Len(v.device)
         /\ ContentOfView(v) \in Seq(Nat) /\ Len(ContentOfView(v)) = v.length
<1>1. /\ v.device \in Seq(Nat) /\ v.offset \in Nat /\ v.length \in Nat
      /\ v = [device |-> v.device, offset |-> v.offset, length |-> v.length]
      /\ v.length > 0
      /\ v.offset + v.length <= Len(v.device)
  BY DEF IsView, Views
<1>2. Len(v.device) \in Nat BY <1>1, LenProperties
<1>3. ContentOfView(v) \in Seq(Nat) /\ Len(ContentOfView(v)) = v.length
  BY <1>1, BytesWithin DEF ContentOfView
<1> QED BY <1>1, <1>2, <1>3

LEMMA ViewOfAll ==
  ASSUME NEW b \in Seq(Nat), b # <<>>
  PROVE  IsView(View(b)) /\ ContentOfView(View(b)) = b /\ View(b).length = Len(b)
<1>1. Len(b) \in Nat \ {0} BY EmptySeq
<1>2. View(b) = [device |-> b, offset |-> 0, length |-> Len(b)] BY DEF View
<1>3. IsView(View(b)) BY <1>1, <1>2 DEF IsView, Views
<1>4. ContentOfView(View(b)) = Bytes(b, 0, Len(b)) BY <1>2 DEF ContentOfView
<1> QED BY <1>2, <1>3, <1>4, AllBytes

LEMMA SliceOfViewIs ==
  ASSUME NEW v, IsView(v), NEW o \in Nat, NEW n \in Nat, n > 0, o + n <= v.length
  PROVE  /\ IsView(SliceOfView(v, o, n)) /\ SliceOfView(v, o, n).length = n
         /\ ContentOfView(SliceOfView(v, o, n)) = Bytes(ContentOfView(v), o, n)
<1> DEFINE w == SliceOfView(v, o, n)
<1>1. /\ v.device \in Seq(Nat) /\ v.offset \in Nat /\ v.length \in Nat
      /\ v = [device |-> v.device, offset |-> v.offset, length |-> v.length]
      /\ Len(v.device) \in Nat
      /\ v.offset + v.length <= Len(v.device)
  BY ViewIs
<1>2. w = [device |-> v.device, offset |-> v.offset + o, length |-> n]
  <2>1. DOMAIN w = {"device", "offset", "length"} BY <1>1 DEF SliceOfView
  <2>2. w.device = v.device BY <1>1 DEF SliceOfView
  <2>3. w.offset = v.offset + o BY <1>1 DEF SliceOfView
  <2>4. w.length = n BY <1>1 DEF SliceOfView
  <2>5. w = [x \in DOMAIN w |-> w[x]] BY <1>1 DEF SliceOfView
  <2> HIDE DEF w
  <2> QED BY <2>1, <2>2, <2>3, <2>4, <2>5
<1>3. v.offset + o \in Nat /\ (v.offset + o) + n <= Len(v.device) BY <1>1
<1>4. IsView(w) BY <1>1, <1>2, <1>3 DEF IsView, Views
<1>5. ContentOfView(w) = Bytes(v.device, v.offset + o, n) BY <1>2 DEF ContentOfView
<1>6. Bytes(ContentOfView(v), o, n) = Bytes(v.device, v.offset + o, n)
  BY <1>1, BytesOfBytes DEF ContentOfView
<1> QED BY <1>2, <1>4, <1>5, <1>6

LEMMA ReadViewIs ==
  ASSUME NEW v, IsView(v), NEW o \in Nat, NEW n \in Nat
  PROVE  ReadView(v, o, n) = Bytes(ContentOfView(v), o, n)
<1> DEFINE c == ContentOfView(v)
<1>1. /\ v.device \in Seq(Nat) /\ v.offset \in Nat /\ v.length \in Nat
      /\ Len(v.device) \in Nat
      /\ v.offset + v.length <= Len(v.device)
      /\ c \in Seq(Nat) /\ Len(c) = v.length
  BY ViewIs
<1>2. CASE o >= v.length
  <2>1. Bytes(c, o, n) = <<>> BY <1>1, <1>2, NoBytes
  <2> QED BY <1>2, <2>1 DEF ReadView
<1>3. CASE ~(o >= v.length)
  <2> DEFINE m == LeastOf(n, v.length - o)
  <2>1. v.length - o \in Nat BY <1>1, <1>3
  <2>2. m \in Nat /\ o + m <= v.length /\ (m = n \/ (o + m >= v.length /\ o + n >= v.length))
    BY <1>1, <2>1 DEF LeastOf
  <2>3. ReadView(v, o, n) = Bytes(v.device, v.offset + o, m) BY <1>3 DEF ReadView
  <2> HIDE DEF m
  <2>4. Bytes(c, o, m) = Bytes(v.device, v.offset + o, m)
    BY <1>1, <2>2, BytesOfBytes DEF ContentOfView
  <2> HIDE DEF c
  <2>5. Bytes(c, o, m) = Bytes(c, o, n) BY <1>1, <2>2, BytesToTheEnd
  <2> QED BY <2>3, <2>4, <2>5 DEF c
<1> QED BY <1>2, <1>3

-----------------------------------------------------------------------------
(* What the recursive functions are.                                       *)

IsOffsets(f, parts, n) ==
    f = [k \in 0 .. n |-> IF k = 0 THEN 0 ELSE f[k - 1] + parts[k].length]

LEMMA OffsetsExist ==
  ASSUME NEW parts
  PROVE  \A n \in Nat : \E f : IsOffsets(f, parts, n)
<1> DEFINE Value(h, k) == IF k = 0 THEN 0 ELSE h[k - 1] + parts[k].length
           T == {n \in Nat : \E f : IsOffsets(f, parts, n)}
<1>1. 0 \in T
  <2> DEFINE g == [k \in 0 .. 0 |-> 0]
  <2>1. IsOffsets(g, parts, 0) BY DEF IsOffsets
  <2> QED BY <2>1
<1>2. ASSUME NEW n \in Nat, n \in T PROVE n + 1 \in T
  <2>1. PICK f : IsOffsets(f, parts, n) BY <1>2
  <2>2. \A k \in 0 .. n : f[k] = Value(f, k) BY <2>1 DEF IsOffsets
  <2> DEFINE g == [k \in 0 .. n + 1 |-> IF k = n + 1 THEN Value(f, k) ELSE f[k]]
  <2>3. ASSUME NEW k \in 0 .. n + 1 PROVE g[k] = Value(g, k)
    <3>1. g[k] = Value(f, k)
      <4>1. CASE k = n + 1 BY <4>1
      <4>2. CASE k # n + 1
        <5>1. k \in 0 .. n BY <4>2
        <5>2. g[k] = f[k] BY <4>2
        <5> HIDE DEF Value
        <5> QED BY <2>2, <5>1, <5>2
      <4> QED BY <4>1, <4>2
    <3>2. CASE k = 0 BY <3>1, <3>2
    <3>3. CASE k # 0
      <4>1. k - 1 \in 0 .. n /\ k - 1 # n + 1 /\ k - 1 \in 0 .. n + 1 BY <3>3
      <4>2. g[k - 1] = f[k - 1] BY <4>1
      <4> HIDE DEF g
      <4> QED BY <3>1, <4>2
    <3> QED BY <3>2, <3>3
  <2>4. g = [k \in 0 .. n + 1 |-> g[k]] OBVIOUS
  <2> HIDE DEF g
  <2>5. IsOffsets(g, parts, n + 1) BY <2>3, <2>4 DEF IsOffsets
  <2> QED BY <2>5
<1> HIDE DEF T
<1>3. Nat \subseteq T BY <1>1, <1>2, EveryNumber
<1> QED BY <1>3 DEF T

LEMMA OffsetsAre ==
  ASSUME NEW parts, Len(parts) \in Nat
  PROVE  /\ Offsets(parts)[0] = 0
         /\ \A k \in 1 .. Len(parts) : Offsets(parts)[k] = Offsets(parts)[k - 1] + parts[k].length
<1>1. \E f : IsOffsets(f, parts, Len(parts)) BY OffsetsExist
<1>2. Offsets(parts) = CHOOSE f : IsOffsets(f, parts, Len(parts)) BY DEF Offsets, IsOffsets
<1>3. IsOffsets(Offsets(parts), parts, Len(parts)) BY <1>1, <1>2
<1> QED BY <1>3 DEF IsOffsets

IsTaken(f, parts, first, within, left, n) ==
    f = [k \in 0 .. n |->
           IF k < first THEN [views |-> <<>>, left |-> left]
           ELSE TakePart(f[k - 1], parts[k], Within(first, k, within))]

LEMMA TakenExists ==
  ASSUME NEW parts, NEW first \in Nat \ {0}, NEW within, NEW left
  PROVE  \A n \in Nat : \E f : IsTaken(f, parts, first, within, left, n)
<1> DEFINE Value(h, k) ==
             IF k < first THEN [views |-> <<>>, left |-> left]
             ELSE TakePart(h[k - 1], parts[k], Within(first, k, within))
           T == {n \in Nat : \E f : IsTaken(f, parts, first, within, left, n)}
<1>1. 0 \in T
  <2> DEFINE g == [k \in 0 .. 0 |-> [views |-> <<>>, left |-> left]]
  <2>1. IsTaken(g, parts, first, within, left, 0) BY DEF IsTaken
  <2> QED BY <2>1
<1>2. ASSUME NEW n \in Nat, n \in T PROVE n + 1 \in T
  <2>1. PICK f : IsTaken(f, parts, first, within, left, n) BY <1>2
  <2>2. \A k \in 0 .. n : f[k] = Value(f, k) BY <2>1 DEF IsTaken
  <2> DEFINE g == [k \in 0 .. n + 1 |-> IF k = n + 1 THEN Value(f, k) ELSE f[k]]
  <2>3. ASSUME NEW k \in 0 .. n + 1 PROVE g[k] = Value(g, k)
    <3>1. g[k] = Value(f, k)
      <4>1. CASE k = n + 1 BY <4>1
      <4>2. CASE k # n + 1
        <5>1. k \in 0 .. n BY <4>2
        <5>2. g[k] = f[k] BY <4>2
        <5> HIDE DEF Value
        <5> QED BY <2>2, <5>1, <5>2
      <4> QED BY <4>1, <4>2
    <3>2. CASE k = 0 BY <3>1, <3>2
    <3>3. CASE k # 0
      <4>1. k - 1 \in 0 .. n /\ k - 1 # n + 1 /\ k - 1 \in 0 .. n + 1 BY <3>3
      <4>2. g[k - 1] = f[k - 1] BY <4>1
      <4> HIDE DEF g
      <4> QED BY <3>1, <4>2
    <3> QED BY <3>2, <3>3
  <2>4. g = [k \in 0 .. n + 1 |-> g[k]] OBVIOUS
  <2> HIDE DEF g
  <2>5. IsTaken(g, parts, first, within, left, n + 1) BY <2>3, <2>4 DEF IsTaken
  <2> QED BY <2>5
<1> HIDE DEF T
<1>3. Nat \subseteq T BY <1>1, <1>2, EveryNumber
<1> QED BY <1>3 DEF T

LEMMA TakePartsIs ==
  ASSUME NEW parts, Len(parts) \in Nat, NEW k \in Nat \ {0}, NEW within, NEW n
  PROVE  \E f : /\ IsTaken(f, parts, k, within, n, Len(parts))
               /\ TakeParts(parts, k, within, n) = f[Len(parts)].views
<1> DEFINE g == CHOOSE f : IsTaken(f, parts, k, within, n, Len(parts))
<1>1. \E f : IsTaken(f, parts, k, within, n, Len(parts)) BY TakenExists
<1>2. TakeParts(parts, k, within, n) = g[Len(parts)].views BY DEF TakeParts, IsTaken
<1>3. IsTaken(g, parts, k, within, n, Len(parts)) BY <1>1
<1> HIDE DEF g
<1> QED BY <1>2, <1>3

IsRead(f, parts, first, within, left, n) ==
    f = [k \in 0 .. n |->
           IF k < first THEN [got |-> <<>>, left |-> left, ended |-> FALSE]
           ELSE ReadPart(f[k - 1], parts[k], Within(first, k, within))]

LEMMA ReadExists ==
  ASSUME NEW parts, NEW first \in Nat \ {0}, NEW within, NEW left
  PROVE  \A n \in Nat : \E f : IsRead(f, parts, first, within, left, n)
<1> DEFINE Value(h, k) ==
             IF k < first THEN [got |-> <<>>, left |-> left, ended |-> FALSE]
             ELSE ReadPart(h[k - 1], parts[k], Within(first, k, within))
           T == {n \in Nat : \E f : IsRead(f, parts, first, within, left, n)}
<1>1. 0 \in T
  <2> DEFINE g == [k \in 0 .. 0 |-> [got |-> <<>>, left |-> left, ended |-> FALSE]]
  <2>1. IsRead(g, parts, first, within, left, 0) BY DEF IsRead
  <2> QED BY <2>1
<1>2. ASSUME NEW n \in Nat, n \in T PROVE n + 1 \in T
  <2>1. PICK f : IsRead(f, parts, first, within, left, n) BY <1>2
  <2>2. \A k \in 0 .. n : f[k] = Value(f, k) BY <2>1 DEF IsRead
  <2> DEFINE g == [k \in 0 .. n + 1 |-> IF k = n + 1 THEN Value(f, k) ELSE f[k]]
  <2>3. ASSUME NEW k \in 0 .. n + 1 PROVE g[k] = Value(g, k)
    <3>1. g[k] = Value(f, k)
      <4>1. CASE k = n + 1 BY <4>1
      <4>2. CASE k # n + 1
        <5>1. k \in 0 .. n BY <4>2
        <5>2. g[k] = f[k] BY <4>2
        <5> HIDE DEF Value
        <5> QED BY <2>2, <5>1, <5>2
      <4> QED BY <4>1, <4>2
    <3>2. CASE k = 0 BY <3>1, <3>2
    <3>3. CASE k # 0
      <4>1. k - 1 \in 0 .. n /\ k - 1 # n + 1 /\ k - 1 \in 0 .. n + 1 BY <3>3
      <4>2. g[k - 1] = f[k - 1] BY <4>1
      <4> HIDE DEF g
      <4> QED BY <3>1, <4>2
    <3> QED BY <3>2, <3>3
  <2>4. g = [k \in 0 .. n + 1 |-> g[k]] OBVIOUS
  <2> HIDE DEF g
  <2>5. IsRead(g, parts, first, within, left, n + 1) BY <2>3, <2>4 DEF IsRead
  <2> QED BY <2>5
<1> HIDE DEF T
<1>3. Nat \subseteq T BY <1>1, <1>2, EveryNumber
<1> QED BY <1>3 DEF T

LEMMA ReadPartsIs ==
  ASSUME NEW parts, Len(parts) \in Nat, NEW k \in Nat \ {0}, NEW within, NEW n
  PROVE  \E f : /\ IsRead(f, parts, k, within, n, Len(parts))
               /\ ReadParts(parts, k, within, n) = f[Len(parts)].got
<1> DEFINE g == CHOOSE f : IsRead(f, parts, k, within, n, Len(parts))
<1>1. \E f : IsRead(f, parts, k, within, n, Len(parts)) BY ReadExists
<1>2. ReadParts(parts, k, within, n) = g[Len(parts)].got BY DEF ReadParts, IsRead
<1>3. IsRead(g, parts, k, within, n, Len(parts)) BY <1>1
<1> HIDE DEF g
<1> QED BY <1>2, <1>3

IsSum(f, readers, n) ==
    f = [k \in 0 .. n |-> IF k = 0 THEN 0 ELSE f[k - 1] + SizeOf(readers[k])]

LEMMA SumExists ==
  ASSUME NEW readers
  PROVE  \A n \in Nat : \E f : IsSum(f, readers, n)
<1> DEFINE Value(h, k) == IF k = 0 THEN 0 ELSE h[k - 1] + SizeOf(readers[k])
           T == {n \in Nat : \E f : IsSum(f, readers, n)}
<1>1. 0 \in T
  <2> DEFINE g == [k \in 0 .. 0 |-> 0]
  <2>1. IsSum(g, readers, 0) BY DEF IsSum
  <2> QED BY <2>1
<1>2. ASSUME NEW n \in Nat, n \in T PROVE n + 1 \in T
  <2>1. PICK f : IsSum(f, readers, n) BY <1>2
  <2>2. \A k \in 0 .. n : f[k] = Value(f, k) BY <2>1 DEF IsSum
  <2> DEFINE g == [k \in 0 .. n + 1 |-> IF k = n + 1 THEN Value(f, k) ELSE f[k]]
  <2>3. ASSUME NEW k \in 0 .. n + 1 PROVE g[k] = Value(g, k)
    <3>1. g[k] = Value(f, k)
      <4>1. CASE k = n + 1 BY <4>1
      <4>2. CASE k # n + 1
        <5>1. k \in 0 .. n BY <4>2
        <5>2. g[k] = f[k] BY <4>2
        <5> HIDE DEF Value
        <5> QED BY <2>2, <5>1, <5>2
      <4> QED BY <4>1, <4>2
    <3>2. CASE k = 0 BY <3>1, <3>2
    <3>3. CASE k # 0
      <4>1. k - 1 \in 0 .. n /\ k - 1 # n + 1 /\ k - 1 \in 0 .. n + 1 BY <3>3
      <4>2. g[k - 1] = f[k - 1] BY <4>1
      <4> HIDE DEF g
      <4> QED BY <3>1, <4>2
    <3> QED BY <3>2, <3>3
  <2>4. g = [k \in 0 .. n + 1 |-> g[k]] OBVIOUS
  <2> HIDE DEF g
  <2>5. IsSum(g, readers, n + 1) BY <2>3, <2>4 DEF IsSum
  <2> QED BY <2>5
<1> HIDE DEF T
<1>3. Nat \subseteq T BY <1>1, <1>2, EveryNumber
<1> QED BY <1>3 DEF T

LEMMA SumOfSizesIs ==
  ASSUME NEW readers, Len(readers) \in Nat
  PROVE  \E f : IsSum(f, readers, Len(readers)) /\ SumOfSizes(readers) = f[Len(readers)]
<1> DEFINE g == CHOOSE f : IsSum(f, readers, Len(readers))
<1>1. \E f : IsSum(f, readers, Len(readers)) BY SumExists
<1>2. SumOfSizes(readers) = g[Len(readers)] BY DEF SumOfSizes, IsSum
<1>3. IsSum(g, readers, Len(readers)) BY <1>1
<1> HIDE DEF g
<1> QED BY <1>2, <1>3

IsReading(f, read, s, left, n) ==
    f = [k \in 0 .. n |->
           IF k = 0 THEN [reader |-> s, got |-> <<>>, left |-> left, outcome |-> "ok"]
           ELSE ReadFromPart(read, f[k - 1])]

LEMMA ReadingExists ==
  ASSUME NEW read, NEW s, NEW left
  PROVE  \A n \in Nat : \E f : IsReading(f, read, s, left, n)
<1> DEFINE Value(h, k) ==
             IF k = 0 THEN [reader |-> s, got |-> <<>>, left |-> left, outcome |-> "ok"]
             ELSE ReadFromPart(read, h[k - 1])
           T == {n \in Nat : \E f : IsReading(f, read, s, left, n)}
<1>1. 0 \in T
  <2> DEFINE g == [k \in 0 .. 0 |-> [reader |-> s, got |-> <<>>, left |-> left, outcome |-> "ok"]]
  <2>1. IsReading(g, read, s, left, 0) BY DEF IsReading
  <2> QED BY <2>1
<1>2. ASSUME NEW n \in Nat, n \in T PROVE n + 1 \in T
  <2>1. PICK f : IsReading(f, read, s, left, n) BY <1>2
  <2>2. \A k \in 0 .. n : f[k] = Value(f, k) BY <2>1 DEF IsReading
  <2> DEFINE g == [k \in 0 .. n + 1 |-> IF k = n + 1 THEN Value(f, k) ELSE f[k]]
  <2>3. ASSUME NEW k \in 0 .. n + 1 PROVE g[k] = Value(g, k)
    <3>1. g[k] = Value(f, k)
      <4>1. CASE k = n + 1 BY <4>1
      <4>2. CASE k # n + 1
        <5>1. k \in 0 .. n BY <4>2
        <5>2. g[k] = f[k] BY <4>2
        <5> HIDE DEF Value
        <5> QED BY <2>2, <5>1, <5>2
      <4> QED BY <4>1, <4>2
    <3>2. CASE k = 0 BY <3>1, <3>2
    <3>3. CASE k # 0
      <4>1. k - 1 \in 0 .. n /\ k - 1 # n + 1 /\ k - 1 \in 0 .. n + 1 BY <3>3
      <4>2. g[k - 1] = f[k - 1] BY <4>1
      <4> HIDE DEF g
      <4> QED BY <3>1, <4>2
    <3> QED BY <3>2, <3>3
  <2>4. g = [k \in 0 .. n + 1 |-> g[k]] OBVIOUS
  <2> HIDE DEF g
  <2>5. IsReading(g, read, s, left, n + 1) BY <2>3, <2>4 DEF IsReading
  <2> QED BY <2>5
<1> HIDE DEF T
<1>3. Nat \subseteq T BY <1>1, <1>2, EveryNumber
<1> QED BY <1>3 DEF T

LEMMA ReadChainIs ==
  ASSUME NEW read, NEW s, NEW n \in Nat
  PROVE  \E f : /\ IsReading(f, read, s, n, n)
               /\ ReadChain(read, s, n) =
                    [reader |-> f[n].reader, got |-> f[n].got, outcome |-> f[n].outcome]
<1> DEFINE g == CHOOSE f : IsReading(f, read, s, n, n)
<1>1. \E f : IsReading(f, read, s, n, n) BY ReadingExists
<1>2. ReadChain(read, s, n) =
        [reader |-> g[n].reader, got |-> g[n].got, outcome |-> g[n].outcome]
  BY DEF ReadChain, IsReading
<1>3. IsReading(g, read, s, n, n) BY <1>1
<1> HIDE DEF g
<1> QED BY <1>2, <1>3

IsSkipping(f, s, left, n) ==
    f = [k \in 0 .. n |->
           IF k = 0 THEN [reader |-> s, left |-> left, outcome |-> "ok"]
           ELSE SkipBlock(f[k - 1])]

LEMMA SkippingExists ==
  ASSUME NEW s, NEW left
  PROVE  \A n \in Nat : \E f : IsSkipping(f, s, left, n)
<1> DEFINE Value(h, k) ==
             IF k = 0 THEN [reader |-> s, left |-> left, outcome |-> "ok"]
             ELSE SkipBlock(h[k - 1])
           T == {n \in Nat : \E f : IsSkipping(f, s, left, n)}
<1>1. 0 \in T
  <2> DEFINE g == [k \in 0 .. 0 |-> [reader |-> s, left |-> left, outcome |-> "ok"]]
  <2>1. IsSkipping(g, s, left, 0) BY DEF IsSkipping
  <2> QED BY <2>1
<1>2. ASSUME NEW n \in Nat, n \in T PROVE n + 1 \in T
  <2>1. PICK f : IsSkipping(f, s, left, n) BY <1>2
  <2>2. \A k \in 0 .. n : f[k] = Value(f, k) BY <2>1 DEF IsSkipping
  <2> DEFINE g == [k \in 0 .. n + 1 |-> IF k = n + 1 THEN Value(f, k) ELSE f[k]]
  <2>3. ASSUME NEW k \in 0 .. n + 1 PROVE g[k] = Value(g, k)
    <3>1. g[k] = Value(f, k)
      <4>1. CASE k = n + 1 BY <4>1
      <4>2. CASE k # n + 1
        <5>1. k \in 0 .. n BY <4>2
        <5>2. g[k] = f[k] BY <4>2
        <5> HIDE DEF Value
        <5> QED BY <2>2, <5>1, <5>2
      <4> QED BY <4>1, <4>2
    <3>2. CASE k = 0 BY <3>1, <3>2
    <3>3. CASE k # 0
      <4>1. k - 1 \in 0 .. n /\ k - 1 # n + 1 /\ k - 1 \in 0 .. n + 1 BY <3>3
      <4>2. g[k - 1] = f[k - 1] BY <4>1
      <4> HIDE DEF g
      <4> QED BY <3>1, <4>2
    <3> QED BY <3>2, <3>3
  <2>4. g = [k \in 0 .. n + 1 |-> g[k]] OBVIOUS
  <2> HIDE DEF g
  <2>5. IsSkipping(g, s, left, n + 1) BY <2>3, <2>4 DEF IsSkipping
  <2> QED BY <2>5
<1> HIDE DEF T
<1>3. Nat \subseteq T BY <1>1, <1>2, EveryNumber
<1> QED BY <1>3 DEF T

LEMMA SkipByReadingIs ==
  ASSUME NEW s, NEW n \in Nat
  PROVE  \E f : /\ IsSkipping(f, s, n, n + 2)
               /\ SkipByReading(s, n) =
                    [reader |-> f[n + 2].reader, outcome |-> f[n + 2].outcome]
<1> DEFINE g == CHOOSE f : IsSkipping(f, s, n, n + 2)
<1>1. \E f : IsSkipping(f, s, n, n + 2) BY SkippingExists
<1>2. SkipByReading(s, n) = [reader |-> g[n + 2].reader, outcome |-> g[n + 2].outcome]
  BY DEF SkipByReading, IsSkipping
<1>3. IsSkipping(g, s, n, n + 2) BY <1>1
<1> HIDE DEF g
<1> QED BY <1>2, <1>3

IsSkippingParts(f, skip, s, left, n) ==
    f = [k \in 0 .. n |->
           IF k = 0 THEN [reader |-> s, left |-> left, outcome |-> "ok"]
           ELSE SkipPart(skip, f[k - 1])]

LEMMA SkippingPartsExists ==
  ASSUME NEW skip, NEW s, NEW left
  PROVE  \A n \in Nat : \E f : IsSkippingParts(f, skip, s, left, n)
<1> DEFINE Value(h, k) ==
             IF k = 0 THEN [reader |-> s, left |-> left, outcome |-> "ok"]
             ELSE SkipPart(skip, h[k - 1])
           T == {n \in Nat : \E f : IsSkippingParts(f, skip, s, left, n)}
<1>1. 0 \in T
  <2> DEFINE g == [k \in 0 .. 0 |-> [reader |-> s, left |-> left, outcome |-> "ok"]]
  <2>1. IsSkippingParts(g, skip, s, left, 0) BY DEF IsSkippingParts
  <2> QED BY <2>1
<1>2. ASSUME NEW n \in Nat, n \in T PROVE n + 1 \in T
  <2>1. PICK f : IsSkippingParts(f, skip, s, left, n) BY <1>2
  <2>2. \A k \in 0 .. n : f[k] = Value(f, k) BY <2>1 DEF IsSkippingParts
  <2> DEFINE g == [k \in 0 .. n + 1 |-> IF k = n + 1 THEN Value(f, k) ELSE f[k]]
  <2>3. ASSUME NEW k \in 0 .. n + 1 PROVE g[k] = Value(g, k)
    <3>1. g[k] = Value(f, k)
      <4>1. CASE k = n + 1 BY <4>1
      <4>2. CASE k # n + 1
        <5>1. k \in 0 .. n BY <4>2
        <5>2. g[k] = f[k] BY <4>2
        <5> HIDE DEF Value
        <5> QED BY <2>2, <5>1, <5>2
      <4> QED BY <4>1, <4>2
    <3>2. CASE k = 0 BY <3>1, <3>2
    <3>3. CASE k # 0
      <4>1. k - 1 \in 0 .. n /\ k - 1 # n + 1 /\ k - 1 \in 0 .. n + 1 BY <3>3
      <4>2. g[k - 1] = f[k - 1] BY <4>1
      <4> HIDE DEF g
      <4> QED BY <3>1, <4>2
    <3> QED BY <3>2, <3>3
  <2>4. g = [k \in 0 .. n + 1 |-> g[k]] OBVIOUS
  <2> HIDE DEF g
  <2>5. IsSkippingParts(g, skip, s, left, n + 1) BY <2>3, <2>4 DEF IsSkippingParts
  <2> QED BY <2>5
<1> HIDE DEF T
<1>3. Nat \subseteq T BY <1>1, <1>2, EveryNumber
<1> QED BY <1>3 DEF T

LEMMA SkipChainIs ==
  ASSUME NEW skip, NEW s, NEW n, Len(s.readers) \in Nat
  PROVE  \E f : /\ IsSkippingParts(f, skip, s, n, Len(s.readers) + 1)
               /\ SkipChain(skip, s, n) =
                    [reader  |-> f[Len(s.readers) + 1].reader,
                     outcome |-> f[Len(s.readers) + 1].outcome]
<1> DEFINE g == CHOOSE f : IsSkippingParts(f, skip, s, n, Len(s.readers) + 1)
<1>0. Len(s.readers) + 1 \in Nat OBVIOUS
<1>1. \E f : IsSkippingParts(f, skip, s, n, Len(s.readers) + 1) BY <1>0, SkippingPartsExists
<1>2. SkipChain(skip, s, n) =
        [reader  |-> g[Len(s.readers) + 1].reader,
         outcome |-> g[Len(s.readers) + 1].outcome]
  BY DEF SkipChain, IsSkippingParts
<1>3. IsSkippingParts(g, skip, s, n, Len(s.readers) + 1) BY <1>1
<1> HIDE DEF g
<1> QED BY <1>2, <1>3

IsCopying(f, s, left, n) ==
    f = [k \in 0 .. n |->
           IF k = 0 THEN [reader |-> s, got |-> <<>>, left |-> left, outcome |-> "ok"]
           ELSE CopyBlock(f[k - 1])]

LEMMA CopyingExists ==
  ASSUME NEW s, NEW left
  PROVE  \A n \in Nat : \E f : IsCopying(f, s, left, n)
<1> DEFINE Value(h, k) ==
             IF k = 0 THEN [reader |-> s, got |-> <<>>, left |-> left, outcome |-> "ok"]
             ELSE CopyBlock(h[k - 1])
           T == {n \in Nat : \E f : IsCopying(f, s, left, n)}
<1>1. 0 \in T
  <2> DEFINE g == [k \in 0 .. 0 |-> [reader |-> s, got |-> <<>>, left |-> left, outcome |-> "ok"]]
  <2>1. IsCopying(g, s, left, 0) BY DEF IsCopying
  <2> QED BY <2>1
<1>2. ASSUME NEW n \in Nat, n \in T PROVE n + 1 \in T
  <2>1. PICK f : IsCopying(f, s, left, n) BY <1>2
  <2>2. \A k \in 0 .. n : f[k] = Value(f, k) BY <2>1 DEF IsCopying
  <2> DEFINE g == [k \in 0 .. n + 1 |-> IF k = n + 1 THEN Value(f, k) ELSE f[k]]
  <2>3. ASSUME NEW k \in 0 .. n + 1 PROVE g[k] = Value(g, k)
    <3>1. g[k] = Value(f, k)
      <4>1. CASE k = n + 1 BY <4>1
      <4>2. CASE k # n + 1
        <5>1. k \in 0 .. n BY <4>2
        <5>2. g[k] = f[k] BY <4>2
        <5> HIDE DEF Value
        <5> QED BY <2>2, <5>1, <5>2
      <4> QED BY <4>1, <4>2
    <3>2. CASE k = 0 BY <3>1, <3>2
    <3>3. CASE k # 0
      <4>1. k - 1 \in 0 .. n /\ k - 1 # n + 1 /\ k - 1 \in 0 .. n + 1 BY <3>3
      <4>2. g[k - 1] = f[k - 1] BY <4>1
      <4> HIDE DEF g
      <4> QED BY <3>1, <4>2
    <3> QED BY <3>2, <3>3
  <2>4. g = [k \in 0 .. n + 1 |-> g[k]] OBVIOUS
  <2> HIDE DEF g
  <2>5. IsCopying(g, s, left, n + 1) BY <2>3, <2>4 DEF IsCopying
  <2> QED BY <2>5
<1> HIDE DEF T
<1>3. Nat \subseteq T BY <1>1, <1>2, EveryNumber
<1> QED BY <1>3 DEF T

LEMMA CopyOfIs ==
  ASSUME NEW s, SizeOf(s) \in Nat
  PROVE  \E f : /\ IsCopying(f, s, SizeOf(s), SizeOf(s))
               /\ CopyOf(s) = [got |-> f[SizeOf(s)].got, outcome |-> f[SizeOf(s)].outcome]
<1> DEFINE g == CHOOSE f : IsCopying(f, s, SizeOf(s), SizeOf(s))
<1>1. \E f : IsCopying(f, s, SizeOf(s), SizeOf(s)) BY CopyingExists
<1>2. CopyOf(s) = [got |-> g[SizeOf(s)].got, outcome |-> g[SizeOf(s)].outcome]
  BY DEF CopyOf, IsCopying
<1>3. IsCopying(g, s, SizeOf(s), SizeOf(s)) BY <1>1
<1> HIDE DEF g
<1> QED BY <1>2, <1>3

IsFlattening(f, list, n) ==
    f = [k \in 1 .. n |-> IF k = 1 THEN list[k] ELSE f[k - 1] \o list[k]]

LEMMA FlatteningExists ==
  ASSUME NEW list
  PROVE  \A n \in Nat : \E f : IsFlattening(f, list, n)
<1> DEFINE Value(h, k) == IF k = 1 THEN list[k] ELSE h[k - 1] \o list[k]
           T == {n \in Nat : \E f : IsFlattening(f, list, n)}
<1>1. 0 \in T
  <2> DEFINE g == [k \in 1 .. 0 |-> list[k]]
  <2>1. IsFlattening(g, list, 0) BY DEF IsFlattening
  <2> QED BY <2>1
<1>2. ASSUME NEW n \in Nat, n \in T PROVE n + 1 \in T
  <2>1. PICK f : IsFlattening(f, list, n) BY <1>2
  <2>2. \A k \in 1 .. n : f[k] = Value(f, k) BY <2>1 DEF IsFlattening
  <2> DEFINE g == [k \in 1 .. n + 1 |-> IF k = n + 1 THEN Value(f, k) ELSE f[k]]
  <2>3. ASSUME NEW k \in 1 .. n + 1 PROVE g[k] = Value(g, k)
    <3>1. g[k] = Value(f, k)
      <4>1. CASE k = n + 1 BY <4>1
      <4>2. CASE k # n + 1
        <5>1. k \in 1 .. n BY <4>2
        <5>2. g[k] = f[k] BY <4>2
        <5> HIDE DEF Value
        <5> QED BY <2>2, <5>1, <5>2
      <4> QED BY <4>1, <4>2
    <3>2. CASE k = 1 BY <3>1, <3>2
    <3>3. CASE k # 1
      <4>1. k - 1 \in 1 .. n /\ k - 1 # n + 1 /\ k - 1 \in 1 .. n + 1 BY <3>3
      <4>2. g[k - 1] = f[k - 1] BY <4>1
      <4> HIDE DEF g
      <4> QED BY <3>1, <4>2
    <3> QED BY <3>2, <3>3
  <2>4. g = [k \in 1 .. n + 1 |-> g[k]] OBVIOUS
  <2> HIDE DEF g
  <2>5. IsFlattening(g, list, n + 1) BY <2>3, <2>4 DEF IsFlattening
  <2> QED BY <2>5
<1> HIDE DEF T
<1>3. Nat \subseteq T BY <1>1, <1>2, EveryNumber
<1> QED BY <1>3 DEF T

LEMMA FlattenSeqIs ==
  ASSUME NEW list, Len(list) \in Nat \ {0}
  PROVE  \E f : IsFlattening(f, list, Len(list)) /\ FlattenSeq(list) = f[Len(list)]
<1> DEFINE g == CHOOSE f : IsFlattening(f, list, Len(list))
<1>1. \E f : IsFlattening(f, list, Len(list)) BY FlatteningExists
<1>2. FlattenSeq(list) = g[Len(list)] BY DEF FlattenSeq, IsFlattening
<1>3. IsFlattening(g, list, Len(list)) BY <1>1
<1> HIDE DEF g
<1> QED BY <1>2, <1>3

-----------------------------------------------------------------------------
(* What the functions of the depth are.                                    *)

IsReaders(f, n) ==
    f = [k \in 0 .. n |->
           IF k = 0 THEN {} ELSE Wrappers \union Decoders \union ChainsOf(f[k - 1])]

LEMMA ReadersExist ==
  \A n \in Nat : \E f : IsReaders(f, n)
<1> DEFINE Value(h, k) ==
             IF k = 0 THEN {} ELSE Wrappers \union Decoders \union ChainsOf(h[k - 1])
           T == {n \in Nat : \E f : IsReaders(f, n)}
<1>1. 0 \in T
  <2> DEFINE g == [k \in 0 .. 0 |-> {}]
  <2>1. IsReaders(g, 0) BY DEF IsReaders
  <2> QED BY <2>1
<1>2. ASSUME NEW n \in Nat, n \in T PROVE n + 1 \in T
  <2>1. PICK f : IsReaders(f, n) BY <1>2
  <2>2. \A k \in 0 .. n : f[k] = Value(f, k) BY <2>1 DEF IsReaders
  <2> DEFINE g == [k \in 0 .. n + 1 |-> IF k = n + 1 THEN Value(f, k) ELSE f[k]]
  <2>3. ASSUME NEW k \in 0 .. n + 1 PROVE g[k] = Value(g, k)
    <3>1. g[k] = Value(f, k)
      <4>1. CASE k = n + 1 BY <4>1
      <4>2. CASE k # n + 1
        <5>1. k \in 0 .. n BY <4>2
        <5>2. g[k] = f[k] BY <4>2
        <5> HIDE DEF Value
        <5> QED BY <2>2, <5>1, <5>2
      <4> QED BY <4>1, <4>2
    <3>2. CASE k = 0 BY <3>1, <3>2
    <3>3. CASE k # 0
      <4>1. k - 1 \in 0 .. n /\ k - 1 # n + 1 /\ k - 1 \in 0 .. n + 1 BY <3>3
      <4>2. g[k - 1] = f[k - 1] BY <4>1
      <4> HIDE DEF g
      <4> QED BY <3>1, <4>2
    <3> QED BY <3>2, <3>3
  <2>4. g = [k \in 0 .. n + 1 |-> g[k]] OBVIOUS
  <2> HIDE DEF g
  <2>5. IsReaders(g, n + 1) BY <2>3, <2>4 DEF IsReaders
  <2> QED BY <2>5
<1> HIDE DEF T
<1>3. Nat \subseteq T BY <1>1, <1>2, EveryNumber
<1> QED BY <1>3 DEF T

LEMMA SequentialReadersAre ==
  \A d \in 0 .. Depth : SequentialReaders[d] =
    IF d = 0 THEN {}
    ELSE Wrappers \union Decoders \union ChainsOf(SequentialReaders[d - 1])
<1>1. Depth \in Nat BY ReadersAssumption
<1>2. \E f : IsReaders(f, Depth) BY <1>1, ReadersExist
<1>3. SequentialReaders = CHOOSE f : IsReaders(f, Depth) BY DEF SequentialReaders, IsReaders
<1>4. IsReaders(SequentialReaders, Depth) BY <1>2, <1>3
<1> QED BY <1>4 DEF IsReaders

IsItems(f, n) ==
    f = [k \in 0 .. n |-> IF k = 0 THEN {} ELSE Leaves \union MadeOf(f[k - 1])]

LEMMA ItemsExist ==
  \A n \in Nat : \E f : IsItems(f, n)
<1> DEFINE Value(h, k) == IF k = 0 THEN {} ELSE Leaves \union MadeOf(h[k - 1])
           T == {n \in Nat : \E f : IsItems(f, n)}
<1>1. 0 \in T
  <2> DEFINE g == [k \in 0 .. 0 |-> {}]
  <2>1. IsItems(g, 0) BY DEF IsItems
  <2> QED BY <2>1
<1>2. ASSUME NEW n \in Nat, n \in T PROVE n + 1 \in T
  <2>1. PICK f : IsItems(f, n) BY <1>2
  <2>2. \A k \in 0 .. n : f[k] = Value(f, k) BY <2>1 DEF IsItems
  <2> DEFINE g == [k \in 0 .. n + 1 |-> IF k = n + 1 THEN Value(f, k) ELSE f[k]]
  <2>3. ASSUME NEW k \in 0 .. n + 1 PROVE g[k] = Value(g, k)
    <3>1. g[k] = Value(f, k)
      <4>1. CASE k = n + 1 BY <4>1
      <4>2. CASE k # n + 1
        <5>1. k \in 0 .. n BY <4>2
        <5>2. g[k] = f[k] BY <4>2
        <5> HIDE DEF Value
        <5> QED BY <2>2, <5>1, <5>2
      <4> QED BY <4>1, <4>2
    <3>2. CASE k = 0 BY <3>1, <3>2
    <3>3. CASE k # 0
      <4>1. k - 1 \in 0 .. n /\ k - 1 # n + 1 /\ k - 1 \in 0 .. n + 1 BY <3>3
      <4>2. g[k - 1] = f[k - 1] BY <4>1
      <4> HIDE DEF g
      <4> QED BY <3>1, <4>2
    <3> QED BY <3>2, <3>3
  <2>4. g = [k \in 0 .. n + 1 |-> g[k]] OBVIOUS
  <2> HIDE DEF g
  <2>5. IsItems(g, n + 1) BY <2>3, <2>4 DEF IsItems
  <2> QED BY <2>5
<1> HIDE DEF T
<1>3. Nat \subseteq T BY <1>1, <1>2, EveryNumber
<1> QED BY <1>3 DEF T

LEMMA ItemsAre ==
  \A d \in 0 .. Depth : ItemsTo[d] =
    IF d = 0 THEN {} ELSE Leaves \union MadeOf(ItemsTo[d - 1])
<1>1. Depth \in Nat BY ReadersAssumption
<1>2. \E f : IsItems(f, Depth) BY <1>1, ItemsExist
<1>3. ItemsTo = CHOOSE f : IsItems(f, Depth) BY DEF ItemsTo, IsItems
<1>4. IsItems(ItemsTo, Depth) BY <1>2, <1>3
<1> QED BY <1>4 DEF IsItems

LEMMA NothingAtDepth0 ==
  SequentialReaders[0] = {} /\ ItemsTo[0] = {}
<1>1. 0 \in 0 .. Depth BY ReadersAssumption
<1> QED BY <1>1, SequentialReadersAre, ItemsAre

IsReadTo(f, n) ==
    f = [k \in 0 .. n |->
           [x \in SequentialReaders[k] \X Nat |-> ReadWith(f[k - 1], x[1], x[2])]]

LEMMA ReadToExists ==
  \A n \in Nat : \E f : IsReadTo(f, n)
<1> DEFINE Value(h, k) ==
             [x \in SequentialReaders[k] \X Nat |-> ReadWith(h[k - 1], x[1], x[2])]
           T == {n \in Nat : \E f : IsReadTo(f, n)}
<1>1. 0 \in T
  <2> DEFINE g == [k \in 0 .. 0 |-> [x \in {} |-> 0]]
  <2>1. IsReadTo(g, 0) BY NothingAtDepth0 DEF IsReadTo
  <2> QED BY <2>1
<1>2. ASSUME NEW n \in Nat, n \in T PROVE n + 1 \in T
  <2>1. PICK f : IsReadTo(f, n) BY <1>2
  <2>2. \A k \in 0 .. n : f[k] = Value(f, k) BY <2>1 DEF IsReadTo
  <2> DEFINE g == [k \in 0 .. n + 1 |-> IF k = n + 1 THEN Value(f, k) ELSE f[k]]
  <2>3. ASSUME NEW k \in 0 .. n + 1 PROVE g[k] = Value(g, k)
    <3>1. g[k] = Value(f, k)
      <4>1. CASE k = n + 1 BY <4>1
      <4>2. CASE k # n + 1
        <5>1. k \in 0 .. n BY <4>2
        <5>2. g[k] = f[k] BY <4>2
        <5> HIDE DEF Value
        <5> QED BY <2>2, <5>1, <5>2
      <4> QED BY <4>1, <4>2
    <3>2. CASE k = 0 BY <3>1, <3>2, NothingAtDepth0
    <3>3. CASE k # 0
      <4>1. k - 1 \in 0 .. n /\ k - 1 # n + 1 /\ k - 1 \in 0 .. n + 1 BY <3>3
      <4>2. g[k - 1] = f[k - 1] BY <4>1
      <4> HIDE DEF g
      <4> QED BY <3>1, <4>2
    <3> QED BY <3>2, <3>3
  <2>4. g = [k \in 0 .. n + 1 |-> g[k]] OBVIOUS
  <2> HIDE DEF g
  <2>5. IsReadTo(g, n + 1) BY <2>3, <2>4 DEF IsReadTo
  <2> QED BY <2>5
<1> HIDE DEF T
<1>3. Nat \subseteq T BY <1>1, <1>2, EveryNumber
<1> QED BY <1>3 DEF T

LEMMA ReadToIs ==
  \A d \in 0 .. Depth : ReadTo[d] =
    [x \in SequentialReaders[d] \X Nat |-> ReadWith(ReadTo[d - 1], x[1], x[2])]
<1>1. Depth \in Nat BY ReadersAssumption
<1>2. \E f : IsReadTo(f, Depth) BY <1>1, ReadToExists
<1>3. ReadTo = CHOOSE f : IsReadTo(f, Depth) BY DEF ReadTo, IsReadTo
<1>4. IsReadTo(ReadTo, Depth) BY <1>2, <1>3
<1> QED BY <1>4 DEF IsReadTo

IsSkipTo(f, n) ==
    f = [k \in 0 .. n |->
           [x \in SequentialReaders[k] \X Nat |-> SkipWith(f[k - 1], x[1], x[2])]]

LEMMA SkipToExists ==
  \A n \in Nat : \E f : IsSkipTo(f, n)
<1> DEFINE Value(h, k) ==
             [x \in SequentialReaders[k] \X Nat |-> SkipWith(h[k - 1], x[1], x[2])]
           T == {n \in Nat : \E f : IsSkipTo(f, n)}
<1>1. 0 \in T
  <2> DEFINE g == [k \in 0 .. 0 |-> [x \in {} |-> 0]]
  <2>1. IsSkipTo(g, 0) BY NothingAtDepth0 DEF IsSkipTo
  <2> QED BY <2>1
<1>2. ASSUME NEW n \in Nat, n \in T PROVE n + 1 \in T
  <2>1. PICK f : IsSkipTo(f, n) BY <1>2
  <2>2. \A k \in 0 .. n : f[k] = Value(f, k) BY <2>1 DEF IsSkipTo
  <2> DEFINE g == [k \in 0 .. n + 1 |-> IF k = n + 1 THEN Value(f, k) ELSE f[k]]
  <2>3. ASSUME NEW k \in 0 .. n + 1 PROVE g[k] = Value(g, k)
    <3>1. g[k] = Value(f, k)
      <4>1. CASE k = n + 1 BY <4>1
      <4>2. CASE k # n + 1
        <5>1. k \in 0 .. n BY <4>2
        <5>2. g[k] = f[k] BY <4>2
        <5> HIDE DEF Value
        <5> QED BY <2>2, <5>1, <5>2
      <4> QED BY <4>1, <4>2
    <3>2. CASE k = 0 BY <3>1, <3>2, NothingAtDepth0
    <3>3. CASE k # 0
      <4>1. k - 1 \in 0 .. n /\ k - 1 # n + 1 /\ k - 1 \in 0 .. n + 1 BY <3>3
      <4>2. g[k - 1] = f[k - 1] BY <4>1
      <4> HIDE DEF g
      <4> QED BY <3>1, <4>2
    <3> QED BY <3>2, <3>3
  <2>4. g = [k \in 0 .. n + 1 |-> g[k]] OBVIOUS
  <2> HIDE DEF g
  <2>5. IsSkipTo(g, n + 1) BY <2>3, <2>4 DEF IsSkipTo
  <2> QED BY <2>5
<1> HIDE DEF T
<1>3. Nat \subseteq T BY <1>1, <1>2, EveryNumber
<1> QED BY <1>3 DEF T

LEMMA SkipToIs ==
  \A d \in 0 .. Depth : SkipTo[d] =
    [x \in SequentialReaders[d] \X Nat |-> SkipWith(SkipTo[d - 1], x[1], x[2])]
<1>1. Depth \in Nat BY ReadersAssumption
<1>2. \E f : IsSkipTo(f, Depth) BY <1>1, SkipToExists
<1>3. SkipTo = CHOOSE f : IsSkipTo(f, Depth) BY DEF SkipTo, IsSkipTo
<1>4. IsSkipTo(SkipTo, Depth) BY <1>2, <1>3
<1> QED BY <1>4 DEF IsSkipTo

IsMakeReader(f, n) ==
    f = [k \in 0 .. n |->
           [i \in ItemsTo[k] |-> MakeReaderWith(f[k - 1], i)]]

LEMMA MakeReaderExists ==
  \A n \in Nat : \E f : IsMakeReader(f, n)
<1> DEFINE Value(h, k) ==
             [i \in ItemsTo[k] |-> MakeReaderWith(h[k - 1], i)]
           T == {n \in Nat : \E f : IsMakeReader(f, n)}
<1>1. 0 \in T
  <2> DEFINE g == [k \in 0 .. 0 |-> [i \in {} |-> 0]]
  <2>1. IsMakeReader(g, 0) BY NothingAtDepth0 DEF IsMakeReader
  <2> QED BY <2>1
<1>2. ASSUME NEW n \in Nat, n \in T PROVE n + 1 \in T
  <2>1. PICK f : IsMakeReader(f, n) BY <1>2
  <2>2. \A k \in 0 .. n : f[k] = Value(f, k) BY <2>1 DEF IsMakeReader
  <2> DEFINE g == [k \in 0 .. n + 1 |-> IF k = n + 1 THEN Value(f, k) ELSE f[k]]
  <2>3. ASSUME NEW k \in 0 .. n + 1 PROVE g[k] = Value(g, k)
    <3>1. g[k] = Value(f, k)
      <4>1. CASE k = n + 1 BY <4>1
      <4>2. CASE k # n + 1
        <5>1. k \in 0 .. n BY <4>2
        <5>2. g[k] = f[k] BY <4>2
        <5> HIDE DEF Value
        <5> QED BY <2>2, <5>1, <5>2
      <4> QED BY <4>1, <4>2
    <3>2. CASE k = 0 BY <3>1, <3>2, NothingAtDepth0
    <3>3. CASE k # 0
      <4>1. k - 1 \in 0 .. n /\ k - 1 # n + 1 /\ k - 1 \in 0 .. n + 1 BY <3>3
      <4>2. g[k - 1] = f[k - 1] BY <4>1
      <4> HIDE DEF g
      <4> QED BY <3>1, <4>2
    <3> QED BY <3>2, <3>3
  <2>4. g = [k \in 0 .. n + 1 |-> g[k]] OBVIOUS
  <2> HIDE DEF g
  <2>5. IsMakeReader(g, n + 1) BY <2>3, <2>4 DEF IsMakeReader
  <2> QED BY <2>5
<1> HIDE DEF T
<1>3. Nat \subseteq T BY <1>1, <1>2, EveryNumber
<1> QED BY <1>3 DEF T

LEMMA MakeReaderToIs ==
  \A d \in 0 .. Depth : MakeReaderTo[d] =
    [i \in ItemsTo[d] |-> MakeReaderWith(MakeReaderTo[d - 1], i)]
<1>1. Depth \in Nat BY ReadersAssumption
<1>2. \E f : IsMakeReader(f, Depth) BY <1>1, MakeReaderExists
<1>3. MakeReaderTo = CHOOSE f : IsMakeReader(f, Depth) BY DEF MakeReaderTo, IsMakeReader
<1>4. IsMakeReader(MakeReaderTo, Depth) BY <1>2, <1>3
<1> QED BY <1>4 DEF IsMakeReader

IsMakeSequential(f, n) ==
    f = [k \in 0 .. n |->
           [i \in ItemsTo[k] |-> MakeSequentialReaderWith(f[k - 1], MakeReaderTo[k][i], i)]]

LEMMA MakeSequentialExists ==
  \A n \in Nat : \E f : IsMakeSequential(f, n)
<1> DEFINE Value(h, k) ==
             [i \in ItemsTo[k] |-> MakeSequentialReaderWith(h[k - 1], MakeReaderTo[k][i], i)]
           T == {n \in Nat : \E f : IsMakeSequential(f, n)}
<1>1. 0 \in T
  <2> DEFINE g == [k \in 0 .. 0 |-> [i \in {} |-> 0]]
  <2>1. IsMakeSequential(g, 0) BY NothingAtDepth0 DEF IsMakeSequential
  <2> QED BY <2>1
<1>2. ASSUME NEW n \in Nat, n \in T PROVE n + 1 \in T
  <2>1. PICK f : IsMakeSequential(f, n) BY <1>2
  <2>2. \A k \in 0 .. n : f[k] = Value(f, k) BY <2>1 DEF IsMakeSequential
  <2> DEFINE g == [k \in 0 .. n + 1 |-> IF k = n + 1 THEN Value(f, k) ELSE f[k]]
  <2>3. ASSUME NEW k \in 0 .. n + 1 PROVE g[k] = Value(g, k)
    <3>1. g[k] = Value(f, k)
      <4>1. CASE k = n + 1 BY <4>1
      <4>2. CASE k # n + 1
        <5>1. k \in 0 .. n BY <4>2
        <5>2. g[k] = f[k] BY <4>2
        <5> HIDE DEF Value
        <5> QED BY <2>2, <5>1, <5>2
      <4> QED BY <4>1, <4>2
    <3>2. CASE k = 0 BY <3>1, <3>2, NothingAtDepth0
    <3>3. CASE k # 0
      <4>1. k - 1 \in 0 .. n /\ k - 1 # n + 1 /\ k - 1 \in 0 .. n + 1 BY <3>3
      <4>2. g[k - 1] = f[k - 1] BY <4>1
      <4> HIDE DEF g
      <4> QED BY <3>1, <4>2
    <3> QED BY <3>2, <3>3
  <2>4. g = [k \in 0 .. n + 1 |-> g[k]] OBVIOUS
  <2> HIDE DEF g
  <2>5. IsMakeSequential(g, n + 1) BY <2>3, <2>4 DEF IsMakeSequential
  <2> QED BY <2>5
<1> HIDE DEF T
<1>3. Nat \subseteq T BY <1>1, <1>2, EveryNumber
<1> QED BY <1>3 DEF T

LEMMA MakeSequentialReaderToIs ==
  \A d \in 0 .. Depth : MakeSequentialReaderTo[d] =
    [i \in ItemsTo[d] |->
       MakeSequentialReaderWith(MakeSequentialReaderTo[d - 1], MakeReaderTo[d][i], i)]
<1>1. Depth \in Nat BY ReadersAssumption
<1>2. \E f : IsMakeSequential(f, Depth) BY <1>1, MakeSequentialExists
<1>3. MakeSequentialReaderTo = CHOOSE f : IsMakeSequential(f, Depth)
  BY DEF MakeSequentialReaderTo, IsMakeSequential
<1>4. IsMakeSequential(MakeSequentialReaderTo, Depth) BY <1>2, <1>3
<1> QED BY <1>4 DEF IsMakeSequential

IsContent(f, n) ==
    f = [k \in 0 .. n |->
           [i \in ItemsTo[k] |-> ContentWith(f[k - 1], i)]]

LEMMA ContentExists ==
  \A n \in Nat : \E f : IsContent(f, n)
<1> DEFINE Value(h, k) ==
             [i \in ItemsTo[k] |-> ContentWith(h[k - 1], i)]
           T == {n \in Nat : \E f : IsContent(f, n)}
<1>1. 0 \in T
  <2> DEFINE g == [k \in 0 .. 0 |-> [i \in {} |-> 0]]
  <2>1. IsContent(g, 0) BY NothingAtDepth0 DEF IsContent
  <2> QED BY <2>1
<1>2. ASSUME NEW n \in Nat, n \in T PROVE n + 1 \in T
  <2>1. PICK f : IsContent(f, n) BY <1>2
  <2>2. \A k \in 0 .. n : f[k] = Value(f, k) BY <2>1 DEF IsContent
  <2> DEFINE g == [k \in 0 .. n + 1 |-> IF k = n + 1 THEN Value(f, k) ELSE f[k]]
  <2>3. ASSUME NEW k \in 0 .. n + 1 PROVE g[k] = Value(g, k)
    <3>1. g[k] = Value(f, k)
      <4>1. CASE k = n + 1 BY <4>1
      <4>2. CASE k # n + 1
        <5>1. k \in 0 .. n BY <4>2
        <5>2. g[k] = f[k] BY <4>2
        <5> HIDE DEF Value
        <5> QED BY <2>2, <5>1, <5>2
      <4> QED BY <4>1, <4>2
    <3>2. CASE k = 0 BY <3>1, <3>2, NothingAtDepth0
    <3>3. CASE k # 0
      <4>1. k - 1 \in 0 .. n /\ k - 1 # n + 1 /\ k - 1 \in 0 .. n + 1 BY <3>3
      <4>2. g[k - 1] = f[k - 1] BY <4>1
      <4> HIDE DEF g
      <4> QED BY <3>1, <4>2
    <3> QED BY <3>2, <3>3
  <2>4. g = [k \in 0 .. n + 1 |-> g[k]] OBVIOUS
  <2> HIDE DEF g
  <2>5. IsContent(g, n + 1) BY <2>3, <2>4 DEF IsContent
  <2> QED BY <2>5
<1> HIDE DEF T
<1>3. Nat \subseteq T BY <1>1, <1>2, EveryNumber
<1> QED BY <1>3 DEF T

LEMMA ContentToIs ==
  \A d \in 0 .. Depth : ContentTo[d] =
    [i \in ItemsTo[d] |-> ContentWith(ContentTo[d - 1], i)]
<1>1. Depth \in Nat BY ReadersAssumption
<1>2. \E f : IsContent(f, Depth) BY <1>1, ContentExists
<1>3. ContentTo = CHOOSE f : IsContent(f, Depth) BY DEF ContentTo, IsContent
<1>4. IsContent(ContentTo, Depth) BY <1>2, <1>3
<1> QED BY <1>4 DEF IsContent

IsWhole(f, n) ==
    f = [k \in 0 .. n |->
           [i \in ItemsTo[k] |-> WholeWith(f[k - 1], ContentTo[k - 1], i)]]

LEMMA WholeExists ==
  \A n \in Nat : \E f : IsWhole(f, n)
<1> DEFINE Value(h, k) ==
             [i \in ItemsTo[k] |-> WholeWith(h[k - 1], ContentTo[k - 1], i)]
           T == {n \in Nat : \E f : IsWhole(f, n)}
<1>1. 0 \in T
  <2> DEFINE g == [k \in 0 .. 0 |-> [i \in {} |-> 0]]
  <2>1. IsWhole(g, 0) BY NothingAtDepth0 DEF IsWhole
  <2> QED BY <2>1
<1>2. ASSUME NEW n \in Nat, n \in T PROVE n + 1 \in T
  <2>1. PICK f : IsWhole(f, n) BY <1>2
  <2>2. \A k \in 0 .. n : f[k] = Value(f, k) BY <2>1 DEF IsWhole
  <2> DEFINE g == [k \in 0 .. n + 1 |-> IF k = n + 1 THEN Value(f, k) ELSE f[k]]
  <2>3. ASSUME NEW k \in 0 .. n + 1 PROVE g[k] = Value(g, k)
    <3>1. g[k] = Value(f, k)
      <4>1. CASE k = n + 1 BY <4>1
      <4>2. CASE k # n + 1
        <5>1. k \in 0 .. n BY <4>2
        <5>2. g[k] = f[k] BY <4>2
        <5> HIDE DEF Value
        <5> QED BY <2>2, <5>1, <5>2
      <4> QED BY <4>1, <4>2
    <3>2. CASE k = 0 BY <3>1, <3>2, NothingAtDepth0
    <3>3. CASE k # 0
      <4>1. k - 1 \in 0 .. n /\ k - 1 # n + 1 /\ k - 1 \in 0 .. n + 1 BY <3>3
      <4>2. g[k - 1] = f[k - 1] BY <4>1
      <4> HIDE DEF g
      <4> QED BY <3>1, <4>2
    <3> QED BY <3>2, <3>3
  <2>4. g = [k \in 0 .. n + 1 |-> g[k]] OBVIOUS
  <2> HIDE DEF g
  <2>5. IsWhole(g, n + 1) BY <2>3, <2>4 DEF IsWhole
  <2> QED BY <2>5
<1> HIDE DEF T
<1>3. Nat \subseteq T BY <1>1, <1>2, EveryNumber
<1> QED BY <1>3 DEF T

LEMMA WholeToIs ==
  \A d \in 0 .. Depth : WholeTo[d] =
    [i \in ItemsTo[d] |-> WholeWith(WholeTo[d - 1], ContentTo[d - 1], i)]
<1>1. Depth \in Nat BY ReadersAssumption
<1>2. \E f : IsWhole(f, Depth) BY <1>1, WholeExists
<1>3. WholeTo = CHOOSE f : IsWhole(f, Depth) BY DEF WholeTo, IsWhole
<1>4. IsWhole(WholeTo, Depth) BY <1>2, <1>3
<1> QED BY <1>4 DEF IsWhole
-----------------------------------------------------------------------------
(* Offsets.                                                                *)

LEMMA OffsetsGrow ==
  ASSUME NEW parts, Len(parts) \in Nat,
         \A k \in 1 .. Len(parts) : parts[k].length \in Nat
  PROVE  \A j \in 0 .. Len(parts) : \A i \in 0 .. j :
            Offsets(parts)[i] \in Nat /\ Offsets(parts)[i] <= Offsets(parts)[j]
<1> DEFINE f == Offsets(parts)
           n == Len(parts)
           T == {j \in Nat : \A i \in 0 .. j : f[i] \in Nat /\ f[i] <= f[j]}
<1>1. f[0] = 0 /\ \A k \in 1 .. n : f[k] = f[k - 1] + parts[k].length BY OffsetsAre
<1>2. n \in Nat OBVIOUS
<1> HIDE DEF f, n
<1>3. 0 \in T BY <1>1
<1>4. ASSUME NEW k \in 1 .. n, k - 1 \in T PROVE k \in T
  <2>1. \A i \in 0 .. k - 1 : f[i] \in Nat /\ f[i] <= f[k - 1] BY <1>4
  <2>2. parts[k].length \in Nat BY DEF n
  <2>3. f[k] \in Nat /\ f[k - 1] \in Nat /\ f[k - 1] <= f[k]
    <3>1. k - 1 \in 0 .. k - 1 BY <1>2
    <3>2. f[k - 1] \in Nat BY <2>1, <3>1
    <3>3. f[k] = f[k - 1] + parts[k].length BY <1>1
    <3> QED BY <2>2, <3>2, <3>3
  <2>4. ASSUME NEW i \in 0 .. k PROVE f[i] \in Nat /\ f[i] <= f[k]
    <3>1. CASE i = k BY <2>3, <3>1
    <3>2. CASE i # k
      <4>1. i \in 0 .. k - 1 BY <1>2, <3>2
      <4>2. f[i] \in Nat /\ f[i] <= f[k - 1] BY <2>1, <4>1
      <4> QED BY <2>3, <4>2
    <3> QED BY <3>1, <3>2
  <2> QED BY <2>4
<1> HIDE DEF T
<1>5. 0 .. n \subseteq T BY <1>2, <1>3, <1>4, EveryNumberTo
<1> QED BY <1>5 DEF T, n, f

\* Parts of some length, one after the other.
LEMMA OffsetsApart ==
  ASSUME NEW parts, Len(parts) \in Nat,
         \A k \in 1 .. Len(parts) : parts[k].length \in Nat
  PROVE  /\ Offsets(parts)[0] = 0 /\ Offsets(parts)[Len(parts)] \in Nat
         /\ \A k \in 1 .. Len(parts) :
               /\ Offsets(parts)[k] \in Nat /\ Offsets(parts)[k - 1] \in Nat
               /\ Offsets(parts)[k] = Offsets(parts)[k - 1] + parts[k].length
               /\ Offsets(parts)[k] <= Offsets(parts)[Len(parts)]
               /\ \A j \in 1 .. k - 1 : Offsets(parts)[j] <= Offsets(parts)[k - 1]
<1> DEFINE f == Offsets(parts)
           n == Len(parts)
<1>1. /\ n \in Nat /\ f[0] = 0
      /\ \A k \in 1 .. n : f[k] = f[k - 1] + parts[k].length
  BY OffsetsAre
<1>2. \A j \in 0 .. n : \A i \in 0 .. j : f[i] \in Nat /\ f[i] <= f[j] BY OffsetsGrow
<1> HIDE DEF f, n
<1>3. n \in 0 .. n /\ n \in 0 .. n BY <1>1
<1>4. f[n] \in Nat BY <1>2, <1>3
<1>5. ASSUME NEW k \in 1 .. n
      PROVE  /\ f[k] \in Nat /\ f[k - 1] \in Nat /\ f[k] <= f[n]
             /\ \A j \in 1 .. k - 1 : f[j] <= f[k - 1]
  <2>1. k \in 0 .. n /\ k - 1 \in 0 .. n /\ k - 1 \in 0 .. k - 1 /\ k \in 0 .. k BY <1>1
  <2>2. \A j \in 1 .. k - 1 : j \in 0 .. k - 1 OBVIOUS
  <2> QED BY <1>2, <1>3, <2>1, <2>2
<1> QED BY <1>1, <1>4, <1>5 DEF f, n

-----------------------------------------------------------------------------
(* The part that holds an offset.                                          *)

\* Views that are all there, and not empty.
AreViews(parts) ==
    parts \in Seq(Views) /\ \A k \in 1 .. Len(parts) : IsView(parts[k])

LEMMA ViewsAre ==
  ASSUME NEW parts, AreViews(parts)
  PROVE  /\ Len(parts) \in Nat /\ DOMAIN parts = 1 .. Len(parts)
         /\ \A k \in 1 .. Len(parts) :
               /\ IsView(parts[k]) /\ parts[k] \in Views
               /\ parts[k].length \in Nat /\ parts[k].length > 0
<1>1. Len(parts) \in Nat /\ DOMAIN parts = 1 .. Len(parts)
  BY LenProperties DEF AreViews
<1>2. ASSUME NEW k \in 1 .. Len(parts)
      PROVE  /\ IsView(parts[k]) /\ parts[k] \in Views
             /\ parts[k].length \in Nat /\ parts[k].length > 0
  <2>1. IsView(parts[k]) BY DEF AreViews
  <2> QED BY <2>1, ViewIs DEF IsView
<1> QED BY <1>1, <1>2 DEF AreViews

LEMMA PartAtIs ==
  ASSUME NEW parts, AreViews(parts), Len(parts) > 0, NEW o \in Nat
  PROVE  LET k == PartAt(parts, o)
             f == Offsets(parts)
         IN /\ k \in 1 .. Len(parts) /\ f[k - 1] <= o
            /\ o < f[Len(parts)] => o < f[k]
            /\ o >= f[Len(parts)] => k = Len(parts)
<1> DEFINE k == PartAt(parts, o)
           f == Offsets(parts)
           n == Len(parts)
           bound == {j \in 1 .. n : f[j - 1] >= o}
<1>1. /\ n \in Nat /\ n > 0 /\ f[0] = 0 /\ f[n] \in Nat
      /\ \A j \in 1 .. n : /\ f[j] \in Nat /\ f[j - 1] \in Nat /\ f[j - 1] < f[j] /\ f[j] <= f[n]
  <2>1. /\ n \in Nat /\ n > 0 /\ \A j \in 1 .. n : parts[j].length \in Nat /\ parts[j].length > 0
    BY ViewsAre
  <2>2. /\ f[0] = 0 /\ f[n] \in Nat
        /\ \A j \in 1 .. n : /\ f[j] \in Nat /\ f[j - 1] \in Nat /\ f[j] <= f[n]
                             /\ f[j] = f[j - 1] + parts[j].length
    BY <2>1, OffsetsApart
  <2> HIDE DEF f, n
  <2>3. ASSUME NEW j \in 1 .. n PROVE f[j - 1] < f[j]
    <3>1. f[j] \in Nat /\ f[j - 1] \in Nat /\ f[j] = f[j - 1] + parts[j].length BY <2>2
    <3>2. parts[j].length \in Nat /\ parts[j].length > 0 BY <2>1
    <3> QED BY <3>1, <3>2
  <2> QED BY <2>1, <2>2, <2>3
<1>2. DOMAIN parts = 1 .. n BY ViewsAre
<1>3. k = IF bound = {} THEN n
          ELSE IF Min(bound) > 1 /\ o < f[Min(bound) - 1] THEN Min(bound) - 1 ELSE Min(bound)
  BY <1>2 DEF PartAt, OffsetOfPart
<1>4. bound \subseteq Nat BY <1>1
<1> HIDE DEF k, f, n
<1>5. CASE bound = {}
  <2>1. k = n /\ n \in 1 .. n BY <1>1, <1>3, <1>5
  <2>2. f[n - 1] < o
    <3>1. n \in 1 .. n /\ f[n - 1] \in Nat BY <1>1
    <3>2. ~(f[n - 1] >= o) BY <1>5, <3>1
    <3> QED BY <3>1, <3>2
  <2> QED BY <1>1, <2>1, <2>2 DEF f, k, n
<1>6. CASE bound # {}
  <2> DEFINE m == Min(bound)
  <2>1. m \in bound /\ \A j \in bound : m <= j
    <3> HIDE DEF bound
    <3>1. \E x \in bound : \A y \in bound : x <= y BY <1>4, <1>6, LeastNumber
    <3> QED BY <3>1 DEF Min
  <2>2. k = IF m > 1 /\ o < f[m - 1] THEN m - 1 ELSE m BY <1>3, <1>6
  <2> HIDE DEF m
  <2>3. m \in 1 .. n /\ f[m - 1] >= o BY <2>1
  <2>4. CASE m > 1 /\ o < f[m - 1]
    <3>1. k = m - 1 /\ k \in 1 .. n BY <1>1, <2>2, <2>3, <2>4
    <3>2. k \notin bound
      <4>1. ~(m <= k) BY <2>3, <3>1
      <4> HIDE DEF bound
      <4> QED BY <2>1, <4>1
    <3>3. f[k - 1] < o
      <4>1. ~(f[k - 1] >= o) BY <3>1, <3>2
      <4>2. f[k - 1] \in Nat BY <1>1, <3>1
      <4> QED BY <4>1, <4>2
    <3>4. o < f[k] /\ o < f[n] BY <1>1, <2>4, <3>1
    <3> QED BY <1>1, <3>1, <3>3, <3>4 DEF f, k, n
  <2>5. CASE ~(m > 1 /\ o < f[m - 1])
    <3>1. k = m /\ k \in 1 .. n BY <2>2, <2>3, <2>5
    <3>2. o = f[k - 1] BY <1>1, <2>3, <2>5, <3>1
    <3>3. o < f[k] /\ o < f[n]
      <4>1. f[k] \in Nat /\ f[k - 1] < f[k] /\ f[k] <= f[n] /\ f[n] \in Nat BY <1>1, <3>1
      <4> QED BY <3>2, <4>1
    <3> QED BY <1>1, <3>1, <3>2, <3>3 DEF f, k, n
  <2> QED BY <2>4, <2>5
<1> QED BY <1>5, <1>6

-----------------------------------------------------------------------------
(* Views that are, one after the other, some bytes.                        *)

LEMMA BytesOfLeft ==
  ASSUME NEW x \in Seq(Nat), NEW y \in Seq(Nat), NEW o \in Nat, NEW n \in Nat,
         o + n <= Len(x)
  PROVE  Bytes(x \o y, o, n) = Bytes(x, o, n)
<1> DEFINE z == x \o y
<1>1. Len(x) \in Nat /\ Len(y) \in Nat BY LenProperties
<1>2. /\ z \in Seq(Nat) /\ Len(z) = Len(x) + Len(y)
      /\ \A k \in 1 .. Len(x) + Len(y) : z[k] = IF k <= Len(x) THEN x[k] ELSE y[k - Len(x)]
  BY ConcatProperties
<1> HIDE DEF z
<1>3. o + n <= Len(z) BY <1>1, <1>2
<1>4. /\ Bytes(z, o, n) \in Seq(Nat) /\ Len(Bytes(z, o, n)) = n
      /\ \A k \in 1 .. n : Bytes(z, o, n)[k] = z[o + k]
  BY <1>2, <1>3, BytesWithin
<1>5. /\ Bytes(x, o, n) \in Seq(Nat) /\ Len(Bytes(x, o, n)) = n
      /\ \A k \in 1 .. n : Bytes(x, o, n)[k] = x[o + k]
  BY BytesWithin
<1>6. ASSUME NEW k \in 1 .. n PROVE Bytes(z, o, n)[k] = Bytes(x, o, n)[k]
  <2>1. o + k \in 1 .. Len(x) + Len(y) /\ o + k <= Len(x) BY <1>1
  <2> QED BY <1>2, <1>4, <1>5, <2>1
<1>7. Bytes(z, o, n) = Bytes(x, o, n) BY <1>4, <1>5, <1>6, SeqEqual
<1> QED BY <1>7 DEF z

LEMMA BytesOfRight ==
  ASSUME NEW x \in Seq(Nat), NEW y \in Seq(Nat), NEW o \in Nat, NEW n \in Nat,
         o + n <= Len(y)
  PROVE  Bytes(x \o y, Len(x) + o, n) = Bytes(y, o, n)
<1> DEFINE z == x \o y
           l == Len(x)
<1>1. l \in Nat /\ Len(y) \in Nat BY LenProperties
<1>2. /\ z \in Seq(Nat) /\ Len(z) = l + Len(y)
      /\ \A k \in 1 .. l + Len(y) : z[k] = IF k <= l THEN x[k] ELSE y[k - l]
  BY ConcatProperties
<1> HIDE DEF z, l
<1>3. l + o \in Nat /\ (l + o) + n <= Len(z) BY <1>1, <1>2
<1>4. /\ Bytes(z, l + o, n) \in Seq(Nat) /\ Len(Bytes(z, l + o, n)) = n
      /\ \A k \in 1 .. n : Bytes(z, l + o, n)[k] = z[(l + o) + k]
  BY <1>2, <1>3, BytesWithin
<1>5. /\ Bytes(y, o, n) \in Seq(Nat) /\ Len(Bytes(y, o, n)) = n
      /\ \A k \in 1 .. n : Bytes(y, o, n)[k] = y[o + k]
  BY BytesWithin
<1>6. ASSUME NEW k \in 1 .. n PROVE Bytes(z, l + o, n)[k] = Bytes(y, o, n)[k]
  <2>1. /\ (l + o) + k \in 1 .. l + Len(y) /\ ~((l + o) + k <= l)
        /\ ((l + o) + k) - l = o + k
    BY <1>1
  <2>2. z[(l + o) + k] = y[o + k] BY <1>2, <2>1
  <2> QED BY <1>4, <1>5, <2>2
<1>7. Bytes(z, l + o, n) = Bytes(y, o, n) BY <1>4, <1>5, <1>6, SeqEqual
<1> QED BY <1>7 DEF z, l

\* The views are the bytes b.
Covers(parts, b) ==
    /\ AreViews(parts) /\ b \in Seq(Nat)
    /\ Offsets(parts)[Len(parts)] = Len(b)
    /\ \A k \in 1 .. Len(parts) :
          ContentOfView(parts[k]) = Bytes(b, Offsets(parts)[k - 1], parts[k].length)

LEMMA OffsetsOfViews ==
  ASSUME NEW parts, AreViews(parts)
  PROVE  /\ Len(parts) \in Nat /\ Offsets(parts)[0] = 0 /\ Offsets(parts)[Len(parts)] \in Nat
         /\ \A k \in 1 .. Len(parts) :
               /\ Offsets(parts)[k] \in Nat /\ Offsets(parts)[k - 1] \in Nat
               /\ parts[k].length \in Nat /\ parts[k].length > 0
               /\ Offsets(parts)[k] = Offsets(parts)[k - 1] + parts[k].length
               /\ Offsets(parts)[k] <= Offsets(parts)[Len(parts)]
<1>1. /\ Len(parts) \in Nat
      /\ \A k \in 1 .. Len(parts) : parts[k].length \in Nat /\ parts[k].length > 0
  BY ViewsAre
<1> QED BY <1>1, OffsetsApart

LEMMA OneCovers ==
  ASSUME NEW v, IsView(v)
  PROVE  Covers(<<v>>, ContentOfView(v))
<1> DEFINE p == <<v>>
           c == ContentOfView(v)
<1>1. /\ v \in Views /\ v.length \in Nat /\ c \in Seq(Nat) /\ Len(c) = v.length
  BY ViewIs DEF IsView
<1>2. p \in Seq(Views) /\ Len(p) = 1 /\ p[1] = v BY <1>1
<1>3. AreViews(p) BY <1>2 DEF AreViews
<1> HIDE DEF p, c
<1>4. Offsets(p)[0] = 0 /\ Offsets(p)[1] = v.length
  <2>1. 1 \in 1 .. Len(p) /\ 1 - 1 = 0 BY <1>2
  <2>2. Offsets(p)[0] = 0 /\ Offsets(p)[1] = Offsets(p)[1 - 1] + p[1].length
    BY <1>3, <2>1, OffsetsOfViews
  <2> QED BY <1>1, <1>2, <2>1, <2>2
<1>5. Bytes(c, 0, v.length) = c BY <1>1, AllBytes
<1>6. \A k \in 1 .. Len(p) : k = 1 /\ k - 1 = 0 BY <1>2
<1>7. Covers(p, c) BY <1>1, <1>2, <1>3, <1>4, <1>5, <1>6 DEF Covers, c
<1> QED BY <1>7 DEF p, c

LEMMA NoneCover ==
  Covers(<<>>, <<>>)
<1>1. <<>> \in Seq(Views) /\ Len(<<>>) = 0 /\ <<>> \in Seq(Nat) OBVIOUS
<1>2. AreViews(<<>>) BY <1>1 DEF AreViews
<1>3. Offsets(<<>>)[0] = 0 BY <1>2, OffsetsOfViews
<1> QED BY <1>1, <1>2, <1>3 DEF Covers

\* Views after views.
LEMMA OffsetsJoined ==
  ASSUME NEW p, AreViews(p), NEW q, AreViews(q)
  PROVE  /\ AreViews(p \o q) /\ Len(p \o q) = Len(p) + Len(q)
         /\ \A k \in 1 .. Len(p) : (p \o q)[k] = p[k]
         /\ \A k \in 1 .. Len(q) : (p \o q)[Len(p) + k] = q[k]
         /\ \A k \in 0 .. Len(p) : Offsets(p \o q)[k] = Offsets(p)[k]
         /\ \A k \in 0 .. Len(q) :
               Offsets(p \o q)[Len(p) + k] = Offsets(p)[Len(p)] + Offsets(q)[k]
<1> DEFINE r == p \o q
           l == Len(p)
           n == Len(q)
<1>1. l \in Nat /\ n \in Nat /\ p \in Seq(Views) /\ q \in Seq(Views)
  BY ViewsAre DEF AreViews
<1>2. /\ r \in Seq(Views) /\ Len(r) = l + n
      /\ \A k \in 1 .. l + n : r[k] = IF k <= l THEN p[k] ELSE q[k - l]
  BY <1>1, ConcatProperties
<1>0. /\ \A k \in 1 .. l : IsView(p[k]) /\ p[k].length \in Nat
      /\ \A k \in 1 .. n : IsView(q[k]) /\ q[k].length \in Nat
  BY ViewsAre
<1> HIDE DEF r, l, n
<1>3. \A k \in 1 .. l : r[k] = p[k] /\ k \in 1 .. l + n BY <1>1, <1>2
<1>4. ASSUME NEW k \in 1 .. n PROVE r[l + k] = q[k] /\ l + k \in 1 .. l + n
  <2>1. l + k \in 1 .. l + n /\ ~(l + k <= l) /\ (l + k) - l = k BY <1>1
  <2> QED BY <1>2, <2>1
<1>5. ASSUME NEW k \in 1 .. l + n PROVE IsView(r[k])
  <2>1. CASE k <= l
    <3>1. k \in 1 .. l BY <1>1, <2>1
    <3> QED BY <1>0, <1>3, <3>1
  <2>2. CASE ~(k <= l)
    <3>1. k - l \in 1 .. n BY <1>1, <2>2
    <3> QED BY <1>0, <1>2, <2>2, <3>1
  <2> QED BY <2>1, <2>2
<1>6. AreViews(r) BY <1>2, <1>5 DEF AreViews
<1>7. /\ Offsets(r)[0] = 0
      /\ \A k \in 1 .. l + n : Offsets(r)[k] = Offsets(r)[k - 1] + r[k].length
  BY <1>2, <1>6, OffsetsOfViews
<1>8. /\ Offsets(p)[0] = 0 /\ Offsets(p)[l] \in Nat
      /\ \A k \in 1 .. l : Offsets(p)[k] = Offsets(p)[k - 1] + p[k].length
  BY OffsetsOfViews DEF l
<1>9. /\ Offsets(q)[0] = 0
      /\ \A k \in 1 .. n : /\ Offsets(q)[k] = Offsets(q)[k - 1] + q[k].length
                           /\ Offsets(q)[k - 1] \in Nat
  BY OffsetsOfViews DEF n
<1>10. \A k \in 0 .. l : Offsets(r)[k] = Offsets(p)[k]
  <2> DEFINE T == {k \in Nat : Offsets(r)[k] = Offsets(p)[k]}
  <2>1. 0 \in T BY <1>7, <1>8
  <2>2. ASSUME NEW k \in 1 .. l, k - 1 \in T PROVE k \in T
    <3>1. /\ Offsets(r)[k] = Offsets(r)[k - 1] + r[k].length
          /\ Offsets(p)[k] = Offsets(p)[k - 1] + p[k].length
          /\ r[k] = p[k]
      BY <1>3, <1>7, <1>8
    <3>2. Offsets(r)[k - 1] = Offsets(p)[k - 1] BY <2>2
    <3> QED BY <1>1, <3>1, <3>2
  <2> HIDE DEF T
  <2>3. 0 .. l \subseteq T BY <1>1, <2>1, <2>2, EveryNumberTo
  <2> QED BY <2>3 DEF T
<1>11. \A k \in 0 .. n : Offsets(r)[l + k] = Offsets(p)[l] + Offsets(q)[k]
  <2> DEFINE T == {k \in Nat : Offsets(r)[l + k] = Offsets(p)[l] + Offsets(q)[k]}
  <2>1. 0 \in T
    <3>1. l \in 0 .. l /\ l + 0 = l BY <1>1
    <3>2. Offsets(r)[l + 0] = Offsets(p)[l] BY <1>10, <3>1
    <3> QED BY <1>8, <1>9, <3>2
  <2>2. ASSUME NEW k \in 1 .. n, k - 1 \in T PROVE k \in T
    <3>1. (l + k) - 1 = l + (k - 1) BY <1>1
    <3>2. /\ Offsets(r)[l + k] = Offsets(r)[(l + k) - 1] + r[l + k].length
          /\ r[l + k] = q[k]
      BY <1>4, <1>7
    <3>3. Offsets(r)[l + (k - 1)] = Offsets(p)[l] + Offsets(q)[k - 1] BY <2>2
    <3>4. /\ Offsets(q)[k] = Offsets(q)[k - 1] + q[k].length /\ Offsets(q)[k - 1] \in Nat
          /\ q[k].length \in Nat
      BY <1>0, <1>9
    <3>5. Offsets(r)[l + k] = (Offsets(p)[l] + Offsets(q)[k - 1]) + q[k].length
      BY <3>1, <3>2, <3>3
    <3>6. Offsets(r)[l + k] = Offsets(p)[l] + Offsets(q)[k] BY <1>8, <3>4, <3>5
    <3> QED BY <3>6
  <2> HIDE DEF T
  <2>3. 0 .. n \subseteq T BY <1>1, <2>1, <2>2, EveryNumberTo
  <2> QED BY <2>3 DEF T
<1> QED BY <1>2, <1>3, <1>4, <1>6, <1>10, <1>11 DEF r, l, n

LEMMA CoversJoined ==
  ASSUME NEW p, NEW x, Covers(p, x), NEW q, NEW y, Covers(q, y)
  PROVE  Covers(p \o q, x \o y)
<1> DEFINE r == p \o q
           z == x \o y
           l == Len(p)
           n == Len(q)
<1>1. AreViews(p) /\ AreViews(q) /\ x \in Seq(Nat) /\ y \in Seq(Nat) BY DEF Covers
<1>2. /\ AreViews(r) /\ Len(r) = l + n
      /\ \A k \in 1 .. l : r[k] = p[k]
      /\ \A k \in 1 .. n : r[l + k] = q[k]
      /\ \A k \in 0 .. l : Offsets(r)[k] = Offsets(p)[k]
      /\ \A k \in 0 .. n : Offsets(r)[l + k] = Offsets(p)[l] + Offsets(q)[k]
  BY <1>1, OffsetsJoined
<1>3. z \in Seq(Nat) /\ Len(z) = Len(x) + Len(y) /\ Len(x) \in Nat /\ Len(y) \in Nat
  BY <1>1, ConcatProperties, LenProperties
<1>4. /\ l \in Nat /\ Offsets(p)[l] = Len(x)
      /\ \A k \in 1 .. l :
            /\ Offsets(p)[k - 1] \in Nat /\ p[k].length \in Nat
            /\ Offsets(p)[k - 1] + p[k].length <= Len(x)
            /\ ContentOfView(p[k]) = Bytes(x, Offsets(p)[k - 1], p[k].length)
  <2>1. l \in Nat /\ Offsets(p)[l] = Len(x) BY <1>1, ViewsAre DEF Covers
  <2>2. ASSUME NEW k \in 1 .. l
        PROVE  /\ Offsets(p)[k - 1] \in Nat /\ p[k].length \in Nat
               /\ Offsets(p)[k - 1] + p[k].length <= Len(x)
    <3>1. /\ Offsets(p)[k - 1] \in Nat /\ p[k].length \in Nat
          /\ Offsets(p)[k] = Offsets(p)[k - 1] + p[k].length
          /\ Offsets(p)[k] <= Offsets(p)[l]
      BY <1>1, OffsetsOfViews
    <3> QED BY <2>1, <3>1
  <2>3. \A k \in 1 .. l : ContentOfView(p[k]) = Bytes(x, Offsets(p)[k - 1], p[k].length)
    BY DEF Covers
  <2> QED BY <2>1, <2>2, <2>3
<1>5. /\ n \in Nat /\ Offsets(q)[n] = Len(y)
      /\ \A k \in 1 .. n :
            /\ Offsets(q)[k - 1] \in Nat /\ q[k].length \in Nat
            /\ Offsets(q)[k - 1] + q[k].length <= Len(y)
            /\ ContentOfView(q[k]) = Bytes(y, Offsets(q)[k - 1], q[k].length)
  <2>1. n \in Nat /\ Offsets(q)[n] = Len(y) BY <1>1, ViewsAre DEF Covers
  <2>2. ASSUME NEW k \in 1 .. n
        PROVE  /\ Offsets(q)[k - 1] \in Nat /\ q[k].length \in Nat
               /\ Offsets(q)[k - 1] + q[k].length <= Len(y)
    <3>1. /\ Offsets(q)[k - 1] \in Nat /\ q[k].length \in Nat
          /\ Offsets(q)[k] = Offsets(q)[k - 1] + q[k].length
          /\ Offsets(q)[k] <= Offsets(q)[n]
      BY <1>1, OffsetsOfViews
    <3> QED BY <2>1, <3>1
  <2>3. \A k \in 1 .. n : ContentOfView(q[k]) = Bytes(y, Offsets(q)[k - 1], q[k].length)
    BY DEF Covers
  <2> QED BY <2>1, <2>2, <2>3
<1>6. Offsets(r)[Len(r)] = Len(z)
  <2>1. n \in 0 .. n BY <1>5
  <2> HIDE DEF r, z, l, n
  <2> QED BY <1>2, <1>3, <1>4, <1>5, <2>1
<1>7. ASSUME NEW k \in 1 .. Len(r)
      PROVE  ContentOfView(r[k]) = Bytes(z, Offsets(r)[k - 1], r[k].length)
  <2>1. CASE k <= l
    <3> HIDE DEF r, l, n
    <3>1. k \in 1 .. l /\ k - 1 \in 0 .. l BY <1>4, <2>1
    <3>2. r[k] = p[k] /\ Offsets(r)[k - 1] = Offsets(p)[k - 1] BY <1>2, <3>1
    <3>3. Bytes(z, Offsets(p)[k - 1], p[k].length) = Bytes(x, Offsets(p)[k - 1], p[k].length)
      BY <1>1, <1>4, <3>1, BytesOfLeft
    <3> QED BY <1>4, <3>1, <3>2, <3>3
  <2>2. CASE ~(k <= l)
    <3> DEFINE j == k - l
    <3>1. j \in 1 .. n /\ j - 1 \in 0 .. n /\ k = l + j /\ k - 1 = l + (j - 1)
      <4> HIDE DEF r, l, n
      <4> QED BY <1>2, <1>4, <1>5, <2>2
    <3> HIDE DEF r, l, n, j
    <3>2. r[k] = q[j] /\ Offsets(r)[k - 1] = Offsets(p)[l] + Offsets(q)[j - 1]
      BY <1>2, <3>1
    <3>3. Bytes(z, Len(x) + Offsets(q)[j - 1], q[j].length)
            = Bytes(y, Offsets(q)[j - 1], q[j].length)
      BY <1>1, <1>5, <3>1, BytesOfRight
    <3> QED BY <1>4, <1>5, <3>1, <3>2, <3>3
  <2> QED BY <2>1, <2>2
<1> HIDE DEF r, z
<1>8. Covers(r, z) BY <1>2, <1>3, <1>6, <1>7 DEF Covers
<1> QED BY <1>8 DEF r, z

LEMMA PieceOf ==
  ASSUME NEW parts, NEW b, Covers(parts, b), NEW j \in 1 .. Len(parts),
         NEW w \in Nat, NEW q \in Nat, w + q <= parts[j].length
  PROVE  /\ Bytes(ContentOfView(parts[j]), w, q) = Bytes(b, Offsets(parts)[j - 1] + w, q)
         /\ (Offsets(parts)[j - 1] + w) + q <= Len(b)
<1> DEFINE p == Offsets(parts)[j - 1]
           l == parts[j].length
<1>1. /\ p \in Nat /\ l \in Nat /\ p + l <= Len(b) /\ b \in Seq(Nat) /\ Len(b) \in Nat
      /\ ContentOfView(parts[j]) = Bytes(b, p, l)
  <2>1. AreViews(parts) /\ b \in Seq(Nat) /\ Offsets(parts)[Len(parts)] = Len(b)
    BY DEF Covers
  <2>2. /\ p \in Nat /\ l \in Nat /\ Offsets(parts)[j] = p + l
        /\ Offsets(parts)[j] <= Offsets(parts)[Len(parts)]
    BY <2>1, OffsetsOfViews
  <2>3. ContentOfView(parts[j]) = Bytes(b, p, l) BY DEF Covers
  <2>4. Len(b) \in Nat BY <2>1, LenProperties
  <2> QED BY <2>1, <2>2, <2>3, <2>4
<1>2. w + q <= l OBVIOUS
<1> HIDE DEF p, l
<1>3. Bytes(Bytes(b, p, l), w, q) = Bytes(b, p + w, q) BY <1>1, <1>2, BytesOfBytes
<1>4. (p + w) + q <= Len(b) BY <1>1, <1>2
<1> QED BY <1>1, <1>3, <1>4 DEF p

-----------------------------------------------------------------------------
(* Random access.                                                          *)

IsReaderOf(r, b) ==
    /\ r = [chained |-> r.chained, parts |-> r.parts] /\ r.chained \in BOOLEAN
    /\ Covers(r.parts, b) /\ Len(b) > 0
    /\ ~r.chained => Len(r.parts) = 1

LEMMA ReaderIs ==
  ASSUME NEW r, NEW b, IsReaderOf(r, b)
  PROVE  /\ b \in Seq(Nat) /\ Len(b) \in Nat /\ Len(b) > 0
         /\ Covers(r.parts, b) /\ AreViews(r.parts)
         /\ Len(r.parts) \in Nat /\ Len(r.parts) > 0
         /\ SizeOfReader(r) = Len(b)
<1>1. Covers(r.parts, b) /\ AreViews(r.parts) /\ b \in Seq(Nat) /\ Len(b) > 0
      /\ Offsets(r.parts)[Len(r.parts)] = Len(b)
  BY DEF IsReaderOf, Covers
<1>2. Len(b) \in Nat BY <1>1, LenProperties
<1>3. Len(r.parts) \in Nat /\ Offsets(r.parts)[0] = 0 BY <1>1, OffsetsOfViews
<1>4. Len(r.parts) # 0 BY <1>1, <1>3
<1> QED BY <1>1, <1>2, <1>3, <1>4 DEF SizeOfReader

LEMMA SimpleIs ==
  ASSUME NEW v, IsView(v)
  PROVE  IsReaderOf(Simple(v), ContentOfView(v))
<1>1. Simple(v) = [chained |-> FALSE, parts |-> <<v>>] BY DEF Simple
<1>2. Covers(<<v>>, ContentOfView(v)) BY OneCovers
<1>3. Len(ContentOfView(v)) > 0 BY ViewIs
<1> QED BY <1>1, <1>2, <1>3 DEF IsReaderOf

\* What the loop over the parts has read before part j + 1.
ReadTurn(t, parts, b, first, o, n, j) ==
    \E m \in Nat, e \in BOOLEAN :
       /\ m <= n /\ o + m <= Len(b)
       /\ t = [got |-> Bytes(b, o, m), left |-> n - m, ended |-> e]
       /\ \/ m = n
          \/ /\ ~e
             /\ o + m = IF j < first THEN o ELSE Offsets(parts)[j]

LEMMA ReadTurnKept ==
  ASSUME NEW parts, NEW b, Covers(parts, b), NEW o \in Nat, NEW n \in Nat,
         NEW k \in 1 .. Len(parts), Offsets(parts)[k - 1] <= o, o < Offsets(parts)[k],
         NEW j \in 1 .. Len(parts), k <= j, NEW t, ReadTurn(t, parts, b, k, o, n, j - 1)
  PROVE  ReadTurn(ReadPart(t, parts[j], Within(k, j, o - Offsets(parts)[k - 1])),
                  parts, b, k, o, n, j)
<1> DEFINE f == Offsets(parts)
           v == parts[j]
           w == Within(k, j, o - f[k - 1])
           u == ReadPart(t, v, w)
<1>1. PICK m \in Nat, e \in BOOLEAN :
         /\ m <= n /\ o + m <= Len(b)
         /\ t = [got |-> Bytes(b, o, m), left |-> n - m, ended |-> e]
         /\ \/ m = n
            \/ ~e /\ o + m = IF j - 1 < k THEN o ELSE f[j - 1]
  BY DEF ReadTurn
<1>2. t.got = Bytes(b, o, m) /\ t.left = n - m /\ t.ended = e /\ n - m \in Nat BY <1>1
<1>3. /\ b \in Seq(Nat) /\ Len(b) \in Nat /\ f[k - 1] \in Nat /\ f[k] \in Nat
      /\ f[j - 1] \in Nat /\ f[j] \in Nat /\ f[j] = f[j - 1] + v.length
      /\ v.length \in Nat /\ v.length > 0 /\ IsView(v)
  <2>1. b \in Seq(Nat) /\ AreViews(parts) BY DEF Covers
  <2>2. Len(b) \in Nat /\ IsView(v) BY <2>1, LenProperties DEF AreViews
  <2> QED BY <2>1, <2>2, OffsetsOfViews
<1>4. u = LET got == ReadView(v, w, t.left) IN
          IF t.ended THEN t
          ELSE [got |-> t.got \o got, left |-> t.left - Len(got), ended |-> got = <<>>]
  BY DEF ReadPart
<1>0. f[k - 1] <= o /\ o < f[k] OBVIOUS
<1>5. w \in Nat /\ w < v.length /\ (m # n => o + m = f[j - 1] + w)
  <2>1. CASE j = k
    <3>1. w = o - f[k - 1] BY <2>1 DEF Within
    <3> HIDE DEF w, f, v
    <3>2. w \in Nat /\ w < v.length
      <4>1. /\ f[k] = f[k - 1] + v.length /\ f[k - 1] \in Nat /\ v.length \in Nat
            /\ f[k] \in Nat
        BY <1>3, <2>1
      <4> QED BY <1>0, <3>1, <4>1
    <3>3. ASSUME m # n PROVE o + m = f[j - 1] + w
      <4>1. j - 1 < k BY <2>1
      <4>2. o + m = o BY <1>1, <3>3, <4>1
      <4> QED BY <1>3, <2>1, <3>1, <4>2
    <3> QED BY <3>2, <3>3
  <2>2. CASE j # k
    <3>1. w = 0 BY <2>2 DEF Within
    <3>2. ~(j - 1 < k)
      <4>1. Len(parts) \in Nat BY ViewsAre DEF Covers
      <4> QED BY <2>2, <4>1
    <3> HIDE DEF w, f, v
    <3> QED BY <1>1, <1>3, <3>1, <3>2
  <2> QED BY <2>1, <2>2
<1>6. ReadView(v, w, n - m) = Bytes(ContentOfView(v), w, n - m)
  <2> HIDE DEF w, v
  <2> QED BY <1>2, <1>3, <1>5, ReadViewIs
<1>7. ContentOfView(v) \in Seq(Nat) /\ Len(ContentOfView(v)) = v.length BY <1>3, ViewIs
<1>8. PICK q \in Nat :
         /\ q <= n - m /\ w + q <= v.length /\ (q = n - m \/ w + q = v.length)
         /\ Bytes(ContentOfView(v), w, n - m) = Bytes(ContentOfView(v), w, q)
         /\ Len(Bytes(ContentOfView(v), w, n - m)) = q
  <2> DEFINE c == ContentOfView(v)
             r == n - m
  <2>1. r \in Nat /\ c \in Seq(Nat) /\ w <= Len(c) /\ Len(c) = v.length
    BY <1>2, <1>3, <1>5, <1>7, SMTT(30)
  <2> HIDE DEF w, v, c, r
  <2>2. \E q \in Nat :
           /\ q <= r /\ w + q <= Len(c) /\ (q = r \/ w + q = Len(c))
           /\ Bytes(c, w, r) = Bytes(c, w, q) /\ Len(Bytes(c, w, r)) = q
    BY <1>5, <2>1, BytesGot
  <2> QED BY <2>1, <2>2 DEF c, r
<1>9. /\ Bytes(ContentOfView(v), w, q) = Bytes(b, f[j - 1] + w, q)
      /\ (f[j - 1] + w) + q <= Len(b)
  <2> HIDE DEF w
  <2> QED BY <1>5, <1>8, PieceOf
<1> HIDE DEF f, v, w, u
<1>10. CASE e
  <2>1. m = n /\ u = t BY <1>1, <1>2, <1>4, <1>10
  <2>2. \E mm \in Nat, ee \in BOOLEAN :
           /\ mm <= n /\ o + mm <= Len(b)
           /\ u = [got |-> Bytes(b, o, mm), left |-> n - mm, ended |-> ee]
           /\ mm = n
    BY <1>1, <2>1
  <2> QED BY <2>2 DEF ReadTurn, u, f, v, w
<1>11. CASE ~e
  <2> DEFINE got == ReadView(v, w, n - m)
             mm == m + q
  <2>1. Len(got) = q /\ got = Bytes(ContentOfView(v), w, q) BY <1>6, <1>8
  <2>2. u = [got |-> Bytes(b, o, m) \o got, left |-> (n - m) - q, ended |-> got = <<>>]
    BY <1>2, <1>4, <1>11, <2>1
  <2> HIDE DEF got
  <2>3. Bytes(b, o, m) \o got = Bytes(b, o, mm) /\ o + mm <= Len(b)
    <3>1. CASE m = n
      <4>1. q = 0 BY <1>1, <1>8, <3>1
      <4>2. got = <<>> BY <1>3, <1>5, <1>7, <2>1, <4>1, NoBytes
      <4>3. Bytes(b, o, m) \o <<>> = Bytes(b, o, m)
        <5>1. Bytes(b, o, m) \in Seq(Nat) BY <1>1, <1>3, BytesWithin
        <5> QED BY <5>1, ConcatEmptySeq
      <4>4. m + q = m BY <4>1
      <4> QED BY <1>1, <4>2, <4>3, <4>4
    <3>2. CASE m # n
      <4>1. got = Bytes(b, o + m, q) BY <1>5, <1>9, <2>1, <3>2
      <4>2. (o + m) + q <= Len(b) BY <1>5, <1>9, <3>2
      <4>3. o + m + q <= Len(b) /\ o + mm <= Len(b) BY <1>3, <4>2
      <4>4. Bytes(b, o, m) \o Bytes(b, o + m, q) = Bytes(b, o, m + q)
        <5>1. b \in Seq(Nat) /\ o + m + q <= Len(b) BY <1>3, <4>3
        <5> QED BY <5>1, BytesJoin
      <4> QED BY <4>1, <4>3, <4>4
    <3> QED BY <3>1, <3>2
  <2>4. mm \in Nat /\ mm <= n /\ (n - m) - q = n - mm BY <1>2, <1>8
  <2>5. mm = n \/ (got # <<>> /\ o + mm = f[j])
    <3>1. CASE q = n - m BY <3>1
    <3>2. CASE q # n - m
      <4>1. w + q = v.length /\ q # 0 BY <1>3, <1>5, <1>8, <3>2
      <4>2. m # n BY <1>1, <1>8, <3>2
      <4>3. o + m = f[j - 1] + w BY <1>5, <4>2
      <4>4. o + mm = f[j]
        <5>1. o + mm = (o + m) + q OBVIOUS
        <5>2. o + mm = (f[j - 1] + w) + q BY <4>3, <5>1
        <5>3. (f[j - 1] + w) + q = f[j - 1] + (w + q) BY <1>3, <1>5
        <5> QED BY <1>3, <4>1, <5>2, <5>3
      <4>5. got # <<>> BY <2>1, <4>1, EmptySeq
      <4> QED BY <4>4, <4>5
    <3> QED BY <3>1, <3>2
  <2> DEFINE ee == (got = <<>>)
  <2>6. ee \in BOOLEAN OBVIOUS
  <2>7. u = [got |-> Bytes(b, o, mm), left |-> n - mm, ended |-> ee] BY <2>2, <2>3, <2>4
  <2>8. mm = n \/ (~ee /\ o + mm = IF j < k THEN o ELSE f[j]) BY <2>5
  <2> HIDE DEF mm, ee
  <2>9. \E m1 \in Nat, e1 \in BOOLEAN :
           /\ m1 <= n /\ o + m1 <= Len(b)
           /\ u = [got |-> Bytes(b, o, m1), left |-> n - m1, ended |-> e1]
           /\ m1 = n \/ (~e1 /\ o + m1 = IF j < k THEN o ELSE f[j])
    BY <2>3, <2>4, <2>6, <2>7, <2>8
  <2> QED BY <2>9 DEF ReadTurn, u, f, v, w
<1> QED BY <1>10, <1>11

LEMMA ReadPartsAre ==
  ASSUME NEW parts, NEW b, Covers(parts, b), NEW o \in Nat, NEW n \in Nat,
         NEW k \in 1 .. Len(parts), Offsets(parts)[k - 1] <= o, o < Offsets(parts)[k]
  PROVE  ReadParts(parts, k, o - Offsets(parts)[k - 1], n) = Bytes(b, o, n)
<1> DEFINE w == o - Offsets(parts)[k - 1]
           l == Len(parts)
<1>1. /\ l \in Nat /\ b \in Seq(Nat) /\ Len(b) \in Nat /\ k \in Nat \ {0}
      /\ Offsets(parts)[l] = Len(b) /\ o <= Len(b)
  <2>1. AreViews(parts) /\ b \in Seq(Nat) /\ Offsets(parts)[l] = Len(b) BY DEF Covers
  <2>2. l \in Nat /\ Len(b) \in Nat BY <2>1, ViewsAre, LenProperties
  <2>3. Offsets(parts)[k] \in Nat /\ Offsets(parts)[k] <= Offsets(parts)[l]
    BY <2>1, OffsetsOfViews
  <2> HIDE DEF l
  <2> QED BY <2>1, <2>2, <2>3 DEF l
<1>2. PICK t : IsRead(t, parts, k, w, n, l) /\ ReadParts(parts, k, w, n) = t[l].got
  <2>1. Len(parts) \in Nat /\ k \in Nat \ {0} BY <1>1
  <2> HIDE DEF w
  <2>2. \E t : IsRead(t, parts, k, w, n, Len(parts))
               /\ ReadParts(parts, k, w, n) = t[Len(parts)].got
    BY <2>1, ReadPartsIs
  <2> QED BY <2>2
<1>3. \A j \in 0 .. l :
         t[j] = IF j < k THEN [got |-> <<>>, left |-> n, ended |-> FALSE]
                ELSE ReadPart(t[j - 1], parts[j], Within(k, j, w))
  BY <1>2 DEF IsRead
<1> HIDE DEF l
<1> DEFINE T == {j \in Nat : k - 1 <= j => ReadTurn(t[j], parts, b, k, o, n, j)}
<1>4. ASSUME NEW j \in 0 .. l, j < k PROVE ReadTurn(t[j], parts, b, k, o, n, j)
  <2>1. t[j] = [got |-> <<>>, left |-> n, ended |-> FALSE] BY <1>3, <1>4
  <2>2. Bytes(b, o, 0) = <<>> /\ n - 0 = n /\ o + 0 = o /\ 0 <= n BY <1>1, NoBytes
  <2> QED BY <1>1, <1>4, <2>1, <2>2 DEF ReadTurn
<1>5. 0 \in T BY <1>1, <1>4
<1>6. ASSUME NEW j \in 1 .. l, j - 1 \in T PROVE j \in T
  <2>1. CASE j < k BY <1>1, <1>4, <2>1
  <2>2. CASE ~(j < k)
    <3>1. k <= j /\ k - 1 <= j - 1 /\ j \in 1 .. Len(parts) /\ j \in 0 .. l BY <1>1, <2>2 DEF l
    <3>2. ReadTurn(t[j - 1], parts, b, k, o, n, j - 1) BY <1>6, <3>1
    <3>3. ReadTurn(ReadPart(t[j - 1], parts[j], Within(k, j, w)), parts, b, k, o, n, j)
      BY <3>1, <3>2, ReadTurnKept
    <3>4. t[j] = ReadPart(t[j - 1], parts[j], Within(k, j, w)) BY <1>3, <2>2, <3>1
    <3> QED BY <3>3, <3>4
  <2> QED BY <2>1, <2>2
<1> HIDE DEF T
<1>7. 0 .. l \subseteq T BY <1>1, <1>5, <1>6, EveryNumberTo
<1>9. k <= l BY DEF l
<1>10. ReadTurn(t[l], parts, b, k, o, n, l)
  <2>1. l \in 0 .. l /\ k - 1 <= l BY <1>1, <1>9
  <2> QED BY <1>7, <2>1 DEF T
<1>11. PICK m \in Nat : /\ m <= n /\ o + m <= Len(b) /\ t[l].got = Bytes(b, o, m)
                        /\ m = n \/ o + m = Len(b)
  <2>1. ~(l < k) BY <1>1, <1>9
  <2> QED BY <1>1, <1>10, <2>1 DEF ReadTurn
<1>12. Bytes(b, o, m) = Bytes(b, o, n)
  <2>1. m = n \/ (o + m >= Len(b) /\ o + n >= Len(b)) BY <1>1, <1>11
  <2> QED BY <1>1, <2>1, BytesToTheEnd
<1> QED BY <1>2, <1>11, <1>12

\* A reader that is one view.
LEMMA OnlyView ==
  ASSUME NEW r, NEW b, IsReaderOf(r, b), ~r.chained
  PROVE  IsView(r.parts[1]) /\ ContentOfView(r.parts[1]) = b /\ r.parts[1].length = Len(b)
<1> DEFINE p == r.parts
<1>1. /\ Covers(p, b) /\ AreViews(p) /\ b \in Seq(Nat) /\ Len(p) = 1 /\ Len(b) \in Nat
  BY ReaderIs DEF IsReaderOf
<1> HIDE DEF p
<1>2. 1 \in 1 .. Len(p) /\ 1 - 1 = 0 BY <1>1
<1>3. /\ Offsets(p)[0] = 0 /\ Offsets(p)[1] = Offsets(p)[1 - 1] + p[1].length
      /\ p[1].length \in Nat
  BY <1>1, <1>2, OffsetsOfViews
<1>4. p[1].length = Len(b) BY <1>1, <1>2, <1>3 DEF Covers
<1>5. ContentOfView(p[1]) = Bytes(b, Offsets(p)[1 - 1], p[1].length) BY <1>1, <1>2 DEF Covers
<1>6. ContentOfView(p[1]) = Bytes(b, 0, Len(b)) BY <1>2, <1>3, <1>4, <1>5
<1>7. ContentOfView(p[1]) = b BY <1>1, <1>6, AllBytes
<1>8. IsView(p[1]) BY <1>1, <1>2 DEF AreViews
<1> QED BY <1>4, <1>7, <1>8 DEF p

\* Random access gets the bytes at an offset.
LEMMA ReadReaderIs ==
  ASSUME NEW r, NEW b, IsReaderOf(r, b), NEW o \in Nat, NEW n \in Nat
  PROVE  ReadReader(r, o, n) = Bytes(b, o, n)
<1>1. CASE ~r.chained
  <2>1. IsView(r.parts[1]) /\ ContentOfView(r.parts[1]) = b BY <1>1, OnlyView
  <2>2. ReadView(r.parts[1], o, n) = Bytes(b, o, n) BY <2>1, ReadViewIs
  <2> QED BY <1>1, <2>2 DEF ReadReader
<1>2. CASE r.chained
  <2> DEFINE p == r.parts
             f == Offsets(p)
             k == PartAt(p, o)
             l == Len(p)
             w == o - f[k - 1]
  <2>1. /\ b \in Seq(Nat) /\ Len(b) \in Nat /\ Len(b) > 0 /\ Covers(p, b) /\ AreViews(p)
        /\ l \in Nat /\ l > 0 /\ SizeOfReader(r) = Len(b)
    BY ReaderIs
  <2>2. f[l] = Len(b) BY <2>1 DEF Covers
  <2>3. CASE n = 0
    <3>1. Bytes(b, o, n) = <<>> BY <2>1, <2>3, NoBytes
    <3> QED BY <1>2, <2>3, <3>1 DEF ReadReader
  <2>4. CASE n # 0
    <3>1. ReadReader(r, o, n) = ReadParts(p, k, w, n)
      <4>1. SizeOfReader(r) # 0 BY <2>1
      <4> QED BY <1>2, <2>4, <4>1 DEF ReadReader, OffsetOfPart
    <3>2. /\ k \in 1 .. l /\ f[k - 1] <= o
          /\ o < f[l] => o < f[k]
          /\ o >= f[l] => k = l
      BY <2>1, PartAtIs
    <3>3. CASE o < Len(b)
      <4>1. o < f[k] BY <2>2, <3>2, <3>3
      <4> HIDE DEF p, k
      <4>2. ReadParts(p, k, w, n) = Bytes(b, o, n) BY <2>1, <3>2, <4>1, ReadPartsAre
      <4> QED BY <3>1, <4>2
    <3>4. CASE ~(o < Len(b))
      <4>1. o >= Len(b) /\ k = l BY <2>1, <2>2, <3>2, <3>4
      <4>2. Bytes(b, o, n) = <<>> BY <2>1, <4>1, NoBytes
      <4>3. /\ f[k - 1] \in Nat /\ f[k] = f[k - 1] + p[k].length /\ p[k].length \in Nat
            /\ IsView(p[k])
        BY <2>1, <3>2, OffsetsOfViews, ViewsAre
      <4>4. w \in Nat /\ w >= p[k].length
        <5> HIDE DEF p, f, k, l
        <5> QED BY <2>1, <2>2, <4>1, <4>3
      <4> HIDE DEF p, f, k, w
      <4>5. PICK t : IsRead(t, p, k, w, n, l) /\ ReadParts(p, k, w, n) = t[l].got
        <5>1. Len(p) \in Nat /\ k \in Nat \ {0} BY <2>1, <3>2
        <5>2. \E t : IsRead(t, p, k, w, n, Len(p)) /\ ReadParts(p, k, w, n) = t[Len(p)].got
          BY <5>1, ReadPartsIs
        <5> QED BY <5>2
      <4> HIDE DEF l
      <4>6. \A j \in 0 .. l :
               t[j] = IF j < k THEN [got |-> <<>>, left |-> n, ended |-> FALSE]
                      ELSE ReadPart(t[j - 1], p[j], Within(k, j, w))
        BY <4>5 DEF IsRead
      <4>7. k - 1 \in 0 .. l /\ k - 1 < k /\ k \in 0 .. l /\ ~(k < k) BY <2>1, <3>2
      <4>8. t[k - 1] = [got |-> <<>>, left |-> n, ended |-> FALSE] BY <4>6, <4>7
      <4>9. t[k] = ReadPart(t[k - 1], p[k], w)
        <5>1. Within(k, k, w) = w BY DEF Within
        <5> QED BY <4>6, <4>7, <5>1
      <4>10. ReadView(p[k], w, n) = <<>> BY <4>4 DEF ReadView
      <4>11. t[k].got = <<>> \o <<>>
        <5>1. t[k - 1].got = <<>> /\ t[k - 1].left = n /\ t[k - 1].ended = FALSE BY <4>8
        <5>2. t[k] = [got |-> t[k - 1].got \o ReadView(p[k], w, n),
                      left |-> n - Len(ReadView(p[k], w, n)), ended |-> ReadView(p[k], w, n) = <<>>]
          BY <4>9, <5>1 DEF ReadPart
        <5> QED BY <4>10, <5>1, <5>2
      <4>12. <<>> \o <<>> = <<>>
        <5>1. <<>> \in Seq(Nat) OBVIOUS
        <5> QED BY <5>1, ConcatEmptySeq
      <4> QED BY <3>1, <4>1, <4>2, <4>5, <4>11, <4>12
    <3> QED BY <3>3, <3>4
  <2> QED BY <2>3, <2>4
<1>3. r.chained \in BOOLEAN BY DEF IsReaderOf
<1> QED BY <1>1, <1>2, <1>3

\* What the loop over the parts has taken before part j + 1.
TakeTurn(t, parts, b, first, o, n, j) ==
    \E m \in Nat :
       /\ m <= n
       /\ t = [views |-> t.views, left |-> n - m]
       /\ Covers(t.views, Bytes(b, o, m))
       /\ m = n \/ o + m = IF j < first THEN o ELSE Offsets(parts)[j]

LEMMA TakeTurnKept ==
  ASSUME NEW parts, NEW b, Covers(parts, b), NEW o \in Nat, NEW n \in Nat, o + n <= Len(b),
         NEW k \in 1 .. Len(parts), Offsets(parts)[k - 1] <= o, o < Offsets(parts)[k],
         NEW j \in 1 .. Len(parts), k <= j, NEW t, TakeTurn(t, parts, b, k, o, n, j - 1)
  PROVE  TakeTurn(TakePart(t, parts[j], Within(k, j, o - Offsets(parts)[k - 1])),
                  parts, b, k, o, n, j)
<1> DEFINE f == Offsets(parts)
           v == parts[j]
           w == Within(k, j, o - f[k - 1])
           u == TakePart(t, v, w)
<1>1. PICK m \in Nat :
         /\ m <= n
         /\ t = [views |-> t.views, left |-> n - m]
         /\ Covers(t.views, Bytes(b, o, m))
         /\ m = n \/ o + m = IF j - 1 < k THEN o ELSE f[j - 1]
  BY DEF TakeTurn
<1>2. t.left = n - m /\ n - m \in Nat BY <1>1
<1>3. /\ b \in Seq(Nat) /\ Len(b) \in Nat /\ f[k - 1] \in Nat /\ f[k] \in Nat
      /\ f[j - 1] \in Nat /\ f[j] \in Nat /\ f[j] = f[j - 1] + v.length
      /\ v.length \in Nat /\ v.length > 0 /\ IsView(v)
  <2>1. b \in Seq(Nat) /\ AreViews(parts) BY DEF Covers
  <2>2. Len(b) \in Nat /\ IsView(v) BY <2>1, LenProperties DEF AreViews
  <2> QED BY <2>1, <2>2, OffsetsOfViews
<1>4. u = LET length == LeastOf(v.length - w, t.left) IN
          IF t.left = 0 THEN t
          ELSE [views |-> Append(t.views, SliceOfView(v, w, length)), left |-> t.left - length]
  BY DEF TakePart
<1>0. f[k - 1] <= o /\ o < f[k] /\ o + n <= Len(b) OBVIOUS
<1>5. w \in Nat /\ w < v.length /\ (m # n => o + m = f[j - 1] + w)
  <2>1. CASE j = k
    <3>1. w = o - f[k - 1] BY <2>1 DEF Within
    <3> HIDE DEF w, f, v
    <3>2. w \in Nat /\ w < v.length
      <4>1. /\ f[k] = f[k - 1] + v.length /\ f[k - 1] \in Nat /\ v.length \in Nat
            /\ f[k] \in Nat
        BY <1>3, <2>1
      <4> QED BY <1>0, <3>1, <4>1, SMTT(30)
    <3>3. ASSUME m # n PROVE o + m = f[j - 1] + w
      <4>1. j - 1 < k BY <2>1
      <4>2. o + m = o BY <1>1, <3>3, <4>1
      <4> QED BY <1>3, <2>1, <3>1, <4>2
    <3> QED BY <3>2, <3>3
  <2>2. CASE j # k
    <3>1. w = 0 BY <2>2 DEF Within
    <3>2. ~(j - 1 < k)
      <4>1. Len(parts) \in Nat BY ViewsAre DEF Covers
      <4> QED BY <2>2, <4>1
    <3> HIDE DEF w, f, v
    <3> QED BY <1>1, <1>3, <3>1, <3>2
  <2> QED BY <2>1, <2>2
<1>6. \A q \in Nat : w + q <= v.length =>
         Bytes(ContentOfView(v), w, q) = Bytes(b, f[j - 1] + w, q)
  <2> HIDE DEF w
  <2> QED BY <1>5, PieceOf, SMTT(30)
<1> HIDE DEF f, v, w, u
<1>7. CASE m = n
  <2>1. u = t BY <1>2, <1>4, <1>7
  <2> QED BY <1>1, <1>7, <2>1 DEF TakeTurn, u, f, v, w
<1>8. CASE m # n
  <2> DEFINE q == LeastOf(v.length - w, n - m)
             mm == m + q
             s == SliceOfView(v, w, q)
  <2>1. /\ q \in Nat /\ q > 0 /\ q <= n - m /\ w + q <= v.length
        /\ q = n - m \/ w + q = v.length
    <3> DEFINE x == v.length - w
               y == n - m
    <3>1. x \in Nat /\ x > 0
      <4>1. v.length \in Nat /\ w \in Nat /\ w < v.length BY <1>3, <1>5
      <4> QED BY <4>1
    <3>2. y \in Nat /\ y > 0 BY <1>1, <1>2, <1>8
    <3> HIDE DEF x, y
    <3>3. /\ LeastOf(x, y) \in Nat /\ LeastOf(x, y) > 0 /\ LeastOf(x, y) <= y
          /\ LeastOf(x, y) <= x /\ (LeastOf(x, y) = y \/ LeastOf(x, y) = x)
      BY <3>1, <3>2 DEF LeastOf
    <3>4. q = LeastOf(x, y) BY DEF x, y
    <3> HIDE DEF q
    <3>5. /\ q \in Nat /\ q > 0 /\ q <= y /\ q <= x /\ (q = y \/ q = x) BY <3>3, <3>4
    <3>6. v.length \in Nat /\ w \in Nat BY <1>3, <1>5
    <3> QED BY <3>5, <3>6, SMTT(30) DEF x, y
  <2>2. u = [views |-> Append(t.views, s), left |-> (n - m) - q]
    <3>1. t.left # 0 BY <1>1, <1>2, <1>8
    <3> QED BY <1>2, <1>4, <3>1
  <2> HIDE DEF q
  <2>3. IsView(s) /\ ContentOfView(s) = Bytes(ContentOfView(v), w, q)
    BY <1>3, <1>5, <2>1, SliceOfViewIs, SMTT(30)
  <2> HIDE DEF s
  <2>4. o + m = f[j - 1] + w BY <1>5, <1>8
  <2>5. ContentOfView(s) = Bytes(b, o + m, q)
    <3>1. Bytes(ContentOfView(v), w, q) = Bytes(b, f[j - 1] + w, q) BY <1>6, <2>1
    <3> QED BY <2>3, <2>4, <3>1
  <2>6. o + m + q <= Len(b) /\ mm \in Nat /\ mm <= n /\ (n - m) - q = n - mm
    BY <1>0, <1>2, <1>3, <2>1
  <2>7. Covers(Append(t.views, s), Bytes(b, o, mm))
    <3>1. Covers(<<s>>, Bytes(b, o + m, q)) BY <2>3, <2>5, OneCovers
    <3>2. Covers(t.views \o <<s>>, Bytes(b, o, m) \o Bytes(b, o + m, q))
      BY <1>1, <3>1, CoversJoined
    <3>3. Append(t.views, s) = t.views \o <<s>>
      <4>1. t.views \in Seq(Views) /\ s \in Views BY <1>1, <2>3 DEF Covers, AreViews, IsView
      <4> QED BY <4>1, AppendIsConcat
    <3>4. Bytes(b, o, m) \o Bytes(b, o + m, q) = Bytes(b, o, m + q)
      <4>1. b \in Seq(Nat) /\ o + m + q <= Len(b) BY <1>3, <2>6
      <4> QED BY <2>1, <4>1, BytesJoin
    <3> QED BY <3>2, <3>3, <3>4
  <2>8. mm = n \/ o + mm = f[j]
    <3>1. CASE q = n - m BY <3>1
    <3>2. CASE q # n - m
      <4>1. w + q = v.length BY <2>1, <3>2
      <4>2. o + mm = (o + m) + q BY <2>1
      <4>3. f[j - 1] \in Nat /\ w \in Nat /\ q \in Nat BY <1>3, <1>5, <2>1
      <4>4. (f[j - 1] + w) + q = f[j - 1] + (w + q) BY ONLY <4>3, SumsRegroup
      <4> QED BY <1>3, <2>4, <4>1, <4>2, <4>4
    <3> QED BY <3>1, <3>2
  <2> HIDE DEF mm
  <2>9. u.views = Append(t.views, s) /\ u = [views |-> u.views, left |-> n - mm]
    BY <2>2, <2>6
  <2>10. mm = n \/ o + mm = IF j < k THEN o ELSE f[j] BY <2>8
  <2>11. Covers(u.views, Bytes(b, o, mm)) BY <2>7, <2>9
  <2> QED BY <2>6, <2>9, <2>10, <2>11 DEF TakeTurn, u, f, v, w
<1> QED BY <1>7, <1>8

LEMMA TakePartsAre ==
  ASSUME NEW parts, NEW b, Covers(parts, b), NEW o \in Nat, NEW n \in Nat, o + n <= Len(b),
         NEW k \in 1 .. Len(parts), Offsets(parts)[k - 1] <= o, o < Offsets(parts)[k]
  PROVE  Covers(TakeParts(parts, k, o - Offsets(parts)[k - 1], n), Bytes(b, o, n))
<1> DEFINE w == o - Offsets(parts)[k - 1]
           l == Len(parts)
<1>1. /\ l \in Nat /\ b \in Seq(Nat) /\ Len(b) \in Nat /\ k \in Nat \ {0}
      /\ Offsets(parts)[l] = Len(b) /\ k <= l
  <2>1. AreViews(parts) /\ b \in Seq(Nat) /\ Offsets(parts)[l] = Len(b) BY DEF Covers
  <2>2. l \in Nat /\ Len(b) \in Nat BY <2>1, ViewsAre, LenProperties
  <2> HIDE DEF l
  <2> QED BY <2>1, <2>2 DEF l
<1>2. PICK t : IsTaken(t, parts, k, w, n, l) /\ TakeParts(parts, k, w, n) = t[l].views
  <2>1. Len(parts) \in Nat /\ k \in Nat \ {0} BY <1>1
  <2> HIDE DEF w
  <2>2. \E t : IsTaken(t, parts, k, w, n, Len(parts))
               /\ TakeParts(parts, k, w, n) = t[Len(parts)].views
    BY <2>1, TakePartsIs
  <2> QED BY <2>2
<1>3. \A j \in 0 .. l :
         t[j] = IF j < k THEN [views |-> <<>>, left |-> n]
                ELSE TakePart(t[j - 1], parts[j], Within(k, j, w))
  BY <1>2 DEF IsTaken
<1> HIDE DEF l
<1> DEFINE T == {j \in Nat : k - 1 <= j => TakeTurn(t[j], parts, b, k, o, n, j)}
<1>4. ASSUME NEW j \in 0 .. l, j < k PROVE TakeTurn(t[j], parts, b, k, o, n, j)
  <2>1. t[j] = [views |-> <<>>, left |-> n] BY <1>3, <1>4
  <2>2. Bytes(b, o, 0) = <<>> /\ n - 0 = n /\ o + 0 = o /\ 0 <= n BY <1>1, NoBytes
  <2>3. t[j].views = <<>> /\ t[j] = [views |-> t[j].views, left |-> n - 0] BY <2>1, <2>2
  <2>4. Covers(t[j].views, Bytes(b, o, 0)) BY <2>2, <2>3, NoneCover
  <2>5. o + 0 = IF j < k THEN o ELSE Offsets(parts)[j] BY <1>4, <2>2
  <2> QED BY <2>2, <2>3, <2>4, <2>5 DEF TakeTurn
<1>5. 0 \in T BY <1>1, <1>4
<1>6. ASSUME NEW j \in 1 .. l, j - 1 \in T PROVE j \in T
  <2>1. CASE j < k BY <1>1, <1>4, <2>1
  <2>2. CASE ~(j < k)
    <3>1. k <= j /\ k - 1 <= j - 1 /\ j \in 1 .. Len(parts) /\ j \in 0 .. l BY <1>1, <2>2 DEF l
    <3>2. TakeTurn(t[j - 1], parts, b, k, o, n, j - 1) BY <1>6, <3>1
    <3>3. TakeTurn(TakePart(t[j - 1], parts[j], Within(k, j, w)), parts, b, k, o, n, j)
      BY <3>1, <3>2, TakeTurnKept
    <3>4. t[j] = TakePart(t[j - 1], parts[j], Within(k, j, w)) BY <1>3, <2>2, <3>1
    <3> QED BY <3>3, <3>4
  <2> QED BY <2>1, <2>2
<1> HIDE DEF T
<1>7. 0 .. l \subseteq T BY <1>1, <1>5, <1>6, EveryNumberTo
<1>8. TakeTurn(t[l], parts, b, k, o, n, l)
  <2>1. l \in 0 .. l /\ k - 1 <= l BY <1>1
  <2> QED BY <1>7, <2>1 DEF T
<1>9. PICK m \in Nat : m <= n /\ Covers(t[l].views, Bytes(b, o, m)) /\ (m = n \/ o + m = Len(b))
  <2>1. ~(l < k) BY <1>1
  <2> QED BY <1>1, <1>8, <2>1 DEF TakeTurn
<1>10. m = n BY <1>1, <1>9
<1> QED BY <1>2, <1>9, <1>10

\* A slice of a reader reads that slice of its bytes.
LEMMA SliceOfReaderIs ==
  ASSUME NEW r, NEW b, IsReaderOf(r, b), NEW o \in Nat, NEW n \in Nat, n > 0, o + n <= Len(b)
  PROVE  IsReaderOf(SliceOfReader(r, o, n), Bytes(b, o, n))
<1>1. CASE ~r.chained
  <2>1. IsView(r.parts[1]) /\ ContentOfView(r.parts[1]) = b /\ r.parts[1].length = Len(b)
    BY <1>1, OnlyView
  <2> DEFINE s == SliceOfView(r.parts[1], o, n)
  <2>2. IsView(s) /\ ContentOfView(s) = Bytes(b, o, n) BY <2>1, SliceOfViewIs
  <2>3. SliceOfReader(r, o, n) = Simple(s) BY <1>1 DEF SliceOfReader
  <2> HIDE DEF s
  <2> QED BY <2>2, <2>3, SimpleIs
<1>2. CASE r.chained
  <2> DEFINE p == r.parts
             k == PartAt(p, o)
             q == TakeParts(p, k, o - Offsets(p)[k - 1], n)
  <2>1. /\ b \in Seq(Nat) /\ Len(b) \in Nat /\ Covers(p, b) /\ AreViews(p)
        /\ Len(p) > 0 /\ Offsets(p)[Len(p)] = Len(b)
    BY ReaderIs DEF Covers
  <2>2. k \in 1 .. Len(p) /\ Offsets(p)[k - 1] <= o /\ o < Offsets(p)[k]
    <3>1. o < Offsets(p)[Len(p)] BY <2>1
    <3> QED BY <2>1, <3>1, PartAtIs
  <2>3. SliceOfReader(r, o, n) = [chained |-> TRUE, parts |-> q]
    BY <1>2 DEF SliceOfReader, OffsetOfPart
  <2>4. Covers(q, Bytes(b, o, n))
    <3> HIDE DEF p, k
    <3> QED BY <2>1, <2>2, TakePartsAre
  <2>5. Len(Bytes(b, o, n)) > 0
    <3>1. Len(Bytes(b, o, n)) = n BY <2>1, BytesWithin
    <3> QED BY <3>1
  <2> HIDE DEF q
  <2> QED BY <2>3, <2>4, <2>5 DEF IsReaderOf
<1>3. r.chained \in BOOLEAN BY DEF IsReaderOf
<1> QED BY <1>1, <1>2, <1>3

-----------------------------------------------------------------------------
(* What is joined.                                                         *)

LEMMA SeqFromFunction ==
  ASSUME NEW S, NEW n \in Nat, NEW f \in [1 .. n -> S]
  PROVE  f \in Seq(S) /\ Len(f) = n
<1>1. f \in UNION {[1 .. m -> S] : m \in Nat} OBVIOUS
<1>2. f \in Seq(S) BY <1>1, SeqDef
<1>3. DOMAIN f = 1 .. n /\ DOMAIN f = 1 .. Len(f) /\ Len(f) \in Nat BY <1>2, LenProperties
<1>4. Len(f) = n
  <2>1. CASE Len(f) < n
    <3>1. n \in 1 .. n /\ n \notin 1 .. Len(f) BY <1>3, <2>1
    <3> QED BY <1>3, <3>1
  <2>2. CASE n < Len(f)
    <3>1. Len(f) \in 1 .. Len(f) /\ Len(f) \notin 1 .. n BY <1>3, <2>2
    <3> QED BY <1>3, <3>1
  <2> QED BY <1>3, <2>1, <2>2
<1> QED BY <1>2, <1>4

\* Where each of several sequences begins when they are joined.
Starts(c) == Offsets([k \in 1 .. Len(c) |-> [length |-> Len(c[k])]])

AreBytes(c) == c \in Seq(Seq(Nat)) /\ Len(c) > 0

LEMMA StartsAre ==
  ASSUME NEW c, AreBytes(c)
  PROVE  /\ Len(c) \in Nat /\ Len(c) > 0 /\ DOMAIN c = 1 .. Len(c)
         /\ Starts(c)[0] = 0 /\ Starts(c)[Len(c)] \in Nat
         /\ \A k \in 1 .. Len(c) :
               /\ c[k] \in Seq(Nat) /\ Len(c[k]) \in Nat
               /\ Starts(c)[k] \in Nat /\ Starts(c)[k - 1] \in Nat
               /\ Starts(c)[k] = Starts(c)[k - 1] + Len(c[k])
               /\ Starts(c)[k] <= Starts(c)[Len(c)]
<1> DEFINE n == Len(c)
           p == [k \in 1 .. n |-> [length |-> Len(c[k])]]
<1>1. n \in Nat /\ n > 0 /\ DOMAIN c = 1 .. n BY LenProperties DEF AreBytes
<1>2. \A k \in 1 .. n : c[k] \in Seq(Nat) /\ Len(c[k]) \in Nat
  BY ElementOfSeq, LenProperties DEF AreBytes
<1>3. p \in [1 .. n -> [length : Nat]] BY <1>2
<1>4. Len(p) = n
  <2> HIDE DEF p, n
  <2> QED BY <1>1, <1>3, SeqFromFunction
<1>5. \A k \in 1 .. n : p[k].length = Len(c[k]) OBVIOUS
<1>6. Starts(c) = Offsets(p) BY DEF Starts
<1> HIDE DEF p, n
<1>7. \A k \in 1 .. Len(p) : p[k].length \in Nat BY <1>2, <1>4, <1>5
<1>8. /\ Offsets(p)[0] = 0 /\ Offsets(p)[Len(p)] \in Nat
      /\ \A k \in 1 .. Len(p) :
            /\ Offsets(p)[k] \in Nat /\ Offsets(p)[k - 1] \in Nat
            /\ Offsets(p)[k] = Offsets(p)[k - 1] + p[k].length
            /\ Offsets(p)[k] <= Offsets(p)[Len(p)]
  BY <1>1, <1>4, <1>7, OffsetsApart
<1> QED BY <1>1, <1>2, <1>4, <1>5, <1>6, <1>8 DEF n

LEMMA StartsInOrder ==
  ASSUME NEW c, AreBytes(c), NEW j \in 1 .. Len(c), NEW k \in 1 .. j
  PROVE  Starts(c)[k] <= Starts(c)[j]
<1> DEFINE n == Len(c)
           p == [i \in 1 .. n |-> [length |-> Len(c[i])]]
<1>1. n \in Nat /\ \A i \in 1 .. n : Len(c[i]) \in Nat BY StartsAre
<1>2. p \in [1 .. n -> [length : Nat]] BY <1>1
<1>3. Len(p) = n
  <2> HIDE DEF p, n
  <2> QED BY <1>1, <1>2, SeqFromFunction
<1>4. \A i \in 1 .. n : p[i].length \in Nat BY <1>1
<1>5. Starts(c) = Offsets(p) BY DEF Starts
<1>6. j \in 0 .. n /\ k \in 0 .. j BY <1>1
<1> HIDE DEF p, n
<1>7. \A jj \in 0 .. Len(p) : \A i \in 0 .. jj :
         Offsets(p)[i] \in Nat /\ Offsets(p)[i] <= Offsets(p)[jj]
  BY <1>1, <1>3, <1>4, OffsetsGrow
<1> QED BY <1>3, <1>5, <1>6, <1>7

\* Bytes that are joined are where each of them begins.
LEMMA JoinedBytes ==
  ASSUME NEW c, AreBytes(c)
  PROVE  /\ FlattenSeq(c) \in Seq(Nat) /\ Len(FlattenSeq(c)) = Starts(c)[Len(c)]
         /\ \A k \in 1 .. Len(c), w \in Nat, m \in Nat : w + m <= Len(c[k]) =>
               Bytes(FlattenSeq(c), Starts(c)[k - 1] + w, m) = Bytes(c[k], w, m)
<1> DEFINE n == Len(c)
<1>1. /\ n \in Nat /\ n > 0
      /\ Starts(c)[0] = 0
      /\ \A k \in 1 .. n : /\ c[k] \in Seq(Nat) /\ Len(c[k]) \in Nat
                           /\ Starts(c)[k - 1] \in Nat /\ Starts(c)[k] \in Nat
                           /\ Starts(c)[k] = Starts(c)[k - 1] + Len(c[k])
  BY StartsAre
<1>2. PICK f : IsFlattening(f, c, n) /\ FlattenSeq(c) = f[n]
  <2>1. Len(c) \in Nat \ {0} BY <1>1
  <2>2. \E f : IsFlattening(f, c, Len(c)) /\ FlattenSeq(c) = f[Len(c)]
    BY <2>1, FlattenSeqIs
  <2> QED BY <2>2
<1>3. \A k \in 1 .. n : f[k] = IF k = 1 THEN c[k] ELSE f[k - 1] \o c[k]
  BY <1>2 DEF IsFlattening
<1> HIDE DEF n
<1> DEFINE Holds(x, j) ==
             /\ x \in Seq(Nat) /\ Len(x) = Starts(c)[j]
             /\ \A k \in 1 .. j, w \in Nat, m \in Nat : w + m <= Len(c[k]) =>
                   Bytes(x, Starts(c)[k - 1] + w, m) = Bytes(c[k], w, m)
           T == {j \in Nat : j > 0 => Holds(f[j], j)}
<1>4. 0 \in T OBVIOUS
<1>5. ASSUME NEW j \in 1 .. n, j - 1 \in T PROVE j \in T
  <2>0. j \in Nat /\ j > 0 BY <1>1
  <2>1. CASE j = 1
    <3>1. f[j] = c[1] BY <1>3, <2>1
    <3>2. 1 \in 1 .. n /\ 1 - 1 = 0 BY <1>1
    <3>3. c[1] \in Seq(Nat) /\ Len(c[1]) \in Nat /\ Starts(c)[1] = 0 + Len(c[1])
      BY <1>1, <3>2
    <3>4. ASSUME NEW k \in 1 .. j, NEW w \in Nat, NEW m \in Nat
          PROVE  Bytes(f[j], Starts(c)[k - 1] + w, m) = Bytes(c[k], w, m)
      <4>1. k = 1 /\ k - 1 = 0 BY <2>1
      <4>2. Starts(c)[k - 1] + w = w BY <1>1, <4>1
      <4> QED BY <3>1, <4>1, <4>2
    <3>5. f[j] \in Seq(Nat) /\ Len(f[j]) = Starts(c)[j] BY <2>1, <3>1, <3>3
    <3>6. Holds(f[j], j) BY <3>4, <3>5
    <3> QED BY <2>0, <3>6
  <2>2. CASE j # 1
    <3> DEFINE x == f[j - 1]
               y == c[j]
               z == f[j]
    <3>1. z = x \o y BY <1>3, <2>2
    <3>2. j - 1 \in 1 .. n /\ j - 1 > 0 BY <1>1, <2>2
    <3>3. Holds(x, j - 1) BY <1>5, <3>2
    <3>4. x \in Seq(Nat) /\ y \in Seq(Nat) /\ Len(x) = Starts(c)[j - 1]
      BY <1>1, <3>3
    <3>5. \A k \in 1 .. j - 1, w \in Nat, m \in Nat : w + m <= Len(c[k]) =>
             Bytes(x, Starts(c)[k - 1] + w, m) = Bytes(c[k], w, m)
      BY <3>3
    <3>6. Starts(c)[j] = Starts(c)[j - 1] + Len(y) /\ Len(y) \in Nat /\ Starts(c)[j - 1] \in Nat
      BY <1>1
    <3> HIDE DEF Holds, x, y, z
    <3>7. z \in Seq(Nat) /\ Len(z) = Starts(c)[j]
      <4>1. z \in Seq(Nat) /\ Len(z) = Len(x) + Len(y) BY <3>1, <3>4, ConcatProperties
      <4> QED BY <3>4, <3>6, <4>1
    <3>8. ASSUME NEW k \in 1 .. j, NEW w \in Nat, NEW m \in Nat, w + m <= Len(c[k])
          PROVE  Bytes(z, Starts(c)[k - 1] + w, m) = Bytes(c[k], w, m)
      <4>1. CASE k = j
        <5>1. w + m <= Len(y) BY <3>8, <4>1 DEF y
        <5>2. Bytes(z, Len(x) + w, m) = Bytes(y, w, m) BY <3>1, <3>4, <5>1, BytesOfRight
        <5> QED BY <3>4, <4>1, <5>2 DEF y
      <4>2. CASE k # j
        <5> DEFINE s == Starts(c)[k - 1]
                   i == j - 1
        <5>1. k \in 1 .. j - 1 /\ k \in 1 .. n /\ i \in 1 .. n /\ k - 1 \in 0 .. i /\ k \in 0 .. i
          BY <1>1, <2>0, <4>2
        <5>2. s \in Nat /\ Starts(c)[k] = s + Len(c[k]) /\ Len(c[k]) \in Nat /\ Starts(c)[k] \in Nat
          BY <1>1, <5>1
        <5>3. Starts(c)[k] <= Len(x)
          <6>1. Starts(c)[k] <= Starts(c)[j - 1] BY <5>1, StartsInOrder DEF n
          <6> QED BY <3>4, <6>1
        <5>4. s + w \in Nat /\ (s + w) + m <= Len(x)
          <6>1. Len(x) \in Nat BY <3>4, LenProperties
          <6> HIDE DEF s
          <6> QED BY <3>8, <5>2, <5>3, <6>1
        <5>5. Bytes(z, s + w, m) = Bytes(x, s + w, m)
          <6> HIDE DEF s
          <6> QED BY <3>1, <3>4, <5>4, BytesOfLeft
        <5>6. Bytes(x, s + w, m) = Bytes(c[k], w, m) BY <3>5, <3>8, <5>1
        <5> QED BY <5>5, <5>6
      <4> QED BY <4>1, <4>2
    <3>9. Holds(z, j) BY <3>7, <3>8 DEF Holds
    <3> QED BY <2>0, <3>9 DEF z
  <2> QED BY <2>1, <2>2
<1> HIDE DEF T, Holds
<1>6. 0 .. n \subseteq T BY <1>1, <1>4, <1>5, EveryNumberTo
<1>7. Holds(f[n], n) BY <1>1, <1>6 DEF T
<1> QED BY <1>2, <1>7 DEF Holds, n

\* Readers in a chain are the bytes of each, one after the other.
LEMMA JoinedCovers ==
  ASSUME NEW n \in Nat \ {0}, NEW p, Len(p) = n, NEW c, Len(c) = n,
         \A k \in 1 .. n : Covers(p[k], c[k])
  PROVE  Covers(FlattenSeq(p), FlattenSeq(c))
<1>1. PICK f : IsFlattening(f, p, n) /\ FlattenSeq(p) = f[n]
  <2>1. Len(p) \in Nat \ {0} OBVIOUS
  <2>2. \E f : IsFlattening(f, p, Len(p)) /\ FlattenSeq(p) = f[Len(p)]
    BY <2>1, FlattenSeqIs
  <2> QED BY <2>2
<1>2. PICK g : IsFlattening(g, c, n) /\ FlattenSeq(c) = g[n]
  <2>1. Len(c) \in Nat \ {0} OBVIOUS
  <2>2. \E h : IsFlattening(h, c, Len(c)) /\ FlattenSeq(c) = h[Len(c)]
    BY <2>1, FlattenSeqIs
  <2> QED BY <2>2
<1>3. \A k \in 1 .. n : /\ f[k] = IF k = 1 THEN p[k] ELSE f[k - 1] \o p[k]
                        /\ g[k] = IF k = 1 THEN c[k] ELSE g[k - 1] \o c[k]
  BY <1>1, <1>2 DEF IsFlattening
<1> DEFINE T == {j \in Nat : j > 0 => Covers(f[j], g[j])}
<1>4. 0 \in T OBVIOUS
<1>5. ASSUME NEW j \in 1 .. n, j - 1 \in T PROVE j \in T
  <2>1. CASE j = 1
    <3>1. f[j] = p[j] /\ g[j] = c[j] BY <1>3, <2>1
    <3> QED BY <3>1
  <2>2. CASE j # 1
    <3>1. f[j] = f[j - 1] \o p[j] /\ g[j] = g[j - 1] \o c[j] BY <1>3, <2>2
    <3>2. j - 1 > 0 /\ j \in Nat BY <2>2
    <3>3. Covers(f[j - 1], g[j - 1]) /\ Covers(p[j], c[j]) BY <1>5, <3>2
    <3>4. Covers(f[j - 1] \o p[j], g[j - 1] \o c[j]) BY <3>3, CoversJoined
    <3> QED BY <3>1, <3>2, <3>4
  <2> QED BY <2>1, <2>2
<1> HIDE DEF T
<1>6. 0 .. n \subseteq T BY <1>4, <1>5, EveryNumberTo
<1>7. n \in 0 .. n /\ n > 0 OBVIOUS
<1>8. Covers(f[n], g[n]) BY <1>6, <1>7 DEF T
<1> QED BY <1>1, <1>2, <1>8

LEMMA ChainedIs ==
  ASSUME NEW n \in Nat \ {0}, NEW r, DOMAIN r = 1 .. n, NEW c, AreBytes(c), Len(c) = n,
         \A k \in 1 .. n : IsReaderOf(r[k], c[k])
  PROVE  IsReaderOf(Chained(r), FlattenSeq(c))
<1> DEFINE p == [k \in 1 .. n |-> r[k].parts]
<1>1. Chained(r) = [chained |-> TRUE, parts |-> FlattenSeq(p)] BY DEF Chained
<1>2. \A k \in 1 .. n : Covers(r[k].parts, c[k]) /\ Len(c[k]) > 0 /\ r[k].parts \in Seq(Views)
  BY ReaderIs DEF AreViews
<1>3. p \in [1 .. n -> Seq(Views)] BY <1>2
<1>4. Len(p) = n
  <2> HIDE DEF p
  <2> QED BY <1>3, SeqFromFunction
<1>5. \A k \in 1 .. n : Covers(p[k], c[k]) BY <1>2
<1> HIDE DEF p
<1>6. Covers(FlattenSeq(p), FlattenSeq(c)) BY <1>4, <1>5, JoinedCovers
<1>7. Len(FlattenSeq(c)) > 0
  <2>1. n \in 1 .. Len(c) OBVIOUS
  <2>2. /\ Starts(c)[n] = Starts(c)[n - 1] + Len(c[n]) /\ Starts(c)[n - 1] \in Nat
        /\ Len(c[n]) \in Nat
    BY <2>1, StartsAre
  <2>3. Len(FlattenSeq(c)) = Starts(c)[n] /\ Len(c[n]) > 0 BY <1>2, JoinedBytes
  <2> QED BY <2>2, <2>3
<1> QED BY <1>1, <1>6, <1>7 DEF IsReaderOf
-----------------------------------------------------------------------------
(* Sequential readers that are as they should be.                          *)

GoodWrapper(s, b) == s \in Wrappers /\ IsReaderOf(s.reader, b)

\* The end of the stream is seen with its last byte, not before.
GoodDecoder(s, b) ==
    /\ s \in Decoders /\ s.bytes = b /\ Len(b) > 0
    /\ s.offset <= Len(b) /\ (s.ended => s.offset = Len(b))

\* A chain of readers of the bytes in c: the parts from the current one on are
\* good, the current one has bytes left, and the later ones were not read.
IsChainOf(s, b, c, good) ==
    /\ AreBytes(c) /\ b = FlattenSeq(c) /\ s.size = Len(b)
    /\ \A k \in 1 .. Len(c) : Len(c[k]) > 0
    /\ Len(s.readers) = Len(c)
    /\ s.current \in 1 .. Len(c) + 1
    /\ \A k \in 1 .. Len(c) : k >= s.current =>
          /\ <<s.readers[k], c[k]>> \in good
          /\ s.readers[k].offset = IF k = s.current THEN s.within ELSE 0
    /\ \A k \in 1 .. Len(c) : k = s.current => s.within < Len(c[k])
    /\ s.current = Len(c) + 1 => s.within = 0
    /\ s.offset = Starts(c)[s.current - 1] + s.within

GoodChain(s, b, good, readers) == s \in ChainsOf(readers) /\ \E c : IsChainOf(s, b, c, good)

\* Readers, each with the bytes that it reads, when good are those that a chain
\* may have.
GoodWith(good, readers) ==
    {x \in (Wrappers \union Decoders \union ChainsOf(readers)) \X Seq(Nat) :
        \/ GoodWrapper(x[1], x[2])
        \/ GoodDecoder(x[1], x[2])
        \/ GoodChain(x[1], x[2], good, readers)}

GoodTo[d \in 0 .. Depth] ==
    IF d = 0 THEN {} ELSE GoodWith(GoodTo[d - 1], SequentialReaders[d - 1])

IsGood(f, n) ==
    f = [k \in 0 .. n |-> IF k = 0 THEN {} ELSE GoodWith(f[k - 1], SequentialReaders[k - 1])]

LEMMA GoodExists ==
  \A n \in Nat : \E f : IsGood(f, n)
<1> DEFINE Value(h, k) == IF k = 0 THEN {} ELSE GoodWith(h[k - 1], SequentialReaders[k - 1])
           T == {n \in Nat : \E f : IsGood(f, n)}
<1>1. 0 \in T
  <2> DEFINE g == [k \in 0 .. 0 |-> {}]
  <2>1. IsGood(g, 0) BY DEF IsGood
  <2> QED BY <2>1
<1>2. ASSUME NEW n \in Nat, n \in T PROVE n + 1 \in T
  <2>1. PICK f : IsGood(f, n) BY <1>2
  <2>2. \A k \in 0 .. n : f[k] = Value(f, k) BY <2>1 DEF IsGood
  <2> DEFINE g == [k \in 0 .. n + 1 |-> IF k = n + 1 THEN Value(f, k) ELSE f[k]]
  <2>3. ASSUME NEW k \in 0 .. n + 1 PROVE g[k] = Value(g, k)
    <3>1. g[k] = Value(f, k)
      <4>1. CASE k = n + 1 BY <4>1
      <4>2. CASE k # n + 1
        <5>1. k \in 0 .. n BY <4>2
        <5>2. g[k] = f[k] BY <4>2
        <5> HIDE DEF Value
        <5> QED BY <2>2, <5>1, <5>2
      <4> QED BY <4>1, <4>2
    <3>2. CASE k = 0 BY <3>1, <3>2
    <3>3. CASE k # 0
      <4>1. k - 1 \in 0 .. n /\ k - 1 # n + 1 /\ k - 1 \in 0 .. n + 1 BY <3>3
      <4>2. g[k - 1] = f[k - 1] BY <4>1
      <4> HIDE DEF g
      <4> QED BY <3>1, <4>2
    <3> QED BY <3>2, <3>3
  <2>4. g = [k \in 0 .. n + 1 |-> g[k]] OBVIOUS
  <2> HIDE DEF g
  <2>5. IsGood(g, n + 1) BY <2>3, <2>4 DEF IsGood
  <2> QED BY <2>5
<1> HIDE DEF T
<1>3. Nat \subseteq T BY <1>1, <1>2, EveryNumber
<1> QED BY <1>3 DEF T

LEMMA GoodToIs ==
  \A d \in 0 .. Depth : GoodTo[d] =
    IF d = 0 THEN {} ELSE GoodWith(GoodTo[d - 1], SequentialReaders[d - 1])
<1>1. Depth \in Nat BY ReadersAssumption
<1>2. \E f : IsGood(f, Depth) BY <1>1, GoodExists
<1>3. GoodTo = CHOOSE f : IsGood(f, Depth) BY DEF GoodTo, IsGood
<1>4. IsGood(GoodTo, Depth) BY <1>2, <1>3
<1> QED BY <1>4 DEF IsGood

\* What is read from a reader at its place, how far it is then, and that it is
\* still as it should be.
ReadsWell(good, read) ==
    \A s, b : \A n \in Nat \ {0} : <<s, b>> \in good =>
       LET x == read[<<s, n>>] IN
       /\ <<x.reader, b>> \in good
       /\ x.outcome = "ok" => /\ x.got = Bytes(b, s.offset, n)
                              /\ x.reader.offset = s.offset + Len(x.got)
       /\ s.offset < Len(b) => x.outcome = "ok"

SkipsWell(good, skip) ==
    \A s, b : \A n \in Nat : <<s, b>> \in good =>
       LET x == skip[<<s, n>>] IN
       /\ <<x.reader, b>> \in good
       /\ x.outcome = "ok" => x.reader.offset = s.offset + n
       /\ s.offset + n <= Len(b) => x.outcome = "ok"

-----------------------------------------------------------------------------
(* Wrappers and decoders.                                                  *)

LEMMA WrapperMoves ==
  ASSUME NEW s, NEW b, GoodWrapper(s, b), NEW n \in Nat
  PROVE  LET t == [s EXCEPT !.offset = @ + n] IN
         GoodWrapper(t, b) /\ t.offset = s.offset + n
<1>1. s \in Wrappers /\ s.offset \in Nat /\ s.offset + n \in Nat BY DEF GoodWrapper, Wrappers
<1> DEFINE m == s.offset + n
           t == [s EXCEPT !.offset = m]
<1>2. m \in Nat BY <1>1
<1> HIDE DEF m
<1>3. t \in Wrappers /\ t.offset = m /\ t.reader = s.reader BY <1>1, <1>2 DEF Wrappers
<1>4. GoodWrapper(t, b) BY <1>3 DEF GoodWrapper
<1> QED BY <1>3, <1>4 DEF m

LEMMA ReadWrapperIs ==
  ASSUME NEW s, NEW b, GoodWrapper(s, b), NEW n \in Nat
  PROVE  LET x == ReadWrapper(s, n) IN
         /\ GoodWrapper(x.reader, b) /\ x.outcome = "ok"
         /\ x.got = Bytes(b, s.offset, n) /\ x.reader.offset = s.offset + Len(x.got)
<1> DEFINE got == ReadReader(s.reader, s.offset, n)
           t == [s EXCEPT !.offset = @ + Len(got)]
<1>1. s.offset \in Nat /\ IsReaderOf(s.reader, b) BY DEF GoodWrapper, Wrappers
<1>2. got = Bytes(b, s.offset, n) BY <1>1, ReadReaderIs
<1>3. Len(got) \in Nat
  <2>1. b \in Seq(Nat) BY <1>1, ReaderIs
  <2>2. got \in Seq(Nat) BY <1>1, <1>2, <2>1, BytesAre
  <2> QED BY <2>2, LenProperties
<1>4. ReadWrapper(s, n) = [reader |-> t, got |-> got, outcome |-> "ok"]
  BY DEF ReadWrapper, Given
<1> HIDE DEF got
<1>5. GoodWrapper(t, b) /\ t.offset = s.offset + Len(got) BY <1>3, WrapperMoves
<1> HIDE DEF t
<1> QED BY <1>2, <1>4, <1>5

LEMMA ReadDecoderIs ==
  ASSUME NEW s, NEW b, b \in Seq(Nat), GoodDecoder(s, b), NEW n \in Nat \ {0}
  PROVE  LET x == ReadDecoder(s, n) IN
         /\ GoodDecoder(x.reader, b)
         /\ x.outcome = "ok" => /\ x.got = Bytes(b, s.offset, n)
                                /\ x.reader.offset = s.offset + Len(x.got)
                                /\ x.got = <<>> /\ x.reader # s => x.reader.ended /\ ~s.ended
                                /\ s.ended => x.reader.ended
         /\ s.offset < Len(b) => x.outcome = "ok"
<1> DEFINE got == Bytes(b, s.offset, n)
           t == [s EXCEPT !.offset = @ + Len(got)]
           m == s.offset + Len(got)
<1>1. /\ s \in Decoders /\ s.offset \in Nat /\ s.bytes = b /\ Len(b) \in Nat /\ Len(b) > 0
      /\ s.offset <= Len(b) /\ (s.ended => s.offset = Len(b)) /\ s.ended \in BOOLEAN
      /\ s.codec \in {"zlib", "zstd"}
  BY LenProperties DEF GoodDecoder, Decoders
<1>2. /\ Len(got) \in Nat /\ got \in Seq(Nat) /\ m \in Nat /\ m <= Len(b)
      /\ Len(got) = n \/ m = Len(b)
  <2> DEFINE o == s.offset
  <2>3. o \in Nat /\ o <= Len(b) BY <1>1
  <2> HIDE DEF o
  <2>4. \E q \in Nat :
            /\ q <= n /\ o + q <= Len(b) /\ (q = n \/ o + q = Len(b))
            /\ Bytes(b, o, n) = Bytes(b, o, q) /\ Len(Bytes(b, o, n)) = q
    <3> HIDE DEF got, t, m
    <3> QED BY <2>3, BytesGot
  <2>1. PICK q \in Nat : /\ o + q <= Len(b) /\ (q = n \/ o + q = Len(b))
                         /\ Len(Bytes(b, o, n)) = q
    BY <2>4
  <2>2. got \in Seq(Nat) BY <1>1, BytesAre
  <2> QED BY <1>1, <2>1, <2>2 DEF o
<1>3. Decoded(s, n) = [reader |-> t, got |-> got, outcome |-> "ok"]
  BY <1>1 DEF Decoded, Given
<1>4. /\ t \in Decoders /\ t.offset = m /\ t.bytes = b /\ t.ended = s.ended
  <2> HIDE DEF got
  <2>1. t = [s EXCEPT !.offset = m] OBVIOUS
  <2> HIDE DEF m
  <2> QED BY <1>1, <1>2, <2>1 DEF Decoders
<1>5. got = <<>> => m = s.offset BY <1>1
<1> HIDE DEF got, m
<1>6. CASE s.codec = "zlib" /\ s.ended
  <2>1. ReadDecoder(s, n) = [reader |-> s, got |-> <<>>, outcome |-> "thrown"]
    BY <1>6 DEF ReadDecoder, ReadZlib
  <2>2. ~(s.offset < Len(b)) BY <1>1, <1>6
  <2> QED BY <2>1, <2>2
<1>7. CASE s.codec = "zlib" /\ ~s.ended
  <2> DEFINE ends == \/ s.offset + n > Len(s.bytes)
                     \/ s.offset + n = Len(s.bytes) /\ ~s.trailer
             u == [t EXCEPT !.ended = ends]
  <2>1. ReadDecoder(s, n) = [reader |-> u, got |-> got, outcome |-> "ok"]
    <3>1. ReadDecoder(s, n) = [Decoded(s, n) EXCEPT !.reader.ended = ends]
      BY <1>7 DEF ReadDecoder, ReadZlib
    <3> DEFINE x == Decoded(s, n)
    <3>2. x = [reader |-> t, got |-> got, outcome |-> "ok"] BY <1>3
    <3> HIDE DEF ends, t, x
    <3>3. [x EXCEPT !.reader.ended = ends] = [x EXCEPT !.reader = [t EXCEPT !.ended = ends]]
      BY <3>2
    <3> DEFINE v == [t EXCEPT !.ended = ends]
    <3> HIDE DEF v
    <3>4. [x EXCEPT !.reader = v] = [reader |-> v, got |-> got, outcome |-> "ok"] BY <3>2
    <3> QED BY <3>1, <3>3, <3>4 DEF v, x
  <2>2. ends \in BOOLEAN /\ (ends => s.offset + n >= Len(b)) /\ (s.offset = Len(b) => ends)
    <3>1. (s.offset + n > Len(b) \/ (s.offset + n = Len(b) /\ ~s.trailer)) => s.offset + n >= Len(b)
      BY <1>1
    <3>2. s.offset = Len(b) => s.offset + n > Len(b) BY <1>1
    <3> QED BY <1>1, <3>1, <3>2
  <2> HIDE DEF ends, t
  <2>3. u \in Decoders /\ u.offset = m /\ u.bytes = b /\ u.ended = ends
    BY <1>4, <2>2 DEF Decoders
  <2> HIDE DEF u
  <2>4. ends => m = Len(b) BY <1>1, <1>2, <2>2 DEF m
  <2>5. GoodDecoder(u, b) BY <1>1, <1>2, <2>3, <2>4 DEF GoodDecoder
  <2>6. got = <<>> => ends
    <3>1. ASSUME got = <<>> PROVE s.offset = Len(b)
      <4>1. Len(got) = 0 BY <3>1
      <4> QED BY <1>1, <1>2, <1>5, <3>1, <4>1
    <3> QED BY <2>2, <3>1
  <2>7. u.offset = s.offset + Len(got) BY <2>3 DEF m
  <2> QED BY <1>7, <2>1, <2>3, <2>5, <2>6, <2>7 DEF got
<1>8. CASE s.codec = "zstd"
  <2>1. ReadDecoder(s, n) = [reader |-> t, got |-> got, outcome |-> "ok"]
    BY <1>3, <1>8 DEF ReadDecoder, ReadZstd
  <2>2. t.ended => m = Len(b) BY <1>1, <1>2, <1>4 DEF m
  <2>3. got = <<>> => t = s
    <3>1. ASSUME got = <<>> PROVE [s EXCEPT !.offset = m] = s
      <4>1. m = s.offset BY <1>5, <3>1
      <4> QED BY <1>1, <4>1 DEF Decoders
    <3>2. t = [s EXCEPT !.offset = m] BY DEF m
    <3> QED BY <3>1, <3>2
  <2> HIDE DEF t
  <2>4. GoodDecoder(t, b) BY <1>1, <1>2, <1>4, <2>2 DEF GoodDecoder
  <2>5. t.offset = s.offset + Len(got) BY <1>4 DEF m
  <2> QED BY <1>4, <2>1, <2>3, <2>4, <2>5 DEF got
<1> QED BY <1>1, <1>6, <1>7, <1>8

\* What skip_by_reading() has done after k turns: each of them skips bytes, or
\* sees the end of the stream, which it does once.
SkipTurn(t, s, b, n, k) ==
    /\ DOMAIN t = {"reader", "left", "outcome"}
    /\ GoodDecoder(t.reader, b) /\ t.left \in Nat
    /\ t.outcome = "ok" => /\ t.reader.offset + t.left = s.offset + n
                           /\ \/ t.left = 0
                              \/ t.left + k + (IF t.reader.ended THEN 0 ELSE 1) <= n + 1
    /\ s.offset + n <= Len(b) => t.outcome = "ok"

LEMMA SkipTurnKept ==
  ASSUME NEW s, NEW b, b \in Seq(Nat), s.offset \in Nat, NEW n \in Nat, NEW k \in Nat,
         NEW t, SkipTurn(t, s, b, n, k)
  PROVE  SkipTurn(SkipBlock(t), s, b, n, k + 1)
<1> DEFINE r == t.reader
           m == LeastOf(t.left, Chunk)
           part == ReadDecoder(r, m)
<1>1. /\ DOMAIN t = {"reader", "left", "outcome"} /\ GoodDecoder(r, b) /\ t.left \in Nat
      /\ t.outcome = "ok" => /\ r.offset + t.left = s.offset + n
                             /\ \/ t.left = 0
                                \/ t.left + k + (IF r.ended THEN 0 ELSE 1) <= n + 1
      /\ s.offset + n <= Len(b) => t.outcome = "ok"
  BY DEF SkipTurn
<1>2. Chunk \in Nat \ {0} BY ReadersAssumption
<1>3. r.offset \in Nat /\ r.ended \in BOOLEAN /\ r.offset <= Len(b) /\ Len(b) \in Nat
  BY <1>1, LenProperties DEF GoodDecoder, Decoders
<1>4. CASE t.left = 0 \/ t.outcome # "ok"
  <2>1. SkipBlock(t) = t BY <1>4 DEF SkipBlock
  <2>2. t.outcome = "ok" => t.left = 0 BY <1>4
  <2> QED BY <1>1, <2>1, <2>2 DEF SkipTurn
<1>5. CASE ~(t.left = 0 \/ t.outcome # "ok")
  <2>1. m \in Nat \ {0} /\ m <= t.left BY <1>1, <1>2, <1>5, LeastIs
  <2> HIDE DEF m
  <2>2. /\ GoodDecoder(part.reader, b)
        /\ part.outcome = "ok" => /\ part.got = Bytes(b, r.offset, m)
                                  /\ part.reader.offset = r.offset + Len(part.got)
                                  /\ part.got = <<>> /\ part.reader # r =>
                                        part.reader.ended /\ ~r.ended
                                  /\ r.ended => part.reader.ended
        /\ r.offset < Len(b) => part.outcome = "ok"
    <3> HIDE DEF r
    <3> QED BY <1>1, <2>1, ReadDecoderIs
  <2>3. \E q \in Nat :
            /\ q <= m /\ r.offset + q <= Len(b) /\ (q = m \/ r.offset + q = Len(b))
            /\ Bytes(b, r.offset, m) = Bytes(b, r.offset, q) /\ Len(Bytes(b, r.offset, m)) = q
    <3> DEFINE o == r.offset
    <3>1. o \in Nat /\ o <= Len(b) /\ m \in Nat BY <1>3, <2>1
    <3> HIDE DEF o, r, part
    <3>2. \E q \in Nat :
            /\ q <= m /\ o + q <= Len(b) /\ (q = m \/ o + q = Len(b))
            /\ Bytes(b, o, m) = Bytes(b, o, q) /\ Len(Bytes(b, o, m)) = q
      BY <3>1, BytesGot, ZenonT(30)
    <3> QED BY <3>2 DEF o
  <2>4. PICK q \in Nat : /\ q <= m /\ (q = m \/ r.offset + q = Len(b))
                         /\ Len(Bytes(b, r.offset, m)) = q
    BY <2>3
  <2>5. r.offset + t.left = s.offset + n BY <1>1, <1>5
  <2>6. t.left + k + (IF r.ended THEN 0 ELSE 1) <= n + 1 BY <1>1, <1>5
  <2>7. s.offset + n <= Len(b) => r.offset < Len(b) BY <1>1, <1>3, <1>5, <2>5
  <2>8. SkipBlock(t) = IF part.outcome # "ok" THEN [t EXCEPT !.outcome = part.outcome]
                       ELSE IF part.reader = r THEN [t EXCEPT !.outcome = "hangs"]
                       ELSE [t EXCEPT !.reader = part.reader, !.left = @ - Len(part.got)]
    BY <1>5 DEF SkipBlock, m
  <2> HIDE DEF part
  <2>9. CASE part.outcome # "ok"
    <3> DEFINE u == [t EXCEPT !.outcome = part.outcome]
    <3>1. /\ DOMAIN u = DOMAIN t /\ u.reader = r /\ u.left = t.left
          /\ u.outcome = part.outcome
      BY <1>1
    <3>2. SkipBlock(t) = u BY <2>8, <2>9
    <3>3. ~(s.offset + n <= Len(b)) BY <2>2, <2>7, <2>9
    <3> HIDE DEF u, r
    <3> QED BY <1>1, <2>9, <3>1, <3>2, <3>3 DEF SkipTurn
  <2>10. CASE part.outcome = "ok" /\ part.reader = r
    <3> DEFINE u == [t EXCEPT !.outcome = "hangs"]
    <3>1. DOMAIN u = DOMAIN t /\ u.reader = r /\ u.left = t.left /\ u.outcome = "hangs"
      BY <1>1
    <3>2. SkipBlock(t) = u BY <2>8, <2>10
    <3>3. ~(s.offset + n <= Len(b))
      <4>1. r.offset = r.offset + q BY <2>2, <2>4, <2>10
      <4>2. q = 0 BY <1>3, <4>1
      <4>3. r.offset = Len(b) BY <1>3, <2>1, <2>4, <4>2
      <4> QED BY <2>7, <1>3, <4>3
    <3> HIDE DEF u, r
    <3> QED BY <1>1, <3>1, <3>2, <3>3 DEF SkipTurn
  <2>11. CASE part.outcome = "ok" /\ part.reader # r
    <3> DEFINE p == part.reader
               u == [t EXCEPT !.reader = p, !.left = @ - q]
    <3>1. /\ part.got = Bytes(b, r.offset, m) /\ Len(part.got) = q
          /\ p.offset = r.offset + q
          /\ part.got = <<>> => p.ended /\ ~r.ended
          /\ r.ended => p.ended
      BY <2>2, <2>4, <2>11
    <3>2. SkipBlock(t) = u BY <2>8, <2>11, <3>1
    <3> HIDE DEF p
    <3>3. /\ DOMAIN u = DOMAIN t /\ u.reader = p /\ u.left = t.left - q
          /\ u.outcome = t.outcome
      BY <1>1
    <3> HIDE DEF u
    <3>4. t.left - q \in Nat /\ p.offset + (t.left - q) = s.offset + n
      <4> DEFINE x == r.offset
                 l == t.left
                 w == s.offset + n
      <4>1. q <= l /\ x \in Nat /\ l \in Nat /\ w \in Nat /\ x + l = w
        BY <1>1, <1>3, <2>1, <2>4, <2>5
      <4>2. p.offset = x + q BY <3>1
      <4> HIDE DEF x, l, w
      <4>3. l - q \in Nat /\ (x + q) + (l - q) = w BY <4>1
      <4> QED BY <4>2, <4>3 DEF l, w
    <3>5. GoodDecoder(p, b) BY <2>2 DEF p
    <3>6. (t.left - q) + (k + 1) + (IF p.ended THEN 0 ELSE 1) <= n + 1
      <4>1. CASE q = 0
        <5>1. part.got = <<>>
          <6>1. part.got \in Seq(Nat)
            <7>1. r.offset \in Nat /\ m \in Nat BY <1>3, <2>1
            <7>2. Bytes(b, r.offset, m) \in Seq(Nat)
              <8> HIDE DEF r
              <8> QED BY <7>1, BytesAre
            <7> QED BY <3>1, <7>2
          <6> QED BY <3>1, <4>1, <6>1, EmptySeq
        <5>2. p.ended /\ ~r.ended BY <3>1, <5>1
        <5>3. t.left + k + 1 <= n + 1 BY <2>6, <5>2
        <5> QED BY <1>1, <4>1, <5>2, <5>3
      <4>2. CASE q # 0
        <5> DEFINE x == IF r.ended THEN 0 ELSE 1
                   y == IF p.ended THEN 0 ELSE 1
        <5>1. x \in 0 .. 1 /\ y \in 0 .. 1 /\ y <= x BY <3>1
        <5>2. t.left + k + x <= n + 1 BY <2>6
        <5> HIDE DEF x, y
        <5>3. (t.left - q) + (k + 1) + y <= n + 1 BY <1>1, <4>2, <5>1, <5>2
        <5> QED BY <5>3 DEF y
      <4> QED BY <4>1, <4>2
    <3>7. u.outcome = "ok" /\ GoodDecoder(u.reader, b) /\ u.left \in Nat
      BY <1>5, <3>3, <3>4, <3>5
    <3>8. u.reader.offset + u.left = s.offset + n BY <3>3, <3>4
    <3>9. u.left + (k + 1) + (IF u.reader.ended THEN 0 ELSE 1) <= n + 1 BY <3>3, <3>6
    <3> QED BY <1>1, <3>2, <3>3, <3>7, <3>8, <3>9 DEF SkipTurn
  <2> QED BY <2>9, <2>10, <2>11
<1> QED BY <1>4, <1>5

LEMMA SkipByReadingSkips ==
  ASSUME NEW s, NEW b, b \in Seq(Nat), GoodDecoder(s, b), NEW n \in Nat
  PROVE  LET x == SkipByReading(s, n) IN
         /\ GoodDecoder(x.reader, b)
         /\ x.outcome = "ok" => x.reader.offset = s.offset + n
         /\ s.offset + n <= Len(b) => x.outcome = "ok"
<1>1. s.offset \in Nat /\ s.ended \in BOOLEAN BY DEF GoodDecoder, Decoders
<1>2. PICK f : /\ IsSkipping(f, s, n, n + 2)
               /\ SkipByReading(s, n) = [reader |-> f[n + 2].reader, outcome |-> f[n + 2].outcome]
  BY SkipByReadingIs
<1>3. /\ f[0] = [reader |-> s, left |-> n, outcome |-> "ok"]
      /\ \A k \in 1 .. n + 2 : f[k] = SkipBlock(f[k - 1])
  BY <1>2 DEF IsSkipping
<1> DEFINE T == {k \in Nat : SkipTurn(f[k], s, b, n, k)}
<1>4. 0 \in T
  <2>1. n + 0 + (IF s.ended THEN 0 ELSE 1) <= n + 1 BY <1>1
  <2>2. SkipTurn(f[0], s, b, n, 0) BY <1>1, <1>3, <2>1 DEF SkipTurn
  <2> QED BY <2>2
<1>5. ASSUME NEW k \in 1 .. n + 2, k - 1 \in T PROVE k \in T
  <2>1. k - 1 \in Nat /\ (k - 1) + 1 = k /\ k \in Nat OBVIOUS
  <2>2. SkipTurn(f[k - 1], s, b, n, k - 1) BY <1>5
  <2>3. SkipTurn(SkipBlock(f[k - 1]), s, b, n, (k - 1) + 1)
    BY <1>1, <2>1, <2>2, SkipTurnKept
  <2>4. f[k] = SkipBlock(f[k - 1]) BY <1>3
  <2> QED BY <2>1, <2>3, <2>4
<1> HIDE DEF T
<1>6. n + 2 \in Nat /\ n + 2 \in 0 .. n + 2 OBVIOUS
<1>7. 0 .. n + 2 \subseteq T BY <1>4, <1>5, <1>6, EveryNumberTo
<1>8. SkipTurn(f[n + 2], s, b, n, n + 2) BY <1>6, <1>7 DEF T
<1> DEFINE t == f[n + 2]
<1>9. SkipTurn(t, s, b, n, n + 2) BY <1>8
<1> HIDE DEF t
<1>10. t.outcome = "ok" => t.left = 0
  <2>1. t.left \in Nat /\ (t.outcome = "ok" =>
          \/ t.left = 0
          \/ t.left + (n + 2) + (IF t.reader.ended THEN 0 ELSE 1) <= n + 1)
    BY <1>9 DEF SkipTurn
  <2> DEFINE x == IF t.reader.ended THEN 0 ELSE 1
  <2>2. x \in Nat OBVIOUS
  <2> HIDE DEF x
  <2>3. ~(t.left + (n + 2) + x <= n + 1) BY <2>1, <2>2
  <2> QED BY <2>1, <2>3 DEF x
<1>11. GoodDecoder(t.reader, b) /\ t.reader.offset \in Nat
  BY <1>9 DEF SkipTurn, GoodDecoder, Decoders
<1>12. t.outcome = "ok" => t.reader.offset = s.offset + n
  BY <1>9, <1>10, <1>11 DEF SkipTurn
<1>13. SkipByReading(s, n) = [reader |-> t.reader, outcome |-> t.outcome] BY <1>2 DEF t
<1> QED BY <1>9, <1>11, <1>12, <1>13 DEF SkipTurn

-----------------------------------------------------------------------------
(* Chains.                                                                 *)

\* What holds of the readers that a chain has.
GoodParts(good, readers) ==
    \A r, b : <<r, b>> \in good =>
       /\ r \in readers /\ b \in Seq(Nat) /\ Len(b) \in Nat /\ Len(b) > 0
       /\ r.offset \in Nat /\ SizeOf(r) = Len(b)

LEMMA ChainFields ==
  ASSUME NEW readers, NEW s \in ChainsOf(readers)
  PROVE  /\ DOMAIN s = {"kind", "readers", "current", "within", "offset", "size"}
         /\ s.kind = "chain" /\ s.readers \in Seq(readers) /\ Len(s.readers) \in Nat
         /\ s.current \in Nat /\ s.within \in Nat /\ s.offset \in Nat /\ s.size \in Nat
<1>1. /\ DOMAIN s = {"kind", "readers", "current", "within", "offset", "size"}
      /\ s.kind = "chain" /\ s.readers \in Seq(readers)
      /\ s.current \in Nat /\ s.within \in Nat /\ s.offset \in Nat /\ s.size \in Nat
  BY DEF ChainsOf
<1> QED BY <1>1, LenProperties

LEMMA AdvancedIs ==
  ASSUME NEW readers, NEW s \in ChainsOf(readers), s.current \in 1 .. Len(s.readers),
         NEW r \in readers, NEW m \in Nat
  PROVE  LET u == Advanced(s, r, m) IN
         /\ u \in ChainsOf(readers)
         /\ u.current = s.current /\ u.size = s.size
         /\ u.within = s.within + m /\ u.offset = s.offset + m
         /\ Len(u.readers) = Len(s.readers)
         /\ \A k \in 1 .. Len(s.readers) :
               u.readers[k] = IF k = s.current THEN r ELSE s.readers[k]
<1> DEFINE u == Advanced(s, r, m)
           q == [s.readers EXCEPT ![s.current] = r]
<1>1. /\ DOMAIN s = {"kind", "readers", "current", "within", "offset", "size"}
      /\ s.kind = "chain" /\ s.readers \in Seq(readers) /\ Len(s.readers) \in Nat
      /\ s.current \in Nat /\ s.within \in Nat /\ s.offset \in Nat /\ s.size \in Nat
  BY ChainFields
<1>2. /\ DOMAIN u = DOMAIN s /\ u.kind = s.kind /\ u.current = s.current /\ u.size = s.size
      /\ u.within = s.within + m /\ u.offset = s.offset + m
  BY <1>1 DEF Advanced
<1>3. u.readers = q BY <1>1 DEF Advanced
<1>4. u = [x \in DOMAIN u |-> u[x]] BY DEF Advanced
<1>5. /\ q \in Seq(readers) /\ Len(q) = Len(s.readers)
      /\ \A k \in 1 .. Len(s.readers) : q[k] = IF k = s.current THEN r ELSE s.readers[k]
  BY <1>1, ExceptSeq
<1> HIDE DEF u, q
<1>6. s.within + m \in Nat /\ s.offset + m \in Nat BY <1>1
<1>7. u \in ChainsOf(readers) BY <1>1, <1>2, <1>3, <1>4, <1>5, <1>6 DEF ChainsOf
<1> QED BY <1>2, <1>3, <1>5, <1>7 DEF u

LEMMA MovedIs ==
  ASSUME NEW readers, NEW s \in ChainsOf(readers)
  PROVE  LET u == Moved(s) IN
         /\ u \in ChainsOf(readers)
         /\ u.current = s.current + 1 /\ u.size = s.size
         /\ u.within = 0 /\ u.offset = s.offset /\ u.readers = s.readers
<1> DEFINE u == Moved(s)
<1>1. /\ DOMAIN s = {"kind", "readers", "current", "within", "offset", "size"}
      /\ s.kind = "chain" /\ s.readers \in Seq(readers) /\ Len(s.readers) \in Nat
      /\ s.current \in Nat /\ s.within \in Nat /\ s.offset \in Nat /\ s.size \in Nat
  BY ChainFields
<1>2. /\ DOMAIN u = DOMAIN s /\ u.kind = s.kind /\ u.current = s.current + 1 /\ u.size = s.size
      /\ u.within = 0 /\ u.offset = s.offset /\ u.readers = s.readers
  BY <1>1 DEF Moved
<1>3. u = [x \in DOMAIN u |-> u[x]] BY DEF Moved
<1> HIDE DEF u
<1>4. s.current + 1 \in Nat /\ 0 \in Nat BY <1>1
<1>5. u \in ChainsOf(readers) BY <1>1, <1>2, <1>3, <1>4 DEF ChainsOf
<1> QED BY <1>2, <1>5 DEF u

\* The current part has moved and is not at its end.
LEMMA ChainAdvances ==
  ASSUME NEW good, NEW readers, GoodParts(good, readers),
         NEW s \in ChainsOf(readers), NEW b, NEW c, IsChainOf(s, b, c, good),
         s.current <= Len(c), NEW r, <<r, c[s.current]>> \in good, NEW m \in Nat,
         r.offset = s.within + m, s.within + m < Len(c[s.current])
  PROVE  LET u == Advanced(s, r, m) IN
         /\ u \in ChainsOf(readers) /\ IsChainOf(u, b, c, good)
         /\ u.offset = s.offset + m /\ u.current = s.current
<1> DEFINE u == Advanced(s, r, m)
<1>1. /\ Len(s.readers) = Len(c) /\ s.current \in 1 .. Len(s.readers) /\ Len(c) \in Nat
      /\ Len(c[s.current]) \in Nat
      /\ Starts(c)[s.current - 1] \in Nat
      /\ s.offset = Starts(c)[s.current - 1] + s.within
  BY StartsAre DEF IsChainOf
<1>2. r \in readers BY DEF GoodParts
<1>3. s.within \in Nat /\ s.offset \in Nat BY ChainFields
<1>4. /\ u \in ChainsOf(readers)
      /\ u.current = s.current /\ u.size = s.size
      /\ u.within = s.within + m /\ u.offset = s.offset + m
      /\ Len(u.readers) = Len(s.readers)
      /\ \A k \in 1 .. Len(s.readers) :
            u.readers[k] = IF k = s.current THEN r ELSE s.readers[k]
  BY <1>1, <1>2, AdvancedIs
<1> HIDE DEF u
<1>5. ASSUME NEW k \in 1 .. Len(c), k >= u.current
      PROVE  /\ <<u.readers[k], c[k]>> \in good
             /\ u.readers[k].offset = IF k = u.current THEN u.within ELSE 0
  <2>1. CASE k = s.current BY <1>1, <1>4, <2>1
  <2>2. CASE k # s.current
    <3>1. u.readers[k] = s.readers[k] BY <1>1, <1>4, <2>2
    <3>2. <<s.readers[k], c[k]>> \in good /\ s.readers[k].offset = 0
      BY <1>4, <1>5, <2>2 DEF IsChainOf
    <3> QED BY <1>4, <2>2, <3>1, <3>2
  <2> QED BY <2>1, <2>2
<1>6. u.offset = Starts(c)[u.current - 1] + u.within BY <1>1, <1>3, <1>4
<1>7. ~(u.current = Len(c) + 1) BY <1>1, <1>4
<1>8. /\ AreBytes(c) /\ b = FlattenSeq(c) /\ s.size = Len(b)
      /\ \A k \in 1 .. Len(c) : Len(c[k]) > 0
      /\ s.current \in 1 .. Len(c) + 1
  BY DEF IsChainOf
<1>9. IsChainOf(u, b, c, good) BY <1>1, <1>4, <1>5, <1>6, <1>7, <1>8 DEF IsChainOf
<1> QED BY <1>4, <1>9 DEF u

\* The current part is at its end: the next one is current.
LEMMA ChainMoves ==
  ASSUME NEW good, NEW readers, GoodParts(good, readers),
         NEW s \in ChainsOf(readers), NEW b, NEW c, IsChainOf(s, b, c, good),
         s.current <= Len(c), NEW r \in readers, NEW m \in Nat,
         s.within + m = Len(c[s.current])
  PROVE  LET u == Moved(Advanced(s, r, m)) IN
         /\ u \in ChainsOf(readers) /\ IsChainOf(u, b, c, good)
         /\ u.offset = s.offset + m /\ u.current = s.current + 1
<1> DEFINE v == Advanced(s, r, m)
           u == Moved(v)
<1>1. /\ Len(s.readers) = Len(c) /\ s.current \in 1 .. Len(s.readers) /\ Len(c) \in Nat
      /\ s.current \in Nat
      /\ Len(c[s.current]) \in Nat
      /\ Starts(c)[s.current - 1] \in Nat /\ Starts(c)[s.current] \in Nat
      /\ Starts(c)[s.current] = Starts(c)[s.current - 1] + Len(c[s.current])
      /\ s.offset = Starts(c)[s.current - 1] + s.within
  BY StartsAre DEF IsChainOf
<1>3. s.within \in Nat /\ s.offset \in Nat BY ChainFields
<1>4. /\ v \in ChainsOf(readers)
      /\ v.current = s.current /\ v.size = s.size
      /\ v.within = s.within + m /\ v.offset = s.offset + m
      /\ Len(v.readers) = Len(s.readers)
      /\ \A k \in 1 .. Len(s.readers) :
            v.readers[k] = IF k = s.current THEN r ELSE s.readers[k]
  BY <1>1, AdvancedIs
<1> HIDE DEF v
<1>5. /\ u \in ChainsOf(readers)
      /\ u.current = v.current + 1 /\ u.size = v.size
      /\ u.within = 0 /\ u.offset = v.offset /\ u.readers = v.readers
  BY <1>4, MovedIs
<1> HIDE DEF u
<1>6. u.current = s.current + 1 /\ u.current - 1 = s.current /\ u.current \in 1 .. Len(c) + 1
  BY <1>1, <1>4, <1>5, SMTT(30)
<1>7. ASSUME NEW k \in 1 .. Len(c), k >= u.current
      PROVE  /\ <<u.readers[k], c[k]>> \in good
             /\ u.readers[k].offset = IF k = u.current THEN u.within ELSE 0
  <2>1. k >= s.current /\ k # s.current BY <1>1, <1>6, <1>7, SMTT(30)
  <2>2. u.readers[k] = s.readers[k] BY <1>1, <1>4, <1>5, <2>1
  <2>3. <<s.readers[k], c[k]>> \in good /\ s.readers[k].offset = 0
    BY <2>1 DEF IsChainOf
  <2> QED BY <1>5, <2>2, <2>3
<1>8. u.offset = Starts(c)[u.current - 1] + u.within
  <2>1. Starts(c)[s.current] = s.offset + m BY <1>1, <1>3, SMTT(30)
  <2> QED BY <1>1, <1>4, <1>5, <1>6, <2>1
<1>9. /\ AreBytes(c) /\ b = FlattenSeq(c) /\ s.size = Len(b)
      /\ \A k \in 1 .. Len(c) : Len(c[k]) > 0
  BY DEF IsChainOf
<1>10. IsChainOf(u, b, c, good) BY <1>1, <1>4, <1>5, <1>6, <1>7, <1>8, <1>9 DEF IsChainOf
<1> QED BY <1>4, <1>5, <1>6, <1>10 DEF u, v

\* How far a chain is, and in which of its parts.
IsWithin(s, b, c, good) ==
    /\ b \in Seq(Nat) /\ Len(b) \in Nat /\ Len(b) > 0 /\ s.offset \in Nat /\ s.offset <= Len(b)
    /\ s.current \in Nat /\ s.current > 0 /\ s.within \in Nat
    /\ Len(s.readers) = Len(c) /\ Len(c) \in Nat
    /\ s.current > Len(c) => s.offset = Len(b)
    /\ s.current <= Len(c) =>
          /\ s.offset < Len(b)
          /\ c[s.current] \in Seq(Nat) /\ Len(c[s.current]) \in Nat
          /\ s.within < Len(c[s.current])
          /\ <<s.readers[s.current], c[s.current]>> \in good
          /\ s.readers[s.current].offset = s.within
          /\ \A m \in Nat : s.within + m <= Len(c[s.current]) =>
                /\ s.offset + m <= Len(b)
                /\ Bytes(b, s.offset, m) = Bytes(c[s.current], s.within, m)

LEMMA ChainIsWithin ==
  ASSUME NEW good, NEW readers, NEW s \in ChainsOf(readers), NEW b, NEW c,
         IsChainOf(s, b, c, good)
  PROVE  IsWithin(s, b, c, good)
<1> DEFINE n == Len(c)
           j == s.current
           f == Starts(c)
<1>1. /\ AreBytes(c) /\ b = FlattenSeq(c) /\ Len(s.readers) = n
      /\ j \in 1 .. n + 1
      /\ s.offset = f[j - 1] + s.within
      /\ j = n + 1 => s.within = 0
      /\ \A k \in 1 .. n : Len(c[k]) > 0
  BY DEF IsChainOf
<1>2. /\ n \in Nat /\ n > 0 /\ f[0] = 0
      /\ \A k \in 1 .. n : /\ c[k] \in Seq(Nat) /\ Len(c[k]) \in Nat
                           /\ f[k] \in Nat /\ f[k - 1] \in Nat
                           /\ f[k] = f[k - 1] + Len(c[k])
                           /\ f[k] <= f[n]
  BY <1>1, StartsAre
<1>3. /\ b \in Seq(Nat) /\ Len(b) = f[n]
      /\ \A k \in 1 .. n, w \in Nat, m \in Nat : w + m <= Len(c[k]) =>
            Bytes(b, f[k - 1] + w, m) = Bytes(c[k], w, m)
  BY <1>1, JoinedBytes
<1>4. s.within \in Nat /\ s.offset \in Nat /\ j \in Nat BY ChainFields
<1> HIDE DEF f
<1>5. f[n] \in Nat /\ f[n] > 0
  <2>1. n \in 1 .. n BY <1>2
  <2>2. /\ f[n] \in Nat /\ f[n - 1] \in Nat /\ f[n] = f[n - 1] + Len(c[n]) /\ Len(c[n]) \in Nat
        /\ Len(c[n]) > 0
    BY <1>1, <1>2, <2>1
  <2> QED BY <2>2
<1>6. CASE j > n
  <2>1. j = n + 1 /\ j - 1 = n BY <1>1, <1>2, <1>4, <1>6
  <2>2. s.offset = f[n] BY <1>1, <1>5, <2>1
  <2> QED BY <1>1, <1>2, <1>3, <1>4, <1>5, <1>6, <2>1, <2>2 DEF IsWithin
<1>7. CASE j <= n
  <2>1. j \in 1 .. n BY <1>1, <1>2, <1>4, <1>7
  <2>2. /\ c[j] \in Seq(Nat) /\ Len(c[j]) \in Nat /\ f[j - 1] \in Nat
        /\ f[j] = f[j - 1] + Len(c[j]) /\ f[j] <= f[n]
    BY <1>2, <2>1
  <2>3. /\ s.within < Len(c[j]) /\ <<s.readers[j], c[j]>> \in good
        /\ s.readers[j].offset = s.within
    BY <1>4, <2>1 DEF IsChainOf
  <2>4. ASSUME NEW m \in Nat, s.within + m <= Len(c[j])
        PROVE  s.offset + m <= Len(b) /\ Bytes(b, s.offset, m) = Bytes(c[j], s.within, m)
    <3>1. s.offset + m <= f[n]
      <4> DEFINE x == f[j - 1]
                 z == f[j]
                 y == f[n]
                 l == Len(c[j])
                 w == s.within
                 o == s.offset
      <4>1. o = x + w /\ z = x + l /\ z <= y /\ w + m <= l BY <1>1, <2>2, <2>4
      <4>2. x \in Nat /\ z \in Nat /\ y \in Nat /\ l \in Nat /\ w \in Nat BY <1>4, <1>5, <2>2
      <4> HIDE DEF x, y, z, l, w, o
      <4>3. o + m <= y BY <4>1, <4>2
      <4> QED BY <4>3 DEF o, y
    <3>2. Bytes(b, f[j - 1] + s.within, m) = Bytes(c[j], s.within, m)
      BY <1>3, <1>4, <2>1, <2>4
    <3> QED BY <1>1, <1>3, <3>1, <3>2
  <2>5. s.offset < f[n] BY <1>1, <1>4, <1>5, <2>2, <2>3, SMTT(30)
  <2>6. j > 0 /\ ~(j > n) /\ s.offset <= f[n] BY <1>4, <1>5, <2>1, <2>5, <1>2
  <2> QED BY <1>1, <1>2, <1>3, <1>4, <1>5, <2>2, <2>3, <2>4, <2>5, <2>6 DEF IsWithin
<1>8. j > n \/ j <= n BY <1>2, <1>4
<1> QED BY <1>6, <1>7, <1>8

LEMMA GoodPartsTo ==
  ASSUME NEW d \in 0 .. Depth
  PROVE  GoodParts(GoodTo[d], SequentialReaders[d])
<1>1. Depth \in Nat BY ReadersAssumption
<1> SUFFICES ASSUME NEW s, NEW b, <<s, b>> \in GoodTo[d]
             PROVE  /\ s \in SequentialReaders[d] /\ b \in Seq(Nat) /\ Len(b) \in Nat /\ Len(b) > 0
                    /\ s.offset \in Nat /\ SizeOf(s) = Len(b)
  BY DEF GoodParts
<1>2. d # 0 /\ <<s, b>> \in GoodWith(GoodTo[d - 1], SequentialReaders[d - 1])
  BY GoodToIs
<1>3. SequentialReaders[d] = Wrappers \union Decoders \union ChainsOf(SequentialReaders[d - 1])
  BY <1>2, SequentialReadersAre
<1> DEFINE good == GoodTo[d - 1]
           readers == SequentialReaders[d - 1]
<1>4. /\ s \in Wrappers \union Decoders \union ChainsOf(readers) /\ b \in Seq(Nat)
      /\ GoodWrapper(s, b) \/ GoodDecoder(s, b) \/ GoodChain(s, b, good, readers)
  BY <1>2 DEF GoodWith
<1>5. Len(b) \in Nat BY <1>4, LenProperties
<1> HIDE DEF good, readers
<1>6. CASE GoodWrapper(s, b)
  <2>1. s.kind = "wrapper" /\ s.offset \in Nat /\ IsReaderOf(s.reader, b)
    BY <1>6 DEF GoodWrapper, Wrappers
  <2>2. SizeOf(s) = SizeOfReader(s.reader) BY <2>1 DEF SizeOf
  <2>3. SizeOfReader(s.reader) = Len(b) /\ Len(b) > 0 BY <2>1, ReaderIs
  <2> QED BY <1>3, <1>4, <1>5, <2>1, <2>2, <2>3 DEF readers
<1>7. CASE GoodDecoder(s, b)
  <2>1. s.kind = "decoder" /\ s.offset \in Nat /\ s.bytes = b /\ Len(b) > 0
    BY <1>7 DEF GoodDecoder, Decoders
  <2>2. SizeOf(s) = Len(b) BY <2>1 DEF SizeOf
  <2> QED BY <1>3, <1>4, <1>5, <2>1, <2>2 DEF readers
<1>8. CASE GoodChain(s, b, good, readers)
  <2>1. PICK c : s \in ChainsOf(readers) /\ IsChainOf(s, b, c, good) BY <1>8 DEF GoodChain
  <2>2. s.kind = "chain" /\ s.offset \in Nat BY <2>1, ChainFields
  <2>3. SizeOf(s) = s.size BY <2>2 DEF SizeOf
  <2>4. s.size = Len(b) BY <2>1 DEF IsChainOf
  <2>5. Len(b) > 0 BY <2>1, ChainIsWithin DEF IsWithin
  <2> QED BY <1>3, <1>4, <1>5, <2>2, <2>3, <2>4, <2>5 DEF readers
<1> QED BY <1>4, <1>6, <1>7, <1>8

\* What the loop of read_some() has got after k turns.
ChainTurn(t, s, b, c, good, readers, n, k) ==
    /\ DOMAIN t = {"reader", "got", "left", "outcome"}
    /\ t.outcome = "ok" /\ t.left \in Nat /\ t.left <= n
    /\ t.reader \in ChainsOf(readers) /\ IsChainOf(t.reader, b, c, good)
    /\ t.reader.offset = s.offset + (n - t.left)
    /\ t.got = Bytes(b, s.offset, n - t.left)
    /\ t.reader.current > Len(c) \/ t.left + k <= n \/ t.left = 0

LEMMA ChainTurnKept ==
  ASSUME NEW good, NEW readers, GoodParts(good, readers), NEW read, ReadsWell(good, read),
         NEW s, s.offset \in Nat, NEW b, NEW c, NEW n \in Nat, NEW k \in Nat,
         NEW t, ChainTurn(t, s, b, c, good, readers, n, k)
  PROVE  ChainTurn(ReadFromPart(read, t), s, b, c, good, readers, n, k + 1)
<1> DEFINE r == t.reader
           j == r.current
           w == r.within
           left == t.left
<1>1. /\ DOMAIN t = {"reader", "got", "left", "outcome"}
      /\ t.outcome = "ok" /\ left \in Nat /\ left <= n
      /\ r \in ChainsOf(readers) /\ IsChainOf(r, b, c, good)
      /\ r.offset = s.offset + (n - left)
      /\ t.got = Bytes(b, s.offset, n - left)
      /\ j > Len(c) \/ left + k <= n \/ left = 0
  BY DEF ChainTurn
<1>2. /\ b \in Seq(Nat) /\ Len(b) \in Nat /\ r.offset \in Nat /\ r.offset <= Len(b)
      /\ j \in Nat /\ j > 0 /\ w \in Nat /\ Len(r.readers) = Len(c) /\ Len(c) \in Nat
      /\ j <= Len(c) =>
            /\ c[j] \in Seq(Nat) /\ Len(c[j]) \in Nat
            /\ w < Len(c[j])
            /\ <<r.readers[j], c[j]>> \in good
            /\ r.readers[j].offset = w
            /\ \A m \in Nat : w + m <= Len(c[j]) =>
                  /\ r.offset + m <= Len(b)
                  /\ Bytes(b, r.offset, m) = Bytes(c[j], w, m)
  <2>1. r \in ChainsOf(readers) /\ IsChainOf(r, b, c, good) BY <1>1
  <2> HIDE DEF r, j, w, left
  <2>2. IsWithin(r, b, c, good) BY <2>1, ChainIsWithin
  <2> QED BY <2>2 DEF IsWithin, j, w
<1>3. CASE left = 0 \/ j > Len(c)
  <2>1. ReadFromPart(read, t) = t BY <1>2, <1>3 DEF ReadFromPart
  <2> HIDE DEF r, left
  <2> QED BY <1>1, <1>3, <2>1 DEF ChainTurn, r, left
<1>4. CASE ~(left = 0 \/ j > Len(c))
  <2> DEFINE part == read[<<r.readers[j], left>>]
             p == part.reader
             e == c[j]
             next == Advanced(r, p, Len(part.got))
  <2>1. /\ left \in Nat \ {0} /\ j <= Len(c)
        /\ e \in Seq(Nat) /\ Len(e) \in Nat /\ w < Len(e) /\ w \in Nat
        /\ <<r.readers[j], e>> \in good /\ r.readers[j].offset = w
    BY <1>1, <1>2, <1>4
  <2>2. /\ <<p, e>> \in good /\ part.outcome = "ok"
        /\ part.got = Bytes(e, w, left) /\ p.offset = w + Len(part.got)
    <3> DEFINE x == r.readers[j]
    <3>1. <<x, e>> \in good /\ x.offset < Len(e) /\ x.offset = w BY <2>1
    <3> HIDE DEF x, e, left
    <3>2. /\ <<read[<<x, left>>].reader, e>> \in good
          /\ read[<<x, left>>].outcome = "ok" =>
                /\ read[<<x, left>>].got = Bytes(e, x.offset, left)
                /\ read[<<x, left>>].reader.offset = x.offset + Len(read[<<x, left>>].got)
          /\ x.offset < Len(e) => read[<<x, left>>].outcome = "ok"
      BY <2>1, <3>1 DEF ReadsWell
    <3> QED BY <3>1, <3>2 DEF x
  <2> HIDE DEF part, e
  <2>3. PICK q \in Nat : /\ q <= left /\ w + q <= Len(e) /\ (q = left \/ w + q = Len(e))
                         /\ Bytes(e, w, left) = Bytes(e, w, q) /\ Len(Bytes(e, w, left)) = q
    <3>0. e \in Seq(Nat) /\ w \in Nat /\ left \in Nat /\ w <= Len(e) BY <2>1
    <3> HIDE DEF w, left, r, p, next
    <3>1. \E q \in Nat : /\ q <= left /\ w + q <= Len(e) /\ (q = left \/ w + q = Len(e))
                         /\ Bytes(e, w, left) = Bytes(e, w, q) /\ Len(Bytes(e, w, left)) = q
      BY <3>0, BytesGot, ZenonT(30)
    <3> QED BY <3>1
  <2>4. q # 0 /\ Len(part.got) = q /\ p.offset = w + q BY <2>1, <2>2, <2>3
  <2>5. part.got # <<>> BY <2>4
  <2>6. SizeOf(p) = Len(e) BY <2>2 DEF GoodParts
  <2>7. ReadFromPart(read, t) =
          [t EXCEPT !.reader = IF p.offset = Len(e) THEN Moved(next) ELSE next,
                    !.got = @ \o part.got, !.left = @ - Len(part.got)]
    <3>1. ~(t.left = 0 \/ r.current > Len(r.readers) \/ t.outcome # "ok")
      BY <1>1, <1>2, <1>4
    <3>2. ~(part.outcome # "ok" \/ part.got = <<>> \/ Tellg(p) > SizeOf(p))
      BY <2>1, <2>2, <2>3, <2>4, <2>5, <2>6 DEF Tellg
    <3>3. Tellg(p) = p.offset BY DEF Tellg
    <3> QED BY <2>6, <3>1, <3>2, <3>3 DEF ReadFromPart, part
  <2> DEFINE new == IF p.offset = Len(e) THEN Moved(next) ELSE next
  <2>8. /\ new \in ChainsOf(readers) /\ IsChainOf(new, b, c, good)
        /\ new.offset = r.offset + q
    <3>1. p \in readers BY <2>2 DEF GoodParts
    <3>2. CASE p.offset = Len(e)
      <4>1. w + q = Len(c[j]) BY <2>4, <3>2 DEF e
      <4>2. LET u == Moved(Advanced(r, p, q)) IN
            /\ u \in ChainsOf(readers) /\ IsChainOf(u, b, c, good) /\ u.offset = r.offset + q
        <5> HIDE DEF p, r
        <5> QED BY <1>1, <2>1, <3>1, <4>1, ChainMoves, SMTT(30) DEF j, w
      <4>3. new = Moved(Advanced(r, p, q)) BY <2>4, <3>2
      <4> QED BY <4>2, <4>3
    <3>3. CASE p.offset # Len(e)
      <4>5. w + q # Len(e) /\ w + q <= Len(e) BY <2>3, <2>4, <3>3
      <4>6. w + q < Len(e)
        <5> DEFINE x == w
                   l == Len(e)
        <5>1. x \in Nat /\ l \in Nat /\ x + q # l /\ x + q <= l BY <2>1, <4>5
        <5> HIDE DEF x, l
        <5>2. x + q < l BY <5>1
        <5> QED BY <5>2 DEF x, l
      <4>1. w + q < Len(c[j]) /\ <<p, c[j]>> \in good BY <2>2, <4>6 DEF e
      <4>2. LET u == Advanced(r, p, q) IN
            /\ u \in ChainsOf(readers) /\ IsChainOf(u, b, c, good) /\ u.offset = r.offset + q
        <5> HIDE DEF p, r
        <5> QED BY <1>1, <2>1, <2>4, <4>1, ChainAdvances, SMTT(30) DEF j, w
      <4>3. new = Advanced(r, p, q) BY <2>4, <3>3
      <4> QED BY <4>2, <4>3
    <3> QED BY <3>2, <3>3
  <2> HIDE DEF new, p
  <2> DEFINE u == ReadFromPart(read, t)
  <2>9. /\ DOMAIN u = {"reader", "got", "left", "outcome"} /\ u.outcome = "ok"
        /\ u.reader = new /\ u.got = t.got \o part.got /\ u.left = left - q
    BY <1>1, <2>4, <2>7 DEF new, p
  <2> HIDE DEF u
  <2>10. part.got = Bytes(b, r.offset, q) /\ r.offset + q <= Len(b)
    BY <1>2, <2>1, <2>2, <2>3 DEF e
  <2>11. t.got \o part.got = Bytes(b, s.offset, (n - left) + q)
    <3> DEFINE o == s.offset
               m == n - left
    <3>1. o \in Nat /\ m \in Nat /\ r.offset = o + m /\ o + m + q <= Len(b)
      BY <1>1, <1>2, <2>10
    <3>3. b \in Seq(Nat) BY <1>2
    <3> HIDE DEF o, m, r, left
    <3>2. Bytes(b, o, m) \o Bytes(b, o + m, q) = Bytes(b, o, m + q)
      BY <3>1, <3>3, BytesJoin
    <3> QED BY <1>1, <2>10, <3>1, <3>2 DEF o, m
  <2>12. /\ (n - left) + q = n - (left - q) /\ left - q \in Nat /\ left - q <= n
         /\ new.offset = s.offset + (n - (left - q))
    <3> DEFINE o == s.offset
    <3>1. new.offset = (o + (n - left)) + q BY <1>1, <2>8
    <3> HIDE DEF o, left
    <3>2. q <= left /\ q \in Nat /\ left \in Nat /\ left <= n /\ n \in Nat /\ o \in Nat
      BY <1>1, <2>3 DEF o
    <3>3. (o + (n - left)) + q = o + (n - (left - q)) BY <3>2
    <3>4. (n - left) + q = n - (left - q) /\ left - q \in Nat /\ left - q <= n BY <3>2
    <3> QED BY <3>1, <3>3, <3>4 DEF o
  <2>13. (left - q) + (k + 1) <= n \/ left - q = 0
    <3>1. left + k <= n BY <1>1, <1>2, <1>4
    <3> QED BY <1>1, <2>3, <2>4, <3>1
  <2> HIDE DEF left
  <2>14. /\ u.left = left - q /\ u.reader = new
         /\ u.got = Bytes(b, s.offset, n - u.left)
         /\ new.offset = s.offset + (n - u.left)
    BY <2>9, <2>11, <2>12
  <2>15. ChainTurn(u, s, b, c, good, readers, n, k + 1)
    BY <2>8, <2>9, <2>12, <2>13, <2>14 DEF ChainTurn
  <2> QED BY <2>15 DEF u
<1> QED BY <1>3, <1>4

LEMMA ReadChainReads ==
  ASSUME NEW good, NEW readers, GoodParts(good, readers), NEW read, ReadsWell(good, read),
         NEW s, NEW b, GoodChain(s, b, good, readers), NEW n \in Nat
  PROVE  LET x == ReadChain(read, s, n) IN
         /\ GoodChain(x.reader, b, good, readers) /\ x.outcome = "ok"
         /\ x.got = Bytes(b, s.offset, n) /\ x.reader.offset = s.offset + Len(x.got)
<1>1. PICK c : s \in ChainsOf(readers) /\ IsChainOf(s, b, c, good) BY DEF GoodChain
<1>2. /\ b \in Seq(Nat) /\ Len(b) \in Nat /\ s.offset \in Nat /\ s.offset <= Len(b)
      /\ Len(c) \in Nat /\ s.current \in Nat /\ s.current > 0
  <2>1. IsWithin(s, b, c, good) BY <1>1, ChainIsWithin
  <2> QED BY <2>1 DEF IsWithin
<1>3. PICK f : /\ IsReading(f, read, s, n, n)
               /\ ReadChain(read, s, n) =
                    [reader |-> f[n].reader, got |-> f[n].got, outcome |-> f[n].outcome]
  BY ReadChainIs
<1>4. /\ f[0] = [reader |-> s, got |-> <<>>, left |-> n, outcome |-> "ok"]
      /\ \A k \in 1 .. n : f[k] = ReadFromPart(read, f[k - 1])
  BY <1>3 DEF IsReading
<1> DEFINE T == {k \in Nat : ChainTurn(f[k], s, b, c, good, readers, n, k)}
<1>5. 0 \in T
  <2>1. n - n = 0 /\ n <= n /\ n + 0 <= n /\ s.offset = s.offset + 0 BY <1>2
  <2>2. Bytes(b, s.offset, 0) = <<>> BY <1>2, NoBytes
  <2>3. ChainTurn(f[0], s, b, c, good, readers, n, 0)
    BY <1>1, <1>4, <2>1, <2>2 DEF ChainTurn
  <2> QED BY <2>3
<1>6. ASSUME NEW k \in 1 .. n, k - 1 \in T PROVE k \in T
  <2>1. k - 1 \in Nat /\ (k - 1) + 1 = k /\ k \in Nat OBVIOUS
  <2>2. ChainTurn(f[k - 1], s, b, c, good, readers, n, k - 1) BY <1>6
  <2>3. ChainTurn(ReadFromPart(read, f[k - 1]), s, b, c, good, readers, n, (k - 1) + 1)
    BY <1>2, <2>1, <2>2, ChainTurnKept
  <2>4. f[k] = ReadFromPart(read, f[k - 1]) BY <1>4
  <2> QED BY <2>1, <2>3, <2>4
<1> HIDE DEF T
<1>7. n \in 0 .. n OBVIOUS
<1>8. 0 .. n \subseteq T BY <1>5, <1>6, EveryNumberTo
<1> DEFINE t == f[n]
<1>9. ChainTurn(t, s, b, c, good, readers, n, n) BY <1>7, <1>8 DEF T
<1>10. ReadChain(read, s, n) = [reader |-> t.reader, got |-> t.got, outcome |-> t.outcome]
  BY <1>3
<1> HIDE DEF t
<1>11. /\ t.outcome = "ok" /\ t.left \in Nat /\ t.left <= n
       /\ t.reader \in ChainsOf(readers) /\ IsChainOf(t.reader, b, c, good)
       /\ t.reader.offset = s.offset + (n - t.left)
       /\ t.got = Bytes(b, s.offset, n - t.left)
       /\ t.reader.current > Len(c) \/ t.left + n <= n \/ t.left = 0
  BY <1>9 DEF ChainTurn
<1>12. /\ t.reader.offset \in Nat /\ t.reader.offset <= Len(b)
       /\ t.reader.current > Len(c) => t.reader.offset = Len(b)
  <2>1. IsWithin(t.reader, b, c, good) BY <1>11, ChainIsWithin
  <2> QED BY <2>1 DEF IsWithin
<1> DEFINE m == n - t.left
           o == s.offset
<1>13. m \in Nat /\ m <= n /\ o \in Nat /\ o + m <= Len(b) /\ (m = n \/ o + m = Len(b))
  BY <1>2, <1>11, <1>12
<1>14. t.got = Bytes(b, o, m) /\ t.reader.offset = o + m BY <1>11
<1> HIDE DEF m, o
<1>15. m = n \/ (o + m >= Len(b) /\ o + n >= Len(b)) BY <1>2, <1>13
<1>16. Bytes(b, o, m) = Bytes(b, o, n) BY <1>2, <1>13, <1>15, BytesToTheEnd
<1>17. Len(Bytes(b, o, m)) = m BY <1>2, <1>13, BytesWithin
<1>18. GoodChain(t.reader, b, good, readers) BY <1>11 DEF GoodChain
<1> QED BY <1>10, <1>11, <1>14, <1>16, <1>17, <1>18 DEF o

\* What the loop of skip() has done after k turns: each but the last leaves a
\* part.
PartsTurn(t, s, b, c, good, readers, n, k) ==
    /\ DOMAIN t = {"reader", "left", "outcome"} /\ t.left \in Nat
    /\ t.reader \in ChainsOf(readers) /\ IsChainOf(t.reader, b, c, good)
    /\ t.outcome = "ok" => /\ t.reader.offset + t.left = s.offset + n
                           /\ t.left = 0 \/ t.reader.current > k
    /\ s.offset + n <= Len(b) => t.outcome = "ok"

LEMMA PartsTurnKept ==
  ASSUME NEW good, NEW readers, GoodParts(good, readers), NEW skip, SkipsWell(good, skip),
         NEW s, s.offset \in Nat, NEW b, NEW c, NEW n \in Nat, NEW k \in Nat,
         NEW t, PartsTurn(t, s, b, c, good, readers, n, k)
  PROVE  PartsTurn(SkipPart(skip, t), s, b, c, good, readers, n, k + 1)
<1> DEFINE r == t.reader
           j == r.current
           w == r.within
           left == t.left
<1>1. /\ DOMAIN t = {"reader", "left", "outcome"} /\ left \in Nat
      /\ r \in ChainsOf(readers) /\ IsChainOf(r, b, c, good)
      /\ t.outcome = "ok" => /\ r.offset + left = s.offset + n
                             /\ left = 0 \/ j > k
      /\ s.offset + n <= Len(b) => t.outcome = "ok"
  BY DEF PartsTurn
<1>2. /\ b \in Seq(Nat) /\ Len(b) \in Nat /\ r.offset \in Nat /\ r.offset <= Len(b)
      /\ j \in Nat /\ j > 0 /\ w \in Nat /\ Len(r.readers) = Len(c) /\ Len(c) \in Nat
      /\ j > Len(c) => r.offset = Len(b)
      /\ j <= Len(c) =>
            /\ c[j] \in Seq(Nat) /\ Len(c[j]) \in Nat
            /\ w < Len(c[j])
            /\ <<r.readers[j], c[j]>> \in good
            /\ r.readers[j].offset = w
            /\ \A m \in Nat : w + m <= Len(c[j]) => r.offset + m <= Len(b)
  <2>1. r \in ChainsOf(readers) /\ IsChainOf(r, b, c, good) BY <1>1
  <2> HIDE DEF r, j, w, left
  <2>2. IsWithin(r, b, c, good) BY <2>1, ChainIsWithin
  <2> QED BY <2>2 DEF IsWithin, j, w
<1>3. CASE left = 0 \/ t.outcome # "ok"
  <2>1. SkipPart(skip, t) = t BY <1>3 DEF SkipPart
  <2>2. t.outcome = "ok" => left = 0 BY <1>3
  <2> HIDE DEF r, left, j
  <2> QED BY <1>1, <2>1, <2>2 DEF PartsTurn, r, left, j
<1>4. CASE left # 0 /\ t.outcome = "ok" /\ j > Len(c)
  <2> DEFINE u == [t EXCEPT !.outcome = "thrown"]
  <2>1. SkipPart(skip, t) = u BY <1>2, <1>4 DEF SkipPart
  <2>2. DOMAIN u = DOMAIN t /\ u.reader = r /\ u.left = left /\ u.outcome = "thrown"
    BY <1>1
  <2>3. ~(s.offset + n <= Len(b)) BY <1>1, <1>2, <1>4
  <2> HIDE DEF u, r, left
  <2> QED BY <1>1, <2>1, <2>2, <2>3 DEF PartsTurn
<1>5. CASE left # 0 /\ t.outcome = "ok" /\ j <= Len(c)
  <2> DEFINE p == r.readers[j]
             e == c[j]
             rest == SizeOf(p) - w
             l == Len(e)
  <2>1. /\ e \in Seq(Nat) /\ l \in Nat /\ w < l /\ w \in Nat
        /\ <<p, e>> \in good /\ p.offset = w
        /\ left \in Nat /\ left # 0
        /\ r.offset + left = s.offset + n /\ j > k
        /\ ~(j > Len(r.readers))
    BY <1>1, <1>2, <1>5
  <2>2. p \in readers /\ SizeOf(p) = l BY <2>1 DEF GoodParts
  <2>3. rest = l - w /\ rest \in Nat /\ w + rest = l
    <3>1. rest = l - w BY <2>2
    <3> HIDE DEF l, w, rest
    <3> QED BY <2>1, <3>1
  <2> DEFINE last == skip[<<p, left>>]
             next == Advanced(r, last.reader, left)
  <2>4. SkipPart(skip, t) =
          IF rest <= left
          THEN [t EXCEPT !.reader = Moved(Advanced(r, p, rest)), !.left = @ - rest]
          ELSE [reader  |-> next,
                left    |-> 0,
                outcome |-> IF last.outcome = "ok" /\ next.within # Tellg(last.reader)
                            THEN "thrown" ELSE last.outcome]
    <3>1. ~(t.left = 0 \/ t.outcome # "ok") /\ ~(r.current > Len(r.readers)) BY <1>5, <2>1
    <3> QED BY <3>1 DEF SkipPart
  <2>5. CASE rest <= left
    <3> DEFINE v == Moved(Advanced(r, p, rest))
               u == [t EXCEPT !.reader = v, !.left = @ - rest]
    <3>1. r.within + rest = Len(c[r.current]) BY <2>3
    <3>2. /\ v \in ChainsOf(readers) /\ IsChainOf(v, b, c, good)
          /\ v.offset = r.offset + rest /\ v.current = r.current + 1
      <4> HIDE DEF r, p, rest
      <4> QED BY <1>1, <1>5, <2>2, <2>3, <3>1, ChainMoves DEF j
    <3>3. SkipPart(skip, t) = u BY <2>4, <2>5
    <3> HIDE DEF v, rest
    <3>4. DOMAIN u = DOMAIN t /\ u.reader = v /\ u.left = left - rest /\ u.outcome = "ok"
      BY <1>1, <1>5
    <3>5. left - rest \in Nat /\ v.offset + (left - rest) = s.offset + n
      <4> DEFINE o == r.offset
                 a == left
                 z == s.offset + n
      <4>1. o \in Nat /\ a \in Nat /\ rest <= a /\ o + a = z /\ v.offset = o + rest
        BY <1>2, <2>1, <2>5, <3>2
      <4> HIDE DEF o, a, z
      <4>2. a - rest \in Nat /\ (o + rest) + (a - rest) = z BY <2>3, <4>1
      <4> QED BY <4>1, <4>2 DEF a, z
    <3>6. v.current > k + 1 BY <1>2, <2>1, <3>2
    <3> HIDE DEF u
    <3>7. u.left \in Nat /\ u.reader.offset + u.left = s.offset + n /\ u.reader.current > k + 1
      BY <3>4, <3>5, <3>6
    <3> QED BY <1>1, <3>2, <3>3, <3>4, <3>7 DEF PartsTurn
  <2>6. CASE ~(rest <= left)
    <3>1. w + left < l
      <4> DEFINE a == left
      <4>1. a \in Nat /\ ~(rest <= a) BY <2>1, <2>6
      <4> HIDE DEF a, w, l, rest
      <4>2. w + a < l BY <2>1, <2>3, <4>1
      <4> QED BY <4>2 DEF a
    <3>2. /\ <<last.reader, e>> \in good /\ last.outcome = "ok"
          /\ last.reader.offset = w + left
      <4>1. <<p, e>> \in good /\ p.offset = w /\ left \in Nat /\ w + left <= Len(e)
        <5> DEFINE a == w + left
        <5>1. a \in Nat /\ l \in Nat /\ a < l BY <2>1, <3>1
        <5> HIDE DEF a, l
        <5>2. a <= l BY <5>1
        <5> QED BY <2>1, <5>2 DEF a, l
      <4> HIDE DEF p, e, left
      <4>2. /\ <<skip[<<p, left>>].reader, e>> \in good
            /\ skip[<<p, left>>].outcome = "ok" => skip[<<p, left>>].reader.offset = p.offset + left
            /\ p.offset + left <= Len(e) => skip[<<p, left>>].outcome = "ok"
        BY <4>1 DEF SkipsWell
      <4> QED BY <4>1, <4>2
    <3> DEFINE x == last.reader
    <3>3. <<x, c[r.current]>> \in good /\ x.offset = r.within + left
          /\ r.within + left < Len(c[r.current]) /\ r.current <= Len(c)
      BY <1>5, <3>1, <3>2
    <3> HIDE DEF x
    <3>4. LET u == Advanced(r, x, left) IN
          /\ u \in ChainsOf(readers) /\ IsChainOf(u, b, c, good)
          /\ u.offset = r.offset + left /\ u.current = r.current
      <4>1. r \in ChainsOf(readers) /\ IsChainOf(r, b, c, good) /\ left \in Nat BY <1>1
      <4> HIDE DEF r, left
      <4> QED BY <3>3, <4>1, ChainAdvances
    <3>5. Advanced(r, x, left).within = r.within + left
      <4>1. r \in ChainsOf(readers) /\ left \in Nat /\ x \in readers
            /\ r.current \in 1 .. Len(r.readers)
        BY <1>1, <1>2, <1>5, <3>3 DEF GoodParts
      <4> HIDE DEF r, left
      <4> QED BY <4>1, AdvancedIs
    <3>6. SkipPart(skip, t) = [reader |-> Advanced(r, x, left), left |-> 0, outcome |-> "ok"]
      <4>1. next = Advanced(r, x, left) BY DEF x
      <4>2. ~(next.within # Tellg(last.reader)) BY <3>3, <3>5, <4>1 DEF Tellg, x
      <4> HIDE DEF next, last, rest
      <4> QED BY <2>4, <2>6, <3>2, <4>1, <4>2
    <3> DEFINE v == Advanced(r, x, left)
               u == [reader |-> v, left |-> 0, outcome |-> "ok"]
    <3>7. v \in ChainsOf(readers) /\ IsChainOf(v, b, c, good) /\ v.offset = s.offset + n
      BY <2>1, <3>4
    <3>8. v.offset \in Nat BY <3>7
    <3> HIDE DEF v
    <3>9. /\ DOMAIN u = {"reader", "left", "outcome"} /\ u.reader = v /\ u.left = 0
          /\ u.outcome = "ok"
      OBVIOUS
    <3>10. v.offset + 0 = s.offset + n BY <3>7, <3>8
    <3> HIDE DEF u
    <3>11. PartsTurn(u, s, b, c, good, readers, n, k + 1) BY <3>7, <3>9, <3>10 DEF PartsTurn
    <3> QED BY <3>6, <3>11 DEF u, v
  <2> QED BY <2>5, <2>6
<1> QED BY <1>2, <1>3, <1>4, <1>5

LEMMA SkipChainSkips ==
  ASSUME NEW good, NEW readers, GoodParts(good, readers), NEW skip, SkipsWell(good, skip),
         NEW s, NEW b, GoodChain(s, b, good, readers), NEW n \in Nat
  PROVE  LET x == SkipChain(skip, s, n) IN
         /\ GoodChain(x.reader, b, good, readers)
         /\ x.outcome = "ok" => x.reader.offset = s.offset + n
         /\ s.offset + n <= Len(b) => x.outcome = "ok"
<1>1. PICK c : s \in ChainsOf(readers) /\ IsChainOf(s, b, c, good) BY DEF GoodChain
<1>2. /\ s.offset \in Nat /\ Len(s.readers) = Len(c) /\ Len(c) \in Nat
      /\ s.current \in Nat /\ s.current > 0
  <2>1. IsWithin(s, b, c, good) BY <1>1, ChainIsWithin
  <2> QED BY <2>1 DEF IsWithin
<1> DEFINE l == Len(s.readers)
<1>3. PICK f : /\ IsSkippingParts(f, skip, s, n, l + 1)
               /\ SkipChain(skip, s, n) = [reader |-> f[l + 1].reader, outcome |-> f[l + 1].outcome]
  BY <1>2, SkipChainIs
<1>4. l \in Nat /\ l = Len(c) BY <1>2
<1> HIDE DEF l
<1>5. /\ f[0] = [reader |-> s, left |-> n, outcome |-> "ok"]
      /\ \A k \in 1 .. l + 1 : f[k] = SkipPart(skip, f[k - 1])
  <2> DEFINE z == l + 1
  <2>1. z \in Nat BY <1>4
  <2>2. IsSkippingParts(f, skip, s, n, z) BY <1>3
  <2> HIDE DEF z
  <2>3. /\ f[0] = [reader |-> s, left |-> n, outcome |-> "ok"]
        /\ \A k \in 1 .. z : f[k] = SkipPart(skip, f[k - 1])
    BY <2>1, <2>2 DEF IsSkippingParts
  <2> QED BY <2>3 DEF z
<1> DEFINE T == {k \in Nat : PartsTurn(f[k], s, b, c, good, readers, n, k)}
<1>6. 0 \in T
  <2>1. PartsTurn(f[0], s, b, c, good, readers, n, 0) BY <1>1, <1>2, <1>5 DEF PartsTurn
  <2> QED BY <2>1
<1>7. ASSUME NEW k \in 1 .. l + 1, k - 1 \in T PROVE k \in T
  <2>1. k - 1 \in Nat /\ (k - 1) + 1 = k /\ k \in Nat BY <1>4
  <2>2. PartsTurn(f[k - 1], s, b, c, good, readers, n, k - 1) BY <1>7
  <2>3. PartsTurn(SkipPart(skip, f[k - 1]), s, b, c, good, readers, n, (k - 1) + 1)
    BY <1>2, <2>1, <2>2, PartsTurnKept
  <2>4. f[k] = SkipPart(skip, f[k - 1]) BY <1>5
  <2> QED BY <2>1, <2>3, <2>4
<1> HIDE DEF T
<1>8. l + 1 \in Nat /\ l + 1 \in 0 .. l + 1 BY <1>4
<1>9. 0 .. l + 1 \subseteq T BY <1>6, <1>7, <1>8, EveryNumberTo
<1> DEFINE t == f[l + 1]
<1>10. PartsTurn(t, s, b, c, good, readers, n, l + 1) BY <1>8, <1>9 DEF T
<1>11. SkipChain(skip, s, n) = [reader |-> t.reader, outcome |-> t.outcome] BY <1>3
<1> HIDE DEF t
<1>12. /\ t.left \in Nat /\ t.reader \in ChainsOf(readers) /\ IsChainOf(t.reader, b, c, good)
       /\ t.outcome = "ok" => /\ t.reader.offset + t.left = s.offset + n
                              /\ t.left = 0 \/ t.reader.current > l + 1
       /\ s.offset + n <= Len(b) => t.outcome = "ok"
  BY <1>10 DEF PartsTurn
<1>13. t.reader.current \in 1 .. l + 1 /\ t.reader.offset \in Nat
  BY <1>4, <1>12, ChainFields DEF IsChainOf
<1>14. t.outcome = "ok" => t.reader.offset = s.offset + n
  <2>1. ~(t.reader.current > l + 1) BY <1>4, <1>13
  <2> QED BY <1>12, <1>13, <2>1
<1>15. GoodChain(t.reader, b, good, readers) BY <1>12 DEF GoodChain
<1> QED BY <1>11, <1>12, <1>14, <1>15

-----------------------------------------------------------------------------
(* Sequential readers of any depth.                                        *)

LEMMA GoodMember ==
  ASSUME NEW good, NEW readers, NEW s, NEW b \in Seq(Nat),
         GoodWrapper(s, b) \/ GoodDecoder(s, b) \/ GoodChain(s, b, good, readers)
  PROVE  <<s, b>> \in GoodWith(good, readers)
<1>1. s \in Wrappers \union Decoders \union ChainsOf(readers)
  BY DEF GoodWrapper, GoodDecoder, GoodChain
<1> QED BY <1>1 DEF GoodWith

LEMMA GoodKinds ==
  ASSUME NEW d \in 0 .. Depth, NEW s, NEW b, <<s, b>> \in GoodTo[d]
  PROVE  /\ d # 0 /\ d - 1 \in 0 .. Depth
         /\ GoodTo[d] = GoodWith(GoodTo[d - 1], SequentialReaders[d - 1])
         /\ s \in SequentialReaders[d] /\ b \in Seq(Nat)
         /\ \/ s.kind = "wrapper" /\ GoodWrapper(s, b)
            \/ s.kind = "decoder" /\ GoodDecoder(s, b)
            \/ s.kind = "chain" /\ GoodChain(s, b, GoodTo[d - 1], SequentialReaders[d - 1])
<1>1. Depth \in Nat BY ReadersAssumption
<1>2. d # 0 /\ GoodTo[d] = GoodWith(GoodTo[d - 1], SequentialReaders[d - 1])
  BY GoodToIs
<1>3. d - 1 \in 0 .. Depth BY <1>1, <1>2
<1>4. s \in SequentialReaders[d] /\ b \in Seq(Nat) BY GoodPartsTo DEF GoodParts
<1>5. \/ GoodWrapper(s, b) \/ GoodDecoder(s, b)
      \/ GoodChain(s, b, GoodTo[d - 1], SequentialReaders[d - 1])
  BY <1>2 DEF GoodWith
<1>6. GoodWrapper(s, b) => s.kind = "wrapper" BY DEF GoodWrapper, Wrappers
<1>7. GoodDecoder(s, b) => s.kind = "decoder" BY DEF GoodDecoder, Decoders
<1>8. GoodChain(s, b, GoodTo[d - 1], SequentialReaders[d - 1]) => s.kind = "chain"
  BY DEF GoodChain, ChainsOf
<1> QED BY <1>2, <1>3, <1>4, <1>5, <1>6, <1>7, <1>8

LEMMA ReadsWellTo ==
  \A d \in 0 .. Depth : ReadsWell(GoodTo[d], ReadTo[d])
<1>1. Depth \in Nat BY ReadersAssumption
<1> DEFINE T == {d \in 0 .. Depth : ReadsWell(GoodTo[d], ReadTo[d])}
<1>2. 0 \in T
  <2>1. 0 \in 0 .. Depth BY <1>1
  <2>2. GoodTo[0] = {} BY <2>1, GoodToIs
  <2> QED BY <2>1, <2>2 DEF ReadsWell
<1>3. ASSUME NEW d \in 1 .. Depth, d - 1 \in T PROVE d \in T
  <2>1. d \in 0 .. Depth /\ d - 1 \in 0 .. Depth BY <1>1
  <2> DEFINE good == GoodTo[d - 1]
             readers == SequentialReaders[d - 1]
             read == ReadTo[d - 1]
  <2>2. ReadsWell(good, read) /\ GoodParts(good, readers) BY <1>3, <2>1, GoodPartsTo
  <2>3. ASSUME NEW s, NEW b, NEW n \in Nat \ {0}, <<s, b>> \in GoodTo[d]
        PROVE  LET x == ReadTo[d][<<s, n>>] IN
               /\ <<x.reader, b>> \in GoodTo[d]
               /\ x.outcome = "ok" => /\ x.got = Bytes(b, s.offset, n)
                                      /\ x.reader.offset = s.offset + Len(x.got)
               /\ s.offset < Len(b) => x.outcome = "ok"
    <3>1. /\ GoodTo[d] = GoodWith(good, readers)
          /\ s \in SequentialReaders[d] /\ b \in Seq(Nat)
          /\ \/ s.kind = "wrapper" /\ GoodWrapper(s, b)
             \/ s.kind = "decoder" /\ GoodDecoder(s, b)
             \/ s.kind = "chain" /\ GoodChain(s, b, good, readers)
      BY <2>1, <2>3, GoodKinds
    <3>2. ReadTo[d][<<s, n>>] = ReadWith(read, s, n)
      <4>1. ReadTo[d] = [x \in SequentialReaders[d] \X Nat |-> ReadWith(ReadTo[d - 1], x[1], x[2])]
        BY <2>1, ReadToIs
      <4>2. <<s, n>> \in SequentialReaders[d] \X Nat BY <3>1
      <4> QED BY <4>1, <4>2
    <3> HIDE DEF good, readers, read
    <3> DEFINE x == ReadWith(read, s, n)
    <3>3. CASE s.kind = "wrapper" /\ GoodWrapper(s, b)
      <4>1. ReadWith(read, s, n) = ReadWrapper(s, n) BY <3>3 DEF ReadWith
      <4>2. /\ GoodWrapper(x.reader, b) /\ x.outcome = "ok"
            /\ x.got = Bytes(b, s.offset, n) /\ x.reader.offset = s.offset + Len(x.got)
        BY <3>3, <4>1, ReadWrapperIs
      <4> HIDE DEF x
      <4>3. <<x.reader, b>> \in GoodTo[d] BY <3>1, <4>2, GoodMember
      <4> QED BY <3>2, <4>2, <4>3 DEF x
    <3>4. CASE s.kind = "decoder" /\ GoodDecoder(s, b)
      <4>1. ReadWith(read, s, n) = ReadDecoder(s, n) BY <3>4 DEF ReadWith
      <4>2. /\ GoodDecoder(x.reader, b)
            /\ x.outcome = "ok" => /\ x.got = Bytes(b, s.offset, n)
                                   /\ x.reader.offset = s.offset + Len(x.got)
            /\ s.offset < Len(b) => x.outcome = "ok"
        BY <3>1, <3>4, <4>1, ReadDecoderIs
      <4> HIDE DEF x
      <4>3. <<x.reader, b>> \in GoodTo[d] BY <3>1, <4>2, GoodMember
      <4> QED BY <3>2, <4>2, <4>3 DEF x
    <3>5. CASE s.kind = "chain" /\ GoodChain(s, b, good, readers)
      <4>1. ReadWith(read, s, n) = ReadChain(read, s, n) BY <3>5 DEF ReadWith
      <4>2. /\ GoodChain(x.reader, b, good, readers) /\ x.outcome = "ok"
            /\ x.got = Bytes(b, s.offset, n) /\ x.reader.offset = s.offset + Len(x.got)
        BY <2>2, <3>5, <4>1, ReadChainReads
      <4> HIDE DEF x
      <4>3. <<x.reader, b>> \in GoodTo[d] BY <3>1, <4>2, GoodMember
      <4> QED BY <3>2, <4>2, <4>3 DEF x
    <3> QED BY <3>1, <3>3, <3>4, <3>5
  <2>4. ReadsWell(GoodTo[d], ReadTo[d]) BY <2>3 DEF ReadsWell
  <2> QED BY <2>1, <2>4
<1> HIDE DEF T
<1>4. 0 .. Depth \subseteq T BY <1>1, <1>2, <1>3, EveryNumberTo
<1> QED BY <1>4 DEF T

LEMMA SkipsWellTo ==
  \A d \in 0 .. Depth : SkipsWell(GoodTo[d], SkipTo[d])
<1>1. Depth \in Nat BY ReadersAssumption
<1> DEFINE T == {d \in 0 .. Depth : SkipsWell(GoodTo[d], SkipTo[d])}
<1>2. 0 \in T
  <2>1. 0 \in 0 .. Depth BY <1>1
  <2>2. GoodTo[0] = {} BY <2>1, GoodToIs
  <2> QED BY <2>1, <2>2 DEF SkipsWell
<1>3. ASSUME NEW d \in 1 .. Depth, d - 1 \in T PROVE d \in T
  <2>1. d \in 0 .. Depth /\ d - 1 \in 0 .. Depth BY <1>1
  <2> DEFINE good == GoodTo[d - 1]
             readers == SequentialReaders[d - 1]
             skip == SkipTo[d - 1]
  <2>2. SkipsWell(good, skip) /\ GoodParts(good, readers) BY <1>3, <2>1, GoodPartsTo
  <2>3. ASSUME NEW s, NEW b, NEW n \in Nat, <<s, b>> \in GoodTo[d]
        PROVE  LET x == SkipTo[d][<<s, n>>] IN
               /\ <<x.reader, b>> \in GoodTo[d]
               /\ x.outcome = "ok" => x.reader.offset = s.offset + n
               /\ s.offset + n <= Len(b) => x.outcome = "ok"
    <3>1. /\ GoodTo[d] = GoodWith(good, readers)
          /\ s \in SequentialReaders[d] /\ b \in Seq(Nat)
          /\ \/ s.kind = "wrapper" /\ GoodWrapper(s, b)
             \/ s.kind = "decoder" /\ GoodDecoder(s, b)
             \/ s.kind = "chain" /\ GoodChain(s, b, good, readers)
      BY <2>1, <2>3, GoodKinds
    <3>2. SkipTo[d][<<s, n>>] = SkipWith(skip, s, n)
      <4>1. SkipTo[d] = [x \in SequentialReaders[d] \X Nat |-> SkipWith(SkipTo[d - 1], x[1], x[2])]
        BY <2>1, SkipToIs
      <4>2. <<s, n>> \in SequentialReaders[d] \X Nat BY <3>1
      <4> QED BY <4>1, <4>2
    <3> HIDE DEF good, readers, skip
    <3> DEFINE x == SkipWith(skip, s, n)
    <3>3. CASE s.kind = "wrapper" /\ GoodWrapper(s, b)
      <4>1. SkipWith(skip, s, n) = [reader |-> [s EXCEPT !.offset = @ + n], outcome |-> "ok"]
        BY <3>3 DEF SkipWith
      <4>2. GoodWrapper(x.reader, b) /\ x.reader.offset = s.offset + n /\ x.outcome = "ok"
        <5> DEFINE t == [s EXCEPT !.offset = @ + n]
        <5>1. GoodWrapper(t, b) /\ t.offset = s.offset + n BY <3>3, WrapperMoves
        <5> HIDE DEF t
        <5>2. x = [reader |-> t, outcome |-> "ok"] BY <4>1 DEF t
        <5> QED BY <5>1, <5>2
      <4> HIDE DEF x
      <4>3. <<x.reader, b>> \in GoodTo[d] BY <3>1, <4>2, GoodMember
      <4> QED BY <3>2, <4>2, <4>3 DEF x
    <3>4. CASE s.kind = "decoder" /\ GoodDecoder(s, b)
      <4>1. SkipWith(skip, s, n) = SkipByReading(s, n) BY <3>4 DEF SkipWith
      <4>2. /\ GoodDecoder(x.reader, b)
            /\ x.outcome = "ok" => x.reader.offset = s.offset + n
            /\ s.offset + n <= Len(b) => x.outcome = "ok"
        BY <3>1, <3>4, <4>1, SkipByReadingSkips
      <4> HIDE DEF x
      <4>3. <<x.reader, b>> \in GoodTo[d] BY <3>1, <4>2, GoodMember
      <4> QED BY <3>2, <4>2, <4>3 DEF x
    <3>5. CASE s.kind = "chain" /\ GoodChain(s, b, good, readers)
      <4>1. SkipWith(skip, s, n) = SkipChain(skip, s, n) BY <3>5 DEF SkipWith
      <4>2. /\ GoodChain(x.reader, b, good, readers)
            /\ x.outcome = "ok" => x.reader.offset = s.offset + n
            /\ s.offset + n <= Len(b) => x.outcome = "ok"
        BY <2>2, <3>5, <4>1, SkipChainSkips
      <4> HIDE DEF x
      <4>3. <<x.reader, b>> \in GoodTo[d] BY <3>1, <4>2, GoodMember
      <4> QED BY <3>2, <4>2, <4>3 DEF x
    <3> QED BY <3>1, <3>3, <3>4, <3>5
  <2>4. SkipsWell(GoodTo[d], SkipTo[d]) BY <2>3 DEF SkipsWell
  <2> QED BY <2>1, <2>4
<1> HIDE DEF T
<1>4. 0 .. Depth \subseteq T BY <1>1, <1>2, <1>3, EveryNumberTo
<1> QED BY <1>4 DEF T

\* What a copy has after k blocks.
CopyTurn(t, b, k) ==
    /\ DOMAIN t = {"reader", "got", "left", "outcome"} /\ t.outcome = "ok"
    /\ <<t.reader, b>> \in GoodTo[Depth]
    /\ t.left \in Nat /\ t.left <= Len(b)
    /\ t.reader.offset = Len(b) - t.left /\ t.got = Bytes(b, 0, Len(b) - t.left)
    /\ t.left + k <= Len(b) \/ t.left = 0

LEMMA CopyTurnKept ==
  ASSUME NEW b \in Seq(Nat), NEW k \in Nat, NEW t, CopyTurn(t, b, k)
  PROVE  CopyTurn(CopyBlock(t), b, k + 1)
<1>1. Depth \in Nat /\ Chunk \in Nat \ {0} /\ Depth \in 0 .. Depth BY ReadersAssumption
<1> DEFINE r == t.reader
           left == t.left
           n == Len(b)
           o == n - left
           m == LeastOf(left, Chunk)
           part == ReadSome(r, m)
<1>2. /\ DOMAIN t = {"reader", "got", "left", "outcome"} /\ t.outcome = "ok"
      /\ <<r, b>> \in GoodTo[Depth]
      /\ left \in Nat /\ left <= n /\ n \in Nat
      /\ r.offset = o /\ t.got = Bytes(b, 0, o)
      /\ left + k <= n \/ left = 0
  BY LenProperties DEF CopyTurn
<1>3. CASE left = 0
  <2>1. CopyBlock(t) = t BY <1>3 DEF CopyBlock
  <2> HIDE DEF r
  <2> QED BY <1>2, <1>3, <2>1 DEF CopyTurn, r
<1>4. CASE left # 0
  <2>1. m \in Nat /\ m # 0 /\ m <= left BY <1>1, <1>2, <1>4, LeastIs
  <2>2. o \in Nat /\ o + m <= n /\ o < n
    <3> HIDE DEF m, left, n
    <3> QED BY <1>2, <1>4, <2>1
  <2> HIDE DEF m, o
  <2>3. ReadsWell(GoodTo[Depth], ReadTo[Depth]) BY <1>1, ReadsWellTo
  <2>4. /\ <<part.reader, b>> \in GoodTo[Depth]
        /\ part.outcome = "ok" => /\ part.got = Bytes(b, r.offset, m)
                                  /\ part.reader.offset = r.offset + Len(part.got)
        /\ r.offset < Len(b) => part.outcome = "ok"
    <3>1. m \in Nat \ {0} BY <2>1
    <3>2. part = ReadTo[Depth][<<r, m>>] BY DEF ReadSome
    <3> HIDE DEF r, part
    <3> QED BY <1>2, <2>3, <3>1, <3>2 DEF ReadsWell
  <2>5. Len(Bytes(b, o, m)) = m BY <2>1, <2>2, BytesWithin
  <2> HIDE DEF part
  <2>6. /\ part.outcome = "ok" /\ part.got = Bytes(b, o, m) /\ Len(part.got) = m
        /\ part.reader.offset = o + m
    BY <1>2, <2>2, <2>4, <2>5
  <2> DEFINE u == [t EXCEPT !.reader = part.reader, !.got = @ \o part.got, !.left = @ - m]
  <2>7. CopyBlock(t) = u
    <3>1. ~(t.left = 0 \/ t.outcome # "ok") BY <1>2, <1>4
    <3> QED BY <2>6, <3>1 DEF CopyBlock, part, m
  <2>8. /\ DOMAIN u = {"reader", "got", "left", "outcome"} /\ u.outcome = "ok"
        /\ u.reader = part.reader /\ u.got = t.got \o part.got /\ u.left = left - m
    BY <1>2
  <2> HIDE DEF u
  <2>9. Bytes(b, 0, o) \o Bytes(b, o, m) = Bytes(b, 0, o + m)
    <3>1. 0 + o = o /\ 0 + o + m <= Len(b) /\ 0 \in Nat BY <2>1, <2>2
    <3>2. Bytes(b, 0, o) \o Bytes(b, 0 + o, m) = Bytes(b, 0, o + m)
      BY <2>1, <2>2, <3>1, BytesJoin
    <3> QED BY <3>1, <3>2
  <2>10. left - m \in Nat /\ left - m <= n /\ n - (left - m) = o + m
         /\ ((left - m) + (k + 1) <= n \/ left - m = 0)
    <3>1. o = n - left BY DEF o
    <3> HIDE DEF left, n
    <3> QED BY <1>2, <1>4, <2>1, <3>1
  <2>11. u.got = Bytes(b, 0, o + m) BY <1>2, <2>6, <2>8, <2>9
  <2> HIDE DEF left, r
  <2> QED BY <2>4, <2>6, <2>7, <2>8, <2>10, <2>11 DEF CopyTurn, n
<1> QED BY <1>3, <1>4

LEMMA CopyIsWhole ==
  ASSUME NEW s, NEW b, <<s, b>> \in GoodTo[Depth], s.offset = 0
  PROVE  CopyOf(s) = [got |-> b, outcome |-> "ok"] /\ SizeOf(s) = Len(b)
<1>1. Depth \in Nat /\ Depth \in 0 .. Depth BY ReadersAssumption
<1>2. b \in Seq(Nat) /\ Len(b) \in Nat /\ SizeOf(s) = Len(b)
  BY <1>1, GoodPartsTo DEF GoodParts
<1> DEFINE n == Len(b)
<1>3. PICK f : /\ IsCopying(f, s, n, n)
               /\ CopyOf(s) = [got |-> f[n].got, outcome |-> f[n].outcome]
  <2>1. \E f : /\ IsCopying(f, s, SizeOf(s), SizeOf(s))
               /\ CopyOf(s) = [got |-> f[SizeOf(s)].got, outcome |-> f[SizeOf(s)].outcome]
    BY <1>2, CopyOfIs
  <2> QED BY <1>2, <2>1
<1>4. n \in Nat BY <1>2
<1> HIDE DEF n
<1>5. /\ f[0] = [reader |-> s, got |-> <<>>, left |-> n, outcome |-> "ok"]
      /\ \A k \in 1 .. n : f[k] = CopyBlock(f[k - 1])
  BY <1>3, <1>4 DEF IsCopying
<1> DEFINE T == {k \in Nat : CopyTurn(f[k], b, k)}
<1>6. 0 \in T
  <2>1. n - n = 0 /\ n <= n /\ n + 0 <= n BY <1>4
  <2>2. Bytes(b, 0, 0) = <<>> BY <1>2, NoBytes
  <2>3. CopyTurn(f[0], b, 0) BY <1>4, <1>5, <2>1, <2>2 DEF CopyTurn, n
  <2> QED BY <2>3
<1>7. ASSUME NEW k \in 1 .. n, k - 1 \in T PROVE k \in T
  <2>1. k - 1 \in Nat /\ (k - 1) + 1 = k /\ k \in Nat BY <1>4
  <2>2. CopyTurn(f[k - 1], b, k - 1) BY <1>7
  <2>3. CopyTurn(CopyBlock(f[k - 1]), b, (k - 1) + 1) BY <1>2, <2>1, <2>2, CopyTurnKept
  <2>4. f[k] = CopyBlock(f[k - 1]) BY <1>5
  <2> QED BY <2>1, <2>3, <2>4
<1> HIDE DEF T
<1>8. 0 .. n \subseteq T BY <1>4, <1>6, <1>7, EveryNumberTo
<1>9. n \in 0 .. n BY <1>4
<1> DEFINE t == f[n]
<1>10. CopyTurn(t, b, n) BY <1>8, <1>9 DEF T
<1>11. CopyOf(s) = [got |-> t.got, outcome |-> t.outcome] BY <1>3
<1> HIDE DEF t
<1>12. t.outcome = "ok" /\ t.left \in Nat /\ t.got = Bytes(b, 0, n - t.left)
       /\ (t.left + n <= n \/ t.left = 0)
  BY <1>10 DEF CopyTurn, n
<1>13. n - t.left = n BY <1>4, <1>12
<1>14. Bytes(b, 0, n) = b BY <1>2, AllBytes DEF n
<1> QED BY <1>2, <1>11, <1>12, <1>13, <1>14

-----------------------------------------------------------------------------
(* Items.                                                                  *)

LEMMA SumOfSizesOf ==
  ASSUME NEW c, AreBytes(c), NEW q, Len(q) = Len(c),
         \A k \in 1 .. Len(c) : SizeOf(q[k]) = Len(c[k])
  PROVE  SumOfSizes(q) = Len(FlattenSeq(c))
<1> DEFINE n == Len(c)
<1>1. /\ n \in Nat /\ n > 0 /\ Starts(c)[0] = 0
      /\ \A k \in 1 .. n : /\ Len(c[k]) \in Nat
                           /\ Starts(c)[k] \in Nat /\ Starts(c)[k - 1] \in Nat
                           /\ Starts(c)[k] = Starts(c)[k - 1] + Len(c[k])
  BY StartsAre
<1>2. PICK f : IsSum(f, q, n) /\ SumOfSizes(q) = f[n]
  <2>1. Len(q) \in Nat BY <1>1
  <2>2. \E f : IsSum(f, q, Len(q)) /\ SumOfSizes(q) = f[Len(q)] BY <2>1, SumOfSizesIs
  <2> QED BY <2>2
<1> HIDE DEF n
<1>3. f[0] = 0 /\ \A k \in 1 .. n : f[k] = f[k - 1] + SizeOf(q[k])
  BY <1>1, <1>2 DEF IsSum
<1> DEFINE T == {k \in Nat : k <= n => f[k] = Starts(c)[k]}
<1>4. 0 \in T BY <1>1, <1>3
<1>5. ASSUME NEW k \in 1 .. n, k - 1 \in T PROVE k \in T
  <2>1. k \in Nat /\ k - 1 <= n BY <1>1
  <2>2. f[k - 1] = Starts(c)[k - 1] BY <1>5, <2>1
  <2>3. f[k] = f[k - 1] + Len(c[k]) BY <1>3 DEF n
  <2> QED BY <1>1, <2>1, <2>2, <2>3
<1> HIDE DEF T
<1>6. 0 .. n \subseteq T BY <1>1, <1>4, <1>5, EveryNumberTo
<1>7. n \in 0 .. n BY <1>1
<1>8. f[n] = Starts(c)[n] BY <1>1, <1>6, <1>7 DEF T
<1> QED BY <1>2, <1>8, JoinedBytes DEF n

LEMMA ChainReaderIs ==
  ASSUME NEW good, NEW readers, GoodParts(good, readers), NEW c, AreBytes(c),
         NEW q \in [1 .. Len(c) -> readers],
         \A k \in 1 .. Len(c) : <<q[k], c[k]>> \in good /\ q[k].offset = 0
  PROVE  GoodChain(ChainReader(q), FlattenSeq(c), good, readers) /\ ChainReader(q).offset = 0
<1> DEFINE s == ChainReader(q)
           b == FlattenSeq(c)
           n == Len(c)
<1>1. n \in Nat /\ n > 0 /\ Starts(c)[0] = 0 BY StartsAre
<1>2. \A k \in 1 .. n : SizeOf(q[k]) = Len(c[k]) /\ Len(c[k]) > 0 BY DEF GoodParts
<1>3. q \in Seq(readers) /\ Len(q) = n
  <2> HIDE DEF n
  <2> QED BY <1>1, SeqFromFunction DEF n
<1>4. SumOfSizes(q) = Len(b) BY <1>2, <1>3, SumOfSizesOf
<1>5. Len(b) \in Nat
  <2>1. b \in Seq(Nat) BY JoinedBytes
  <2> QED BY <2>1, LenProperties
<1>6. s = [kind |-> "chain", readers |-> q, current |-> 1, within |-> 0, offset |-> 0,
           size |-> Len(b)]
  BY <1>4 DEF ChainReader
<1> HIDE DEF s, b, n
<1>7. s \in ChainsOf(readers) BY <1>3, <1>5, <1>6 DEF ChainsOf
<1>8. 1 \in 1 .. n + 1 /\ 1 - 1 = 0 /\ ~(1 = n + 1) BY <1>1
<1>9. IsChainOf(s, b, c, good)
  <2>1. \A k \in 1 .. n : <<q[k], c[k]>> \in good /\ q[k].offset = 0 BY DEF n
  <2>2. /\ s.readers = q /\ s.current = 1 /\ s.within = 0 /\ s.offset = 0 /\ s.size = Len(b)
    BY <1>6
  <2>3. s.offset = Starts(c)[s.current - 1] + s.within BY <1>1, <1>8, <2>2
  <2> QED BY <1>2, <1>3, <1>8, <2>1, <2>2, <2>3 DEF IsChainOf, b, n
<1> QED BY <1>6, <1>7, <1>9 DEF GoodChain, s, b

LEMMA ItemKinds ==
  ASSUME NEW d \in 0 .. Depth, NEW i \in ItemsTo[d]
  PROVE  /\ d \in 1 .. Depth /\ d - 1 \in 0 .. Depth /\ Depth \in 0 .. Depth
         /\ \/ i.kind = "reader" /\ i.bytes \in Seq(Nat)
            \/ /\ i.kind = "stream" /\ i.bytes \in Seq(Nat)
               /\ i.codec \in {"zlib", "zstd"} /\ i.trailer \in BOOLEAN
            \/ /\ i.kind = "slice" /\ i.item \in ItemsTo[d - 1]
               /\ i.offset \in Nat /\ i.length \in Nat
            \/ i.kind = "chain" /\ i.items \in Seq(ItemsTo[d - 1])
<1>1. Depth \in Nat BY ReadersAssumption
<1>2. d # 0 /\ i \in Leaves \union MadeOf(ItemsTo[d - 1]) BY ItemsAre
<1>3. d \in 1 .. Depth /\ d - 1 \in 0 .. Depth /\ Depth \in 0 .. Depth BY <1>1, <1>2
<1> QED BY <1>2, <1>3 DEF Leaves, MadeOf

\* An item is what it is made of, and both of its readers read that.
ItemReads(i, d) ==
    LET b == ContentTo[d][i] IN
    /\ b \in Seq(Nat) /\ Len(b) > 0
    /\ IsReaderOf(MakeReaderTo[d][i], b)
    /\ <<MakeSequentialReaderTo[d][i], b>> \in GoodTo[d]
    /\ MakeSequentialReaderTo[d][i].offset = 0

LEMMA WrapperIs ==
  ASSUME NEW good, NEW readers, NEW r, NEW b, IsReaderOf(r, b)
  PROVE  <<Wrapper(r), b>> \in GoodWith(good, readers) /\ Wrapper(r).offset = 0
<1> DEFINE s == Wrapper(r)
<1>1. s = [kind |-> "wrapper", reader |-> r, offset |-> 0] BY DEF Wrapper
<1>2. r \in [chained : BOOLEAN,
             parts : Seq([device : Seq(Nat), offset : Nat, length : Nat])]
  <2>1. r.parts \in Seq(Views) BY ReaderIs DEF AreViews
  <2> DEFINE p == r.parts
  <2>2. p \in Seq([device : Seq(Nat), offset : Nat, length : Nat]) BY <2>1 DEF Views
  <2>3. r = [chained |-> r.chained, parts |-> p] /\ r.chained \in BOOLEAN BY DEF IsReaderOf
  <2> HIDE DEF p
  <2> QED BY <2>2, <2>3
<1> HIDE DEF s
<1>3. s \in Wrappers BY <1>1, <1>2 DEF Wrappers
<1>4. GoodWrapper(s, b) /\ s.offset = 0 BY <1>1, <1>3 DEF GoodWrapper
<1>5. b \in Seq(Nat) BY ReaderIs
<1> QED BY <1>4, <1>5, GoodMember DEF s

LEMMA DecoderIs ==
  ASSUME NEW good, NEW readers, NEW i, i.bytes \in Seq(Nat), i.bytes # <<>>,
         i.codec \in {"zlib", "zstd"}, i.trailer \in BOOLEAN
  PROVE  <<Decoder(i), i.bytes>> \in GoodWith(good, readers) /\ Decoder(i).offset = 0
<1> DEFINE s == Decoder(i)
           b == i.bytes
<1>1. s = [kind |-> "decoder", codec |-> i.codec, trailer |-> i.trailer, bytes |-> b,
           offset |-> 0, ended |-> FALSE]
  BY DEF Decoder
<1>2. b \in Seq(Nat) /\ Len(b) \in Nat /\ Len(b) > 0
  <2>1. b \in Seq(Nat) /\ b # <<>> OBVIOUS
  <2> HIDE DEF b
  <2> QED BY <2>1, EmptySeq, LenProperties
<1> HIDE DEF s, b
<1>3. s \in Decoders BY <1>1, <1>2 DEF Decoders
<1>4. GoodDecoder(s, b) /\ s.offset = 0 BY <1>1, <1>2, <1>3 DEF GoodDecoder
<1> QED BY <1>2, <1>4, GoodMember DEF s, b

LEMMA ItemsRead ==
  \A d \in 0 .. Depth : \A i \in ItemsTo[d] : WholeTo[d][i] => ItemReads(i, d)
<1>1. Depth \in Nat BY ReadersAssumption
<1> DEFINE T == {d \in 0 .. Depth : \A i \in ItemsTo[d] : WholeTo[d][i] => ItemReads(i, d)}
<1>2. 0 \in T
  <2>1. 0 \in 0 .. Depth BY <1>1
  <2> QED BY <2>1, NothingAtDepth0
<1>3. ASSUME NEW d \in 1 .. Depth, d - 1 \in T PROVE d \in T
  <2>1. d \in 0 .. Depth /\ d - 1 \in 0 .. Depth /\ Depth \in 0 .. Depth /\ d # 0 BY <1>1
  <2>2. \A i \in ItemsTo[d - 1] : WholeTo[d - 1][i] => ItemReads(i, d - 1) BY <1>3
  <2> DEFINE good == GoodTo[d - 1]
             readers == SequentialReaders[d - 1]
             make == MakeReaderTo[d - 1]
             open == MakeSequentialReaderTo[d - 1]
             content == ContentTo[d - 1]
             whole == WholeTo[d - 1]
  <2>3. GoodTo[d] = GoodWith(good, readers) /\ GoodParts(good, readers)
    BY <2>1, GoodToIs, GoodPartsTo
  <2>4. ASSUME NEW i \in ItemsTo[d], WholeTo[d][i] PROVE ItemReads(i, d)
    <3>1. /\ MakeReaderTo[d][i] = MakeReaderWith(make, i)
          /\ MakeSequentialReaderTo[d][i] = MakeSequentialReaderWith(open, MakeReaderTo[d][i], i)
          /\ ContentTo[d][i] = ContentWith(content, i)
          /\ WholeTo[d][i] = WholeWith(whole, content, i)
      <4>1. /\ MakeReaderTo[d] = [j \in ItemsTo[d] |-> MakeReaderWith(MakeReaderTo[d - 1], j)]
            /\ ContentTo[d] = [j \in ItemsTo[d] |-> ContentWith(ContentTo[d - 1], j)]
            /\ WholeTo[d] = [j \in ItemsTo[d] |-> WholeWith(WholeTo[d - 1], ContentTo[d - 1], j)]
        BY <2>1, MakeReaderToIs, ContentToIs, WholeToIs
      <4>2. MakeSequentialReaderTo[d] =
              [j \in ItemsTo[d] |->
                 MakeSequentialReaderWith(MakeSequentialReaderTo[d - 1], MakeReaderTo[d][j], j)]
        BY <2>1, MakeSequentialReaderToIs
      <4> QED BY <4>1, <4>2
    <3> DEFINE r == MakeReaderTo[d][i]
               s == MakeSequentialReaderTo[d][i]
               b == ContentTo[d][i]
    <3>2. ASSUME b \in Seq(Nat), Len(b) > 0, IsReaderOf(r, b),
                 <<s, b>> \in GoodWith(good, readers), s.offset = 0
          PROVE  ItemReads(i, d)
      BY <2>3, <3>2 DEF ItemReads
    <3>3. WholeWith(whole, content, i) BY <2>4, <3>1
    <3>4. \A j \in ItemsTo[d - 1] : whole[j] =>
            /\ content[j] \in Seq(Nat) /\ Len(content[j]) > 0
            /\ IsReaderOf(make[j], content[j])
            /\ <<open[j], content[j]>> \in good /\ open[j].offset = 0
      BY <2>2 DEF ItemReads
    <3>5. \/ i.kind = "reader" /\ i.bytes \in Seq(Nat)
          \/ /\ i.kind = "stream" /\ i.bytes \in Seq(Nat)
             /\ i.codec \in {"zlib", "zstd"} /\ i.trailer \in BOOLEAN
          \/ /\ i.kind = "slice" /\ i.item \in ItemsTo[d - 1]
             /\ i.offset \in Nat /\ i.length \in Nat
          \/ i.kind = "chain" /\ i.items \in Seq(ItemsTo[d - 1])
      BY <2>1, ItemKinds
    <3>6. /\ r = MakeReaderWith(make, i) /\ s = MakeSequentialReaderWith(open, r, i)
          /\ b = ContentWith(content, i)
      BY <3>1
    <3> HIDE DEF good, readers, make, open, content, whole, r, s, b
    <3>7. CASE i.kind = "reader" /\ i.bytes \in Seq(Nat)
      <4>1. b = i.bytes /\ b # <<>> /\ r = Simple(View(b)) /\ s = Wrapper(r)
        <5>1. b = i.bytes BY <3>6, <3>7 DEF ContentWith
        <5>2. i.bytes # <<>> BY <3>3, <3>7 DEF WholeWith
        <5>3. r = Simple(View(i.bytes)) BY <3>6, <3>7 DEF MakeReaderWith
        <5>4. s = Wrapper(r) BY <3>6, <3>7 DEF MakeSequentialReaderWith
        <5> QED BY <5>1, <5>2, <5>3, <5>4
      <4>2. b \in Seq(Nat) /\ Len(b) > 0 BY <3>7, <4>1, EmptySeq, LenProperties
      <4>3. IsView(View(b)) /\ ContentOfView(View(b)) = b BY <4>1, <4>2, ViewOfAll
      <4>4. IsReaderOf(r, b) BY <4>1, <4>3, SimpleIs
      <4>5. <<s, b>> \in GoodWith(good, readers) /\ s.offset = 0 BY <4>1, <4>4, WrapperIs
      <4> QED BY <3>2, <4>2, <4>4, <4>5
    <3>8. CASE /\ i.kind = "stream" /\ i.bytes \in Seq(Nat)
               /\ i.codec \in {"zlib", "zstd"} /\ i.trailer \in BOOLEAN
      <4>1. /\ b = i.bytes /\ b # <<>> /\ r = Simple(View(CopyOf(Decoder(i)).got))
            /\ s = Decoder(i)
        <5>1. b = i.bytes BY <3>6, <3>8 DEF ContentWith
        <5>2. i.bytes # <<>> BY <3>3, <3>8 DEF WholeWith
        <5>3. r = Simple(View(CopyOf(Decoder(i)).got)) BY <3>6, <3>8 DEF MakeReaderWith
        <5>4. s = Decoder(i) BY <3>6, <3>8 DEF MakeSequentialReaderWith
        <5> QED BY <5>1, <5>2, <5>3, <5>4
      <4>2. b \in Seq(Nat) /\ Len(b) > 0 BY <3>8, <4>1, EmptySeq, LenProperties
      <4>3. i.bytes \in Seq(Nat) /\ i.bytes # <<>> BY <3>8, <4>1
      <4>4. <<s, b>> \in GoodWith(good, readers) /\ s.offset = 0
        BY <3>8, <4>1, <4>3, DecoderIs
      <4>5. <<s, b>> \in GoodTo[Depth]
        <5>1. GoodTo[Depth] = GoodWith(GoodTo[Depth - 1], SequentialReaders[Depth - 1])
          BY <1>1, <2>1, GoodToIs
        <5> QED BY <3>8, <4>1, <4>3, <5>1, DecoderIs
      <4>6. CopyOf(s) = [got |-> b, outcome |-> "ok"] BY <4>4, <4>5, CopyIsWhole
      <4>7. r = Simple(View(b)) BY <4>1, <4>6
      <4>8. IsView(View(b)) /\ ContentOfView(View(b)) = b BY <4>1, <4>2, ViewOfAll
      <4>9. IsReaderOf(r, b) BY <4>7, <4>8, SimpleIs
      <4> QED BY <3>2, <4>2, <4>4, <4>9
    <3>9. CASE /\ i.kind = "slice" /\ i.item \in ItemsTo[d - 1]
               /\ i.offset \in Nat /\ i.length \in Nat
      <4> DEFINE j == i.item
                 o == i.offset
                 n == i.length
      <4>1. /\ b = Bytes(content[j], o, n) /\ r = SliceOfReader(make[j], o, n)
            /\ s = Wrapper(r) /\ whole[j] /\ n > 0 /\ o + n <= Len(content[j])
        <5>1. b = Bytes(content[j], o, n) BY <3>6, <3>9 DEF ContentWith
        <5>2. whole[j] /\ n > 0 /\ o + n <= Len(content[j]) BY <3>3, <3>9 DEF WholeWith
        <5>3. r = SliceOfReader(make[j], o, n) BY <3>6, <3>9 DEF MakeReaderWith
        <5>4. s = Wrapper(r) BY <3>6, <3>9 DEF MakeSequentialReaderWith
        <5> QED BY <5>1, <5>2, <5>3, <5>4
      <4>2. content[j] \in Seq(Nat) /\ IsReaderOf(make[j], content[j]) /\ o \in Nat /\ n \in Nat
        BY <3>4, <3>9, <4>1
      <4> HIDE DEF j, o, n
      <4>3. IsReaderOf(r, b) BY <4>1, <4>2, SliceOfReaderIs
      <4>4. b \in Seq(Nat) /\ Len(b) > 0 BY <4>3, ReaderIs
      <4>5. <<s, b>> \in GoodWith(good, readers) /\ s.offset = 0 BY <4>1, <4>3, WrapperIs
      <4> QED BY <3>2, <4>3, <4>4, <4>5
    <3>10. CASE i.kind = "chain" /\ i.items \in Seq(ItemsTo[d - 1])
      <4> DEFINE x == i.items
                 n == Len(x)
                 c == [k \in 1 .. n |-> content[x[k]]]
                 p == [k \in 1 .. n |-> make[x[k]]]
                 q == [k \in 1 .. n |-> open[x[k]]]
      <4>1. x \in Seq(ItemsTo[d - 1]) /\ n \in Nat /\ DOMAIN x = 1 .. n
        <5>1. x \in Seq(ItemsTo[d - 1]) BY <3>10
        <5> HIDE DEF x
        <5> QED BY <5>1, LenProperties
      <4>2. x # <<>> /\ \A k \in 1 .. n : whole[x[k]]
        <5>1. i.items # <<>> /\ \A k \in DOMAIN i.items : whole[i.items[k]]
          BY <3>3, <3>10 DEF WholeWith
        <5> QED BY <4>1, <5>1
      <4>3. b = FlattenSeq(c)
        <5>1. b = FlattenSeq([k \in DOMAIN i.items |-> content[i.items[k]]])
          BY <3>6, <3>10 DEF ContentWith
        <5> QED BY <4>1, <5>1
      <4>4. r = Chained(p)
        <5>1. r = Chained([k \in DOMAIN i.items |-> make[i.items[k]]])
          BY <3>6, <3>10 DEF MakeReaderWith
        <5> QED BY <4>1, <5>1
      <4>5. s = ChainReader(q)
        <5>1. s = ChainReader([k \in DOMAIN i.items |-> open[i.items[k]]])
          BY <3>6, <3>10 DEF MakeSequentialReaderWith
        <5> QED BY <4>1, <5>1
      <4> HIDE DEF x
      <4>6. n # 0 BY <4>1, <4>2, EmptySeq
      <4>7. ASSUME NEW k \in 1 .. n
            PROVE  /\ content[x[k]] \in Seq(Nat) /\ IsReaderOf(make[x[k]], content[x[k]])
                   /\ <<open[x[k]], content[x[k]]>> \in good /\ open[x[k]].offset = 0
                   /\ open[x[k]] \in readers
        <5>1. x[k] \in ItemsTo[d - 1] /\ whole[x[k]] BY <4>1, <4>2, ElementOfSeq
        <5> DEFINE j == x[k]
        <5>2. /\ content[j] \in Seq(Nat) /\ IsReaderOf(make[j], content[j])
              /\ <<open[j], content[j]>> \in good /\ open[j].offset = 0
          <6>1. j \in ItemsTo[d - 1] /\ whole[j] BY <5>1
          <6> HIDE DEF j
          <6> QED BY <3>4, <6>1
        <5> HIDE DEF j
        <5>3. open[j] \in readers BY <2>3, <5>2 DEF GoodParts, good, readers
        <5> QED BY <5>2, <5>3 DEF j
      <4>8. c \in [1 .. n -> Seq(Nat)] /\ q \in [1 .. n -> readers] BY <4>7
      <4>9. \A k \in 1 .. n : /\ IsReaderOf(p[k], c[k]) /\ <<q[k], c[k]>> \in good
                              /\ q[k].offset = 0
        BY <4>7
      <4>10. DOMAIN p = 1 .. n OBVIOUS
      <4> HIDE DEF c, p, q
      <4>11. c \in Seq(Seq(Nat)) /\ Len(c) = n
        <5> HIDE DEF n
        <5> QED BY <4>1, <4>8, SeqFromFunction
      <4>12. AreBytes(c) BY <4>1, <4>6, <4>11 DEF AreBytes
      <4>13. IsReaderOf(Chained(p), FlattenSeq(c))
        <5>1. n \in Nat \ {0} BY <4>1, <4>6
        <5> HIDE DEF n
        <5> QED BY <4>9, <4>10, <4>11, <4>12, <5>1, ChainedIs
      <4>14. b \in Seq(Nat) /\ Len(b) > 0 BY <4>3, <4>13, ReaderIs
      <4>15. GoodChain(s, b, good, readers) /\ s.offset = 0
        <5> HIDE DEF n
        <5>1. q \in [1 .. Len(c) -> readers] BY <4>8, <4>11
        <5>2. \A k \in 1 .. Len(c) : <<q[k], c[k]>> \in good /\ q[k].offset = 0 BY <4>9, <4>11
        <5>3. GoodParts(good, readers) BY <2>3 DEF good, readers
        <5>4. GoodChain(ChainReader(q), FlattenSeq(c), good, readers) /\ ChainReader(q).offset = 0
          BY <4>12, <5>1, <5>2, <5>3, ChainReaderIs
        <5> QED BY <4>3, <4>5, <5>4
      <4>16. <<s, b>> \in GoodWith(good, readers) BY <4>14, <4>15, GoodMember
      <4> QED BY <3>2, <4>3, <4>4, <4>13, <4>14, <4>15, <4>16
    <3> QED BY <3>5, <3>7, <3>8, <3>9, <3>10
  <2> QED BY <2>1, <2>4
<1> HIDE DEF T
<1>4. 0 .. Depth \subseteq T BY <1>1, <1>2, <1>3, EveryNumberTo
<1> QED BY <1>4 DEF T

-----------------------------------------------------------------------------
(* The specification.                                                      *)

\* The sequential reader is at its place, and the last call got what it should.
IsGoodCall ==
    LET bytes == Content(item) IN
    /\ call.at \in Nat /\ call.asked \in Nat
    /\ call.op # "skip" /\ call.outcome = "ok" => call.got = Bytes(bytes, call.at, call.asked)
    /\ call.at + call.asked <= Len(bytes) => call.outcome = "ok"

IInv ==
    /\ item \in Items /\ random = MakeReader(item)
    /\ <<sequential, Content(item)>> \in GoodTo[Depth]
    /\ ~broken => sequential.offset = place
    /\ IsGoodCall

\* What the assumption on the items says of one.
LEMMA ItemIs ==
  ASSUME NEW i \in Items
  PROVE  /\ Depth \in 0 .. Depth
         /\ Content(i) \in Seq(Nat) /\ Len(Content(i)) \in Nat /\ Len(Content(i)) > 0
         /\ IsReaderOf(MakeReader(i), Content(i))
         /\ <<MakeSequentialReader(i), Content(i)>> \in GoodTo[Depth]
         /\ MakeSequentialReader(i).offset = 0
<1>1. Depth \in 0 .. Depth /\ i \in ItemsTo[Depth] /\ WholeTo[Depth][i] BY ReadersAssumption
<1>2. ItemReads(i, Depth) BY <1>1, ItemsRead
<1>3. Content(i) \in Seq(Nat) BY <1>2 DEF ItemReads, Content
<1>4. Len(Content(i)) \in Nat BY <1>3, LenProperties
<1> QED BY <1>1, <1>2, <1>3, <1>4 DEF ItemReads, Content, MakeReader, MakeSequentialReader

\* The two readers of an item are opened at its start.
LEMMA InitIsGood == Init => IInv
<1> SUFFICES ASSUME Init PROVE IInv OBVIOUS
<1>1. item \in Items /\ random = MakeReader(item) /\ sequential = MakeSequentialReader(item)
      /\ place = 0 /\ call = NoCall
  BY DEF Init
<1>2. /\ Content(item) \in Seq(Nat) /\ <<sequential, Content(item)>> \in GoodTo[Depth]
      /\ sequential.offset = 0
  BY <1>1, ItemIs
<1>3. Bytes(Content(item), 0, 0) = <<>> BY <1>2, NoBytes
<1>4. IsGoodCall BY <1>1, <1>3 DEF IsGoodCall, NoCall
<1> QED BY <1>1, <1>2, <1>4 DEF IInv

\* A call keeps the sequential reader as it should be, and gets what it should.
LEMMA NextIsGood == IInv /\ [Next]_vars => IInv'
<1> SUFFICES ASSUME IInv, [Next]_vars PROVE IInv' OBVIOUS
<1> DEFINE b == Content(item)
           s == sequential
<1>1. /\ item \in Items /\ random = MakeReader(item)
      /\ <<s, b>> \in GoodTo[Depth] /\ (~broken => s.offset = place)
  BY DEF IInv
<1>2. Depth \in 0 .. Depth /\ Sizes \subseteq Nat \ {0} BY ReadersAssumption
<1>3. b \in Seq(Nat) /\ Len(b) \in Nat /\ Len(b) > 0 /\ IsReaderOf(random, b)
  BY <1>1, ItemIs
<1>4. s.offset \in Nat /\ SizeOf(s) = Len(b)
  <2> HIDE DEF s, b
  <2> QED BY <1>1, <1>2, GoodPartsTo DEF GoodParts
<1>5. CASE UNCHANGED vars
  BY <1>5 DEF IInv, IsGoodCall, vars, Content, MakeReader
<1>6. ASSUME NEW n \in Sizes, ReadSequentially(n) PROVE IInv'
  <2> DEFINE x == ReadSome(s, n)
  <2>1. /\ ~broken /\ s.offset = place /\ n \in Nat \ {0}
        /\ item' = item /\ random' = random /\ sequential' = x.reader
        /\ place' = place + Len(x.got) /\ broken' = (x.outcome # "ok")
        /\ call' = [op |-> "read", at |-> place, asked |-> n, got |-> x.got,
                    outcome |-> x.outcome]
    BY <1>1, <1>2, <1>6 DEF ReadSequentially, Returned
  <2>2. /\ <<x.reader, b>> \in GoodTo[Depth]
        /\ x.outcome = "ok" => /\ x.got = Bytes(b, place, n)
                               /\ x.reader.offset = place + Len(x.got)
        /\ place < Len(b) => x.outcome = "ok"
    <3>1. ReadsWell(GoodTo[Depth], ReadTo[Depth]) BY <1>2, ReadsWellTo
    <3>2. x = ReadTo[Depth][<<s, n>>] BY DEF ReadSome
    <3> HIDE DEF x, s, b
    <3> QED BY <1>1, <2>1, <3>1, <3>2 DEF ReadsWell, s
  <2>3. place + n <= Len(b) => place < Len(b) BY <1>3, <1>4, <2>1
  <2>4. Content(item)' = b BY <2>1 DEF Content
  <2>5. place \in Nat /\ n \in Nat BY <1>4, <2>1
  <2> HIDE DEF x, b, s
  <2>6. /\ call'.at = place /\ call'.asked = n /\ call'.got = x.got
        /\ call'.outcome = x.outcome /\ call'.op = "read"
    BY <2>1
  <2>7. IsGoodCall' BY <2>2, <2>3, <2>4, <2>5, <2>6 DEF IsGoodCall
  <2>8. ~broken' => sequential'.offset = place' BY <2>1, <2>2
  <2>9. random' = MakeReader(item)' BY <1>1, <2>1 DEF MakeReader
  <2>10. <<sequential, Content(item)>>' \in GoodTo[Depth] BY <2>1, <2>2, <2>4
  <2> QED BY <1>1, <2>1, <2>7, <2>8, <2>9, <2>10 DEF IInv
<1>7. ASSUME NEW n \in Sizes, Skip(n) PROVE IInv'
  <2> DEFINE x == Skipped(s, n)
  <2>1. /\ ~broken /\ s.offset = place /\ n \in Nat
        /\ item' = item /\ random' = random /\ sequential' = x.reader
        /\ place' = place + n /\ broken' = (x.outcome # "ok")
        /\ call' = [op |-> "skip", at |-> place, asked |-> n, got |-> <<>>,
                    outcome |-> x.outcome]
    BY <1>1, <1>2, <1>7 DEF Skip, Returned
  <2>2. /\ <<x.reader, b>> \in GoodTo[Depth]
        /\ x.outcome = "ok" => x.reader.offset = place + n
        /\ place + n <= Len(b) => x.outcome = "ok"
    <3>1. SkipsWell(GoodTo[Depth], SkipTo[Depth]) BY <1>2, SkipsWellTo
    <3>2. x = SkipTo[Depth][<<s, n>>] BY DEF Skipped
    <3> HIDE DEF x, s, b
    <3> QED BY <1>1, <2>1, <3>1, <3>2 DEF SkipsWell, s
  <2>3. Content(item)' = b BY <2>1 DEF Content
  <2>4. place \in Nat /\ n \in Nat BY <1>4, <2>1
  <2> HIDE DEF x, b, s
  <2>5. /\ call'.at = place /\ call'.asked = n /\ call'.outcome = x.outcome
        /\ call'.op = "skip"
    BY <2>1
  <2>6. IsGoodCall' BY <2>2, <2>3, <2>4, <2>5 DEF IsGoodCall
  <2>7. ~broken' => sequential'.offset = place' BY <2>1, <2>2
  <2>8. random' = MakeReader(item)' BY <1>1, <2>1 DEF MakeReader
  <2>9. <<sequential, Content(item)>>' \in GoodTo[Depth] BY <2>1, <2>2, <2>3
  <2> QED BY <1>1, <2>1, <2>6, <2>7, <2>8, <2>9 DEF IInv
<1>8. ASSUME NEW offset \in 0 .. SizeOfReader(random), NEW n \in Sizes, ReadAt(offset, n)
      PROVE  IInv'
  <2>1. offset \in Nat /\ n \in Nat
    <3>1. SizeOfReader(random) \in Nat BY <1>3, ReaderIs
    <3> QED BY <1>2, <3>1
  <2>2. /\ UNCHANGED <<item, random, sequential, place, broken>>
        /\ call' = [op |-> "random", at |-> offset, asked |-> n,
                    got |-> ReadReader(random, offset, n), outcome |-> "ok"]
    BY <1>8 DEF ReadAt, Returned
  <2>3. ReadReader(random, offset, n) = Bytes(b, offset, n) BY <1>3, <2>1, ReadReaderIs
  <2>4. Content(item)' = b /\ MakeReader(item)' = MakeReader(item)
    BY <2>2 DEF Content, MakeReader
  <2> HIDE DEF b
  <2>5. IsGoodCall' BY <2>1, <2>2, <2>3, <2>4 DEF IsGoodCall
  <2> QED BY <1>1, <2>2, <2>4, <2>5 DEF IInv
<1>9. ASSUME Write PROVE IInv'
  <2> DEFINE w == MakeSequentialReader(item)
  <2>1. <<w, b>> \in GoodTo[Depth] /\ w.offset = 0 BY <1>1, ItemIs
  <2>2. CopyOf(w) = [got |-> b, outcome |-> "ok"] /\ SizeOf(w) = Len(b)
    <3> HIDE DEF w, b
    <3> QED BY <2>1, CopyIsWhole
  <2>3. /\ UNCHANGED <<item, random, sequential, place, broken>>
        /\ call' = [op |-> "write", at |-> 0, asked |-> Len(b), got |-> b, outcome |-> "ok"]
    BY <1>9, <2>2 DEF Write, Returned
  <2>4. Content(item)' = b /\ MakeReader(item)' = MakeReader(item)
    BY <2>3 DEF Content, MakeReader
  <2>5. Bytes(b, 0, Len(b)) = b BY <1>3, AllBytes
  <2> HIDE DEF b, w
  <2>6. IsGoodCall' BY <1>3, <2>3, <2>4, <2>5 DEF IsGoodCall
  <2> QED BY <1>1, <2>3, <2>4, <2>6 DEF IInv
<1> QED BY <1>5, <1>6, <1>7, <1>8, <1>9 DEF Next

\* However an item is nested and its readers are called, the random reader is
\* that of the item, the sequential one is at its place, and the last call got
\* what it should: the calls of reader, sequential::reader and
\* prepared_item::write() keep this.
THEOREM Invariance == Spec => []IInv
BY InitIsGood, NextIsGood, PTL DEF Spec

LEMMA IInvReads == IInv => ReadsTheContent
<1> SUFFICES ASSUME IInv PROVE ReadsTheContent OBVIOUS
<1>1. /\ item \in Items /\ random = MakeReader(item)
      /\ <<sequential, Content(item)>> \in GoodTo[Depth] /\ (~broken => sequential.offset = place)
      /\ IsGoodCall
  BY DEF IInv
<1>2. Depth \in 0 .. Depth /\ IsReaderOf(random, Content(item)) BY <1>1, ItemIs
<1>3. SizeOf(sequential) = Len(Content(item)) BY <1>1, <1>2, GoodPartsTo DEF GoodParts
<1>4. SizeOfReader(random) = Len(Content(item)) BY <1>2, ReaderIs
<1> QED BY <1>1, <1>3, <1>4 DEF ReadsTheContent, IsGoodCall, Tellg

\* Whatever an item is made of and however it is read, at random, from start to
\* end, by skipping or by copying it, a call gets the bytes that the item has at
\* that place, and one within the item neither throws nor hangs
\* (prepared_item::make_reader(), make_sequential_reader() and write()).
THEOREM ItemsAreReadAsTheyAre == Spec => []ReadsTheContent
BY Invariance, IInvReads, PTL
=============================================================================

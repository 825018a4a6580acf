-------------------------- MODULE RecompressProofs --------------------------
(***************************************************************************)
(* The updates that leave the recompress tool are sound, for all updates   *)
(* that RecompressAssumption admits: any number of members and images, any *)
(* names and payloads, wherever the file that is read ends.                *)
(*                                                                         *)
(* First comes the format: an archive that was written is read as it was,  *)
(* and one whose end is missing is not read at all.                        *)
(***************************************************************************)
EXTENDS Recompress, SequenceTheorems, WellFoundedInduction, TLAPS

-----------------------------------------------------------------------------
(* Induction.                                                              *)

\* A set of natural numbers that is not empty has a least one.
LEMMA LeastNumber ==
  ASSUME NEW T, T \subseteq Nat, T # {}
  PROVE  \E m \in T : \A n \in T : m <= n
<1>1. PICK m \in T : \A n \in T : ~(<<n, m>> \in OpToRel(<, Nat))
  BY NatLessThanWellFounded, WFMin
<1>2. \A n \in T : ~(n < m) BY <1>1 DEF OpToRel
<1> QED BY <1>2

\* A set that holds 0 and with each number the next holds them all.
LEMMA EveryNumber ==
  ASSUME NEW T, 0 \in T, \A n \in Nat : n \in T => n + 1 \in T
  PROVE  Nat \subseteq T
<1> SUFFICES ASSUME Nat \ T # {} PROVE FALSE OBVIOUS
<1>1. PICK m \in Nat \ T : \A n \in Nat \ T : m <= n BY LeastNumber
<1>2. m # 0 /\ m - 1 \in Nat /\ m - 1 < m BY <1>1
<1>3. m - 1 \in T BY <1>1, <1>2
<1>4. (m - 1) + 1 = m BY <1>1
<1> QED BY <1>1, <1>2, <1>3, <1>4

-----------------------------------------------------------------------------
(* Sequences, of whatever they are.                                        *)

\* A function on 1 to n is a sequence.
LEMMA SequenceIs ==
  ASSUME NEW n \in Nat, NEW s, s = [k \in 1 .. n |-> s[k]]
  PROVE  IsSequence(s) /\ Len(s) = n /\ DOMAIN s = 1 .. n
         /\ s \in Seq({s[k] : k \in 1 .. n})
<1> DEFINE S == {s[k] : k \in 1 .. n}
<1>1. s \in [1 .. n -> S] OBVIOUS
<1>2. s \in Seq(S) BY <1>1, SeqDef
<1>3. Len(s) = n /\ DOMAIN s = 1 .. n BY <1>1, <1>2, LenProperties
<1> QED BY <1>2, <1>3 DEF IsSequence

LEMMA IsSequenceIs ==
  ASSUME NEW s, IsSequence(s)
  PROVE  /\ Len(s) \in Nat /\ DOMAIN s = 1 .. Len(s)
         /\ s \in Seq({s[k] : k \in 1 .. Len(s)})
BY SequenceIs DEF IsSequence

LEMMA AppendIs ==
  ASSUME NEW s, IsSequence(s), NEW e
  PROVE  /\ IsSequence(Append(s, e)) /\ Len(Append(s, e)) = Len(s) + 1
         /\ \A k \in 1 .. Len(s) : Append(s, e)[k] = s[k]
         /\ Append(s, e)[Len(s) + 1] = e
<1> DEFINE S == {s[k] : k \in 1 .. Len(s)} \union {e}
<1>1. Len(s) \in Nat /\ s \in Seq({s[k] : k \in 1 .. Len(s)}) BY IsSequenceIs
<1>2. s \in Seq(S) /\ e \in S BY <1>1, SeqMonotonic
<1> HIDE DEF S
<1>3. /\ Append(s, e) \in Seq(S) /\ Len(Append(s, e)) = Len(s) + 1
      /\ \A k \in 1 .. Len(s) : Append(s, e)[k] = s[k]
      /\ Append(s, e)[Len(s) + 1] = e
  BY <1>2, AppendProperties
<1>4. IsSequence(Append(s, e)) BY <1>3, LenProperties DEF IsSequence
<1> QED BY <1>3, <1>4

LEMMA PrependIs ==
  ASSUME NEW s, IsSequence(s), NEW e
  PROVE  /\ IsSequence(<<e>> \o s) /\ Len(<<e>> \o s) = Len(s) + 1
         /\ (<<e>> \o s)[1] = e
         /\ \A k \in 1 .. Len(s) : (<<e>> \o s)[k + 1] = s[k]
<1> DEFINE S == {s[k] : k \in 1 .. Len(s)} \union {e}
<1>1. Len(s) \in Nat /\ s \in Seq({s[k] : k \in 1 .. Len(s)}) BY IsSequenceIs
<1>2. s \in Seq(S) /\ <<e>> \in Seq(S) /\ Len(<<e>>) = 1 /\ <<e>>[1] = e
  BY <1>1, SeqMonotonic
<1> HIDE DEF S
<1>3. /\ <<e>> \o s \in Seq(S) /\ Len(<<e>> \o s) = 1 + Len(s)
      /\ \A i \in 1 .. 1 + Len(s) :
            (<<e>> \o s)[i] = IF i <= 1 THEN <<e>>[i] ELSE s[i - 1]
  BY <1>2, ConcatProperties
<1>4. IsSequence(<<e>> \o s) BY <1>3, LenProperties DEF IsSequence
<1>5. (<<e>> \o s)[1] = e BY <1>1, <1>2, <1>3
<1>6. ASSUME NEW k \in 1 .. Len(s) PROVE (<<e>> \o s)[k + 1] = s[k]
  <2>1. k + 1 \in 1 .. 1 + Len(s) /\ ~(k + 1 <= 1) /\ (k + 1) - 1 = k BY <1>1
  <2> QED BY <1>3, <2>1
<1> QED BY <1>1, <1>3, <1>4, <1>5, <1>6

LEMMA FrontIs ==
  ASSUME NEW s, IsSequence(s), Len(s) > 0
  PROVE  /\ IsSequence(Front(s)) /\ Len(Front(s)) = Len(s) - 1
         /\ \A k \in 1 .. Len(s) - 1 : Front(s)[k] = s[k]
<1> DEFINE S == {s[k] : k \in 1 .. Len(s)}
           n == Len(s) - 1
<1>1. Len(s) \in Nat /\ n \in Nat /\ \A k \in 1 .. n : s[k] \in S BY IsSequenceIs
<1> HIDE DEF S, n
<1>2. /\ SubSeq(s, 1, n) \in Seq(S)
      /\ Len(SubSeq(s, 1, n)) = IF 1 <= n THEN n - 1 + 1 ELSE 0
      /\ \A i \in 1 .. n - 1 + 1 : SubSeq(s, 1, n)[i] = s[1 + i - 1]
  BY <1>1, SubSeqProperties
<1>3. Front(s) = SubSeq(s, 1, n) BY DEF Front, n
<1>4. Len(Front(s)) = n BY <1>1, <1>2, <1>3
<1>5. IsSequence(Front(s)) BY <1>2, <1>3, LenProperties DEF IsSequence
<1>6. \A k \in 1 .. n : Front(s)[k] = s[k] BY <1>1, <1>2, <1>3
<1> QED BY <1>4, <1>5, <1>6 DEF n

\* Sequences are what they hold.
LEMMA SameSequence ==
  ASSUME NEW s, NEW t, IsSequence(s), IsSequence(t), Len(s) = Len(t),
         \A k \in 1 .. Len(s) : s[k] = t[k]
  PROVE  s = t
BY DEF IsSequence

-----------------------------------------------------------------------------
(* A member, as the constructor and set_payload_reader() lay it out.       *)

Laid(f) ==
    /\ f = CpioFile(f.name, f.ino, "new_ascii", f.payload)
    /\ NameLength(f.name) \in Nat
    /\ IsPayload(f.payload)

\* Paddings are short, and fill up to a multiple of 4.
LEMMA Padding ==
  ASSUME NEW o \in Nat
  PROVE  get_padding_needed(o) \in 0 .. 3 /\ (o + get_padding_needed(o)) % 4 = 0
BY DEF get_padding_needed

\* What begins at a multiple of 4 is padded as if it began at 0.
LEMMA SamePadding ==
  ASSUME NEW o \in Nat, NEW n \in Nat, o % 4 = 0
  PROVE  get_padding_needed(o + n) = get_padding_needed(n)
BY DEF get_padding_needed

\* What a member is, and where its parts lie.
LEMMA LaidIs ==
  ASSUME NEW f, Laid(f)
  PROVE  /\ f = [name |-> f.name, namesize |-> NameLength(f.name) + 1, ino |-> f.ino,
                 format |-> "new_ascii", filesize |-> f.payload.size, check |-> 0,
                 payload |-> f.payload, tail |-> get_padding_needed(f.payload.size)]
         /\ f.payload.size \in Nat
         /\ HeaderSize(f) \in Nat /\ DataStart(f) \in Nat /\ get_total_size(f) \in Nat
         /\ DataStart(f) % 4 = 0
         /\ NEW_ASCII_HEADER_SIZE < HeaderSize(f) /\ HeaderSize(f) <= DataStart(f)
         /\ get_total_size(f) = DataStart(f) + f.payload.size
                                   + get_padding_needed(f.payload.size)
<1>1. f.payload.size \in 0 .. Word - 1 /\ Word \in Nat
  BY RecompressAssumption DEF Laid, IsPayload
<1>2. f.payload.size % Word = f.payload.size /\ f.payload.size \in Nat BY <1>1
<1>3. f = [name |-> f.name, namesize |-> NameLength(f.name) + 1, ino |-> f.ino,
           format |-> "new_ascii", filesize |-> f.payload.size, check |-> 0,
           payload |-> f.payload, tail |-> get_padding_needed(f.payload.size)]
  BY <1>2 DEF Laid, CpioFile, WithPayload
<1>4. f.namesize = NameLength(f.name) + 1 /\ f.tail = get_padding_needed(f.payload.size)
  BY <1>3
<1>5. HeaderSize(f) \in Nat /\ NEW_ASCII_HEADER_SIZE < HeaderSize(f)
  BY <1>4 DEF Laid, HeaderSize, NEW_ASCII_HEADER_SIZE
<1>6. /\ DataStart(f) \in Nat /\ DataStart(f) % 4 = 0 /\ HeaderSize(f) <= DataStart(f)
  BY <1>5, Padding DEF DataStart
<1>7. get_padding_needed(f.payload.size) \in 0 .. 3 BY <1>2, Padding
<1> QED BY <1>2, <1>3, <1>4, <1>5, <1>6, <1>7 DEF get_total_size

LEMMA MultiplesOfFour ==
  ASSUME NEW a \in Nat, NEW b \in Nat, a % 4 = 0, b % 4 = 0
  PROVE  (a + b) % 4 = 0
OBVIOUS

\* A member takes up room, a multiple of 4.
LEMMA MemberSize ==
  ASSUME NEW f, Laid(f)
  PROVE  /\ DataStart(f) \in Nat /\ get_total_size(f) \in Nat
         /\ 0 < DataStart(f) /\ DataStart(f) <= get_total_size(f) /\ 0 < get_total_size(f)
         /\ get_total_size(f) % 4 = 0
<1> DEFINE size == f.payload.size
           padding == get_padding_needed(size)
           data == DataStart(f)
<1>1. /\ data \in Nat /\ size \in Nat /\ data % 4 = 0 /\ 0 < data
      /\ get_total_size(f) = data + size + padding
  <2>1. /\ data \in Nat /\ size \in Nat /\ data % 4 = 0 /\ HeaderSize(f) \in Nat
        /\ NEW_ASCII_HEADER_SIZE < HeaderSize(f) /\ HeaderSize(f) <= data
        /\ get_total_size(f) = data + size + padding
    BY LaidIs
  <2> HIDE DEF size, padding, data
  <2> QED BY <2>1 DEF NEW_ASCII_HEADER_SIZE
<1>2. padding \in 0 .. 3 /\ (size + padding) % 4 = 0 BY <1>1, Padding
<1> HIDE DEF size, padding, data
<1>3. size + padding \in Nat /\ (data + (size + padding)) % 4 = 0
  BY <1>1, <1>2, MultiplesOfFour
<1>4. get_total_size(f) = data + (size + padding) BY <1>1, <1>2
<1> QED BY <1>1, <1>3, <1>4 DEF data

-----------------------------------------------------------------------------
(* Images.                                                                 *)

\* The images of the first n members.
Laying(image, files, n) ==
    image = [k \in 0 .. n |-> IF k = 0 THEN EmptyImage ELSE Put(image[k - 1], files[k])]

LEMMA LayingExists ==
  ASSUME NEW files
  PROVE  \A n \in Nat : \E image : Laying(image, files, n)
<1> DEFINE T == {n \in Nat : \E image : Laying(image, files, n)}
<1>1. 0 \in T
  <2> DEFINE g == [k \in 0 .. 0 |-> EmptyImage]
  <2>1. Laying(g, files, 0) BY DEF Laying
  <2> QED BY <2>1
<1>2. ASSUME NEW n \in Nat, n \in T PROVE n + 1 \in T
  <2>1. PICK f : Laying(f, files, n) BY <1>2
  <2> DEFINE g == [k \in 0 .. n + 1 |-> IF k = n + 1 THEN Put(f[n], files[n + 1]) ELSE f[k]]
  <2>2. \A k \in 0 .. n : f[k] = IF k = 0 THEN EmptyImage ELSE Put(f[k - 1], files[k])
    BY <2>1 DEF Laying
  <2>3. \A k \in 0 .. n : g[k] = f[k] OBVIOUS
  <2>4. ASSUME NEW k \in 0 .. n + 1
        PROVE  g[k] = IF k = 0 THEN EmptyImage ELSE Put(g[k - 1], files[k])
    <3>1. CASE k = n + 1
      <4>1. g[k] = Put(f[n], files[k]) BY <3>1
      <4>2. k - 1 = n /\ k # 0 BY <3>1
      <4>3. g[k - 1] = f[n] BY <2>3, <4>2
      <4> QED BY <4>1, <4>2, <4>3
    <3>2. CASE k # n + 1
      <4>1. k \in 0 .. n BY <3>2
      <4>2. CASE k = 0 BY <2>2, <2>3, <4>1, <4>2
      <4>3. CASE k # 0
        <5>1. k - 1 \in 0 .. n BY <4>1, <4>3
        <5> QED BY <2>2, <2>3, <4>1, <4>3, <5>1
      <4> QED BY <4>2, <4>3
    <3> QED BY <3>1, <3>2
  <2>5. Laying(g, files, n + 1)
    <3> HIDE DEF g
    <3>1. g = [k \in 0 .. n + 1 |-> g[k]] BY DEF g
    <3> QED BY <2>4, <3>1 DEF Laying
  <2> HIDE DEF g
  <2> QED BY <2>5
<1> HIDE DEF T
<1>3. Nat \subseteq T BY <1>1, <1>2, EveryNumber
<1> QED BY <1>3 DEF T

LEMMA ImagesAre ==
  ASSUME NEW files, Len(files) \in Nat
  PROVE  /\ Images(files)[0] = EmptyImage
         /\ \A k \in 1 .. Len(files) : Images(files)[k] = Put(Images(files)[k - 1], files[k])
<1>1. \E image : Laying(image, files, Len(files)) BY LayingExists
<1>2. Images(files) = CHOOSE image : Laying(image, files, Len(files)) BY DEF Images, Laying
<1>3. Laying(Images(files), files, Len(files)) BY <1>1, <1>2
<1> QED BY <1>3 DEF Laying

AllLaid(files) == IsSequence(files) /\ \A k \in 1 .. Len(files) : Laid(files[k])

\* Where the member after the first k begins.
Start(files, k) == Images(files)[k].size

\* What an image of the first k members has: each begins where the one before
\* it ends, with its header there and its payload after that.
LaidOut(files, k) ==
    LET image == Images(files)[k] IN
    /\ image = [headers |-> image.headers, payloads |-> image.payloads, size |-> image.size]
    /\ Start(files, k) \in Nat /\ Start(files, k) % 4 = 0
    /\ \A j \in 1 .. k :
          /\ Start(files, j - 1) \in Nat /\ Start(files, j) \in Nat
          /\ Start(files, j) = Start(files, j - 1) + get_total_size(files[j])
          /\ Start(files, j) <= Start(files, k)
          /\ image.headers[Start(files, j - 1)] = files[j]
          /\ image.payloads[Start(files, j - 1) + DataStart(files[j])] = files[j].payload
    /\ DOMAIN image.headers = {Start(files, j - 1) : j \in 1 .. k}
    /\ DOMAIN image.payloads = {Start(files, j - 1) + DataStart(files[j]) : j \in 1 .. k}

LEMMA NothingLaidOut ==
  ASSUME NEW files, AllLaid(files)
  PROVE  LaidOut(files, 0) /\ Start(files, 0) = 0
<1>1. Images(files)[0] = EmptyImage BY ImagesAre, IsSequenceIs DEF AllLaid
<1>2. DOMAIN EmptyImage.headers = {} /\ DOMAIN EmptyImage.payloads = {} BY DEF EmptyImage
<1> QED BY <1>1, <1>2 DEF LaidOut, Start, EmptyImage

LEMMA OneMoreLaidOut ==
  ASSUME NEW files, AllLaid(files), NEW n \in Nat, n + 1 <= Len(files), LaidOut(files, n)
  PROVE  LaidOut(files, n + 1)
<1> DEFINE k == n + 1
           old == Images(files)[n]
           new == Images(files)[k]
           f == files[k]
           S(j) == Start(files, j)
<1>1. k \in 1 .. Len(files) /\ k - 1 = n /\ Laid(f) BY IsSequenceIs DEF AllLaid
<1>2. new = Put(old, f) BY <1>1, ImagesAre, IsSequenceIs DEF AllLaid
<1>3. /\ DataStart(f) \in Nat /\ get_total_size(f) \in Nat
      /\ 0 < DataStart(f) /\ DataStart(f) <= get_total_size(f) /\ 0 < get_total_size(f)
      /\ get_total_size(f) % 4 = 0
  BY <1>1, MemberSize
<1>4. S(n) \in Nat /\ S(n) % 4 = 0 BY DEF LaidOut
<1>5. /\ new.headers = [o \in DOMAIN old.headers \union {S(n)} |->
                          IF o = S(n) THEN f ELSE old.headers[o]]
      /\ new.payloads = [o \in DOMAIN old.payloads \union {S(n) + DataStart(f)} |->
                          IF o = S(n) + DataStart(f) THEN f.payload ELSE old.payloads[o]]
      /\ new.size = S(n) + get_total_size(f)
      /\ new = [headers |-> new.headers, payloads |-> new.payloads, size |-> new.size]
  BY <1>2 DEF Put, Start
<1>6. S(k) = S(n) + get_total_size(f) /\ S(k) \in Nat /\ S(k) % 4 = 0 /\ S(n) < S(k)
  <2>1. S(k) = S(n) + get_total_size(f) BY <1>5 DEF Start
  <2> QED BY <1>3, <1>4, <2>1, MultiplesOfFour
<1>7. ASSUME NEW j \in 1 .. n
      PROVE  /\ S(j - 1) \in Nat /\ S(j) \in Nat /\ S(j - 1) < S(n) /\ S(j) <= S(n)
             /\ S(j) = S(j - 1) + get_total_size(files[j])
             /\ DataStart(files[j]) \in Nat
             /\ S(j - 1) + DataStart(files[j]) <= S(n)
             /\ old.headers[S(j - 1)] = files[j]
             /\ old.payloads[S(j - 1) + DataStart(files[j])] = files[j].payload
  <2>1. Laid(files[j]) BY <1>1, IsSequenceIs DEF AllLaid
  <2>2. /\ DataStart(files[j]) \in Nat /\ get_total_size(files[j]) \in Nat
        /\ 0 < get_total_size(files[j]) /\ DataStart(files[j]) <= get_total_size(files[j])
    BY <2>1, MemberSize
  <2>3. /\ S(j - 1) \in Nat /\ S(j) \in Nat /\ S(j) <= S(n)
        /\ S(j) = S(j - 1) + get_total_size(files[j])
        /\ old.headers[S(j - 1)] = files[j]
        /\ old.payloads[S(j - 1) + DataStart(files[j])] = files[j].payload
    BY DEF LaidOut
  <2> QED BY <1>4, <2>2, <2>3
<1>8. /\ DOMAIN old.headers = {S(j - 1) : j \in 1 .. n}
      /\ DOMAIN old.payloads = {S(j - 1) + DataStart(files[j]) : j \in 1 .. n}
  BY DEF LaidOut
<1>9. ASSUME NEW j \in 1 .. k
      PROVE  /\ S(j - 1) \in Nat /\ S(j) \in Nat
             /\ S(j) = S(j - 1) + get_total_size(files[j])
             /\ S(j) <= S(k)
             /\ new.headers[S(j - 1)] = files[j]
             /\ new.payloads[S(j - 1) + DataStart(files[j])] = files[j].payload
  <2>1. CASE j = k
    <3>1. S(j - 1) = S(n) /\ files[j] = f BY <1>1, <2>1
    <3>2. new.headers[S(n)] = f /\ new.payloads[S(n) + DataStart(f)] = f.payload
      BY <1>5
    <3>3. S(j) = S(k) BY <2>1
    <3> HIDE DEF k, new, f, S
    <3> QED BY <1>4, <1>6, <3>1, <3>2, <3>3
  <2>2. CASE j # k
    <3>1. j \in 1 .. n BY <2>2
    <3> HIDE DEF k, new, f, S, old
    <3>2. S(j - 1) \in DOMAIN old.headers /\ S(j - 1) # S(n)
      BY <1>4, <1>7, <1>8, <3>1
    <3>3. /\ S(j - 1) + DataStart(files[j]) \in DOMAIN old.payloads
          /\ S(j - 1) + DataStart(files[j]) # S(n) + DataStart(f)
      <4>1. S(j - 1) + DataStart(files[j]) \in DOMAIN old.payloads BY <1>8, <3>1
      <4>2. /\ S(j - 1) \in Nat /\ DataStart(files[j]) \in Nat
            /\ S(j - 1) + DataStart(files[j]) <= S(n)
        BY <1>7, <3>1
      <4> QED BY <1>3, <1>4, <4>1, <4>2
    <3>4. new.headers[S(j - 1)] = old.headers[S(j - 1)] BY <1>5, <3>2
    <3>5. new.payloads[S(j - 1) + DataStart(files[j])]
             = old.payloads[S(j - 1) + DataStart(files[j])]
      BY <1>5, <3>3
    <3> QED BY <1>4, <1>6, <1>7, <3>1, <3>4, <3>5
  <2> QED BY <2>1, <2>2
<1>10. 1 .. k = 1 .. n \union {k} BY <1>1
<1>11. DOMAIN new.headers = {S(j - 1) : j \in 1 .. k}
  <2>1. DOMAIN new.headers = {S(j - 1) : j \in 1 .. n} \union {S(n)} BY <1>5, <1>8
  <2>2. S(k - 1) = S(n) BY <1>1
  <2> HIDE DEF k, S, new
  <2> QED BY <1>10, <2>1, <2>2
<1>12. DOMAIN new.payloads = {S(j - 1) + DataStart(files[j]) : j \in 1 .. k}
  <2>1. DOMAIN new.payloads = {S(j - 1) + DataStart(files[j]) : j \in 1 .. n}
                                 \union {S(n) + DataStart(f)}
    BY <1>5, <1>8
  <2>2. S(k - 1) + DataStart(files[k]) = S(n) + DataStart(f) BY <1>1
  <2> HIDE DEF k, S, new, f
  <2> QED BY <1>10, <2>1, <2>2
<1> QED BY <1>5, <1>6, <1>9, <1>11, <1>12 DEF LaidOut

LEMMA AllLaidOut ==
  ASSUME NEW files, AllLaid(files)
  PROVE  \A n \in 0 .. Len(files) : LaidOut(files, n)
<1> DEFINE T == {n \in Nat : n <= Len(files) => LaidOut(files, n)}
<1>1. 0 \in T BY NothingLaidOut
<1>2. ASSUME NEW n \in Nat, n \in T PROVE n + 1 \in T
  BY <1>2, OneMoreLaidOut, IsSequenceIs DEF AllLaid
<1> HIDE DEF T
<1>3. Nat \subseteq T BY <1>1, <1>2, EveryNumber
<1> QED BY <1>3 DEF T

-----------------------------------------------------------------------------
(* Reading what was written, or what is left of it.                        *)

\* Members with a trailer at the end and nowhere else.
Ended(files) ==
    LET n == Len(files) IN
    /\ AllLaid(files) /\ n > 0
    /\ \A k \in 1 .. n : is_end_marker(files[k]) <=> k = n
    /\ files[n].payload.size = 0

CutShort(files, cut) == [Images(files)[Len(files)] EXCEPT !.size = @ - cut]

\* A payload of the size it has is what it was.
LEMMA SameSize ==
  ASSUME NEW p, IsPayload(p)
  PROVE  [p EXCEPT !.size = p.size] = p
BY DEF IsPayload, HasFields

\* At a member's offset that member is read, if it is there as a whole; the
\* trailer only if nothing is missing.
LEMMA ReadAtStart ==
  ASSUME NEW files, Ended(files), NEW cut \in Nat, cut <= Start(files, Len(files)),
         NEW j \in 1 .. Len(files)
  PROVE  LET image == CutShort(files, cut)
             r == ReadFile(image, Start(files, j - 1))
         IN /\ r.result = "read" =>
                  /\ r.file = files[j] /\ Start(files, j) <= image.size
                  /\ j = Len(files) => cut = 0
            /\ cut = 0 => r.result = "read"
<1> DEFINE n == Len(files)
           whole == Images(files)[n]
           image == CutShort(files, cut)
           o == Start(files, j - 1)
           f == files[j]
           data == o + DataStart(f)
           end == data + f.filesize
           tail == IF is_end_marker(f) THEN image.size - end
                                       ELSE get_padding_needed(end - o)
           read == [f EXCEPT !.payload = [image.payloads[data] EXCEPT !.size = f.filesize],
                             !.tail = tail]
           r == ReadFile(image, o)
<1>1. n \in Nat /\ Laid(f) /\ LaidOut(files, n)
  BY AllLaidOut, IsSequenceIs DEF Ended, AllLaid
<1>2. /\ image.headers = whole.headers /\ image.payloads = whole.payloads
      /\ image.size = Start(files, n) - cut
  BY <1>1 DEF LaidOut, CutShort, Start
<1>3. /\ o \in Nat /\ Start(files, j) \in Nat /\ Start(files, n) \in Nat
      /\ Start(files, j) = o + get_total_size(f) /\ Start(files, j) <= Start(files, n)
      /\ image.headers[o] = f /\ image.payloads[data] = f.payload
      /\ o \in DOMAIN image.headers
  BY <1>1, <1>2 DEF LaidOut
<1>4. /\ f = [name |-> f.name, namesize |-> NameLength(f.name) + 1, ino |-> f.ino,
              format |-> "new_ascii", filesize |-> f.payload.size, check |-> 0,
              payload |-> f.payload, tail |-> get_padding_needed(f.payload.size)]
      /\ f.payload.size \in Nat
      /\ HeaderSize(f) \in Nat /\ DataStart(f) \in Nat /\ DataStart(f) % 4 = 0
      /\ NEW_ASCII_HEADER_SIZE < HeaderSize(f) /\ HeaderSize(f) <= DataStart(f)
      /\ get_total_size(f) = DataStart(f) + f.payload.size
                                + get_padding_needed(f.payload.size)
  BY <1>1, LaidIs
<1>5. f.filesize = f.payload.size /\ f.tail = get_padding_needed(f.payload.size) BY <1>4
<1>6. r = IF \/ o + NEW_ASCII_HEADER_SIZE > image.size
             \/ o \notin DOMAIN image.headers
          THEN [result |-> "false"]
          ELSE IF o + HeaderSize(f) > image.size THEN [result |-> "false"]
          ELSE IF end > image.size \/ end + tail > image.size THEN [result |-> "throws"]
          ELSE [result |-> "read", file |-> read]
  BY <1>3 DEF ReadFile, PastTheEnd
<1>7. get_padding_needed(f.payload.size) \in 0 .. 3 BY <1>4, Padding
<1>8. end = o + DataStart(f) + f.payload.size BY <1>5
<1>9. ASSUME tail = f.tail PROVE read = f
  <2>1. [f.payload EXCEPT !.size = f.payload.size] = f.payload
    BY <1>1, SameSize DEF Laid
  <2>2. read = [f EXCEPT !.payload = f.payload, !.tail = f.tail]
    BY <1>3, <1>5, <1>9, <2>1
  <2> HIDE DEF f, read
  <2> QED BY <1>4, <2>2
<1>10. /\ HeaderSize(f) \in Nat /\ DataStart(f) \in Nat /\ f.payload.size \in Nat
       /\ o + NEW_ASCII_HEADER_SIZE \in Nat /\ o + HeaderSize(f) \in Nat
       /\ end \in Nat /\ end - o = DataStart(f) + f.payload.size
       /\ o + NEW_ASCII_HEADER_SIZE <= end /\ o + HeaderSize(f) <= end
       /\ Start(files, j) = end + get_padding_needed(f.payload.size)
       /\ tail \in Int /\ image.size \in Int
  <2>1. /\ HeaderSize(f) \in Nat /\ DataStart(f) \in Nat /\ f.payload.size \in Nat
        /\ NEW_ASCII_HEADER_SIZE < HeaderSize(f) /\ HeaderSize(f) <= DataStart(f)
        /\ get_total_size(f) = DataStart(f) + f.payload.size
                                  + get_padding_needed(f.payload.size)
    BY <1>4
  <2>2. o \in Nat /\ Start(files, j) = o + get_total_size(f) /\ image.size \in Int
    BY <1>2, <1>3
  <2>3. end = o + DataStart(f) + f.payload.size BY <1>8
  <2> DEFINE header == HeaderSize(f)
             start == DataStart(f)
             size == f.payload.size
             padding == get_padding_needed(f.payload.size)
             total == get_total_size(f)
  <2>4. /\ end \in Nat /\ end - o = start + size
        /\ o + NEW_ASCII_HEADER_SIZE \in Nat /\ o + header \in Nat
        /\ o + NEW_ASCII_HEADER_SIZE <= end /\ o + header <= end
        /\ Start(files, j) = end + padding
    <3>1. /\ header \in Nat /\ start \in Nat /\ size \in Nat /\ padding \in 0 .. 3
          /\ 110 < header /\ header <= start /\ total = start + size + padding
      BY <1>7, <2>1 DEF NEW_ASCII_HEADER_SIZE
    <3>2. o \in Nat /\ Start(files, j) = o + total /\ end = o + start + size
      BY <2>2, <2>3
    <3> HIDE DEF header, start, size, padding, total, end, o, f
    <3> QED BY <3>1, <3>2 DEF NEW_ASCII_HEADER_SIZE
  <2>5. get_padding_needed(end - o) \in 0 .. 3 BY <2>1, <2>4, Padding
  <2>6. tail \in Int
    <3> HIDE DEF end, o, f, image
    <3> QED BY <2>2, <2>4, <2>5
  <2> HIDE DEF end, o, f, tail, image
  <2> QED BY <2>1, <2>2, <2>4, <2>6
<1>14. r.result = "read" <=> end <= image.size /\ end + tail <= image.size
  <2> DEFINE whole_header == /\ ~(o + NEW_ASCII_HEADER_SIZE > image.size)
                             /\ ~(o + HeaderSize(f) > image.size)
             whole_member == ~(end > image.size) /\ ~(end + tail > image.size)
  <2> HIDE DEF r, end, tail, image, o, f, read
  <2>1. whole_member <=> end <= image.size /\ end + tail <= image.size BY <1>10
  <2>2. whole_member => whole_header BY <1>10
  <2>3. whole_header /\ whole_member => r.result = "read" BY <1>3, <1>6
  <2>4. ~(whole_header /\ whole_member) => r.result # "read" BY <1>3, <1>6
  <2> QED BY <2>1, <2>2, <2>3, <2>4
<1>11. r.result = "read" => r.file = read BY <1>6
<1>12. CASE j # n
  <2>1. ~is_end_marker(f) BY <1>12 DEF Ended
  <2>2. end - o = DataStart(f) + f.payload.size BY <1>10
  <2>3. tail = f.tail BY <1>4, <1>5, <2>1, <2>2, SamePadding
  <2>4. end + tail = Start(files, j) /\ end <= end + tail
    <3>1. tail = get_padding_needed(f.payload.size) BY <1>5, <2>3
    <3> HIDE DEF end, tail, f
    <3> QED BY <1>7, <1>10, <3>1
  <2>5. r.result = "read" <=> Start(files, j) <= image.size
    <3> HIDE DEF r, end, tail, image
    <3> QED BY <1>10, <1>14, <2>4
  <2>6. r.result = "read" => r.file = f BY <1>9, <1>11, <2>3
  <2>7. cut = 0 => Start(files, j) <= image.size BY <1>2, <1>3
  <2> QED BY <1>12, <2>5, <2>6, <2>7
<1>13. CASE j = n
  <2>1. is_end_marker(f) /\ f.payload.size = 0 BY <1>13 DEF Ended
  <2>2. get_padding_needed(0) = 0 BY DEF get_padding_needed
  <2>3. end = Start(files, n)
    <3> HIDE DEF end, f
    <3> QED BY <1>10, <1>13, <2>1, <2>2
  <2>4. r.result = "read" => cut = 0
    <3>1. end <= image.size => cut = 0 BY <1>2, <1>3, <2>3
    <3> QED BY <1>14, <3>1
  <2>5. ASSUME cut = 0
        PROVE  r.result = "read" /\ tail = f.tail /\ Start(files, n) <= image.size
    <3>1. image.size = Start(files, n) BY <1>2, <1>3, <2>5
    <3>2. tail = 0 /\ f.tail = 0 BY <1>3, <1>5, <2>1, <2>2, <2>3, <3>1
    <3> HIDE DEF r, end, tail, image, f
    <3> QED BY <1>3, <1>14, <2>3, <3>1, <3>2
  <2> QED BY <1>9, <1>11, <1>13, <2>4, <2>5
<1> QED BY <1>12, <1>13

\* Anywhere else there is no member.
LEMMA ReadElsewhere ==
  ASSUME NEW files, Ended(files), NEW cut \in Nat,
         NEW o, \A j \in 1 .. Len(files) : o # Start(files, j - 1)
  PROVE  ReadFile(CutShort(files, cut), o).result = "false"
<1>1. LaidOut(files, Len(files)) BY AllLaidOut, IsSequenceIs DEF Ended, AllLaid
<1>2. CutShort(files, cut).headers = Images(files)[Len(files)].headers
  BY <1>1 DEF LaidOut, CutShort
<1>3. o \notin DOMAIN CutShort(files, cut).headers BY <1>1, <1>2 DEF LaidOut
<1> QED BY <1>3 DEF ReadFile

\* What is read from an offset on, when what is read from later ones is known.
MembersAt(image, from, offset) ==
    LET r == ReadFile(image, offset) IN
    IF r.result # "read" THEN [result |-> r.result, files |-> <<>>]
    ELSE IF is_end_marker(r.file) THEN [result |-> "read", files |-> <<r.file>>]
    ELSE LET rest == from[offset + get_total_size(r.file)]
         IN [rest EXCEPT !.files = <<r.file>> \o @]

\* The members from each offset on that is not below one.
Reading(from, image, low) ==
    from = [offset \in low .. image.size |-> MembersAt(image, from, offset)]

\* Reading goes on, and not past the end.
Advances(image) ==
    \A offset \in 0 .. image.size :
        LET r == ReadFile(image, offset) IN
        r.result = "read" /\ ~is_end_marker(r.file) =>
           offset + get_total_size(r.file) \in offset + 1 .. image.size

LEMMA ReadingExists ==
  ASSUME NEW image, image.size \in Nat, Advances(image)
  PROVE  \E from : Reading(from, image, 0)
<1> DEFINE S == image.size
           T == {d \in Nat : d <= S + 1 => \E from : Reading(from, image, S + 1 - d)}
<1>1. 0 \in T
  <2> DEFINE g == [offset \in S + 1 .. S |-> <<>>]
  <2>1. S + 1 - 0 = S + 1 /\ S + 1 .. S = {} OBVIOUS
  <2>2. g = [offset \in S + 1 .. S |-> MembersAt(image, g, offset)]
    <3> HIDE DEF S
    <3> QED BY <2>1
  <2> HIDE DEF g
  <2> QED BY <2>1, <2>2 DEF Reading
<1>2. ASSUME NEW d \in Nat, d \in T PROVE d + 1 \in T
  <2> SUFFICES ASSUME d + 1 <= S + 1
               PROVE  \E from : Reading(from, image, S + 1 - (d + 1))
    OBVIOUS
  <2> DEFINE low == S - d
  <2>1. low \in 0 .. S /\ S + 1 - (d + 1) = low /\ S + 1 - d = low + 1 OBVIOUS
  <2>2. PICK h : Reading(h, image, low + 1) BY <1>2, <2>1
  <2> DEFINE g == [offset \in low .. S |->
                      IF offset = low THEN MembersAt(image, h, low) ELSE h[offset]]
  <2> HIDE DEF low
  <2>3. \A offset \in low + 1 .. S : g[offset] = h[offset] BY <2>1
  <2>4. \A offset \in low + 1 .. S : h[offset] = MembersAt(image, h, offset)
    BY <2>2 DEF Reading
  <2>5. ASSUME NEW offset \in low .. S
        PROVE  MembersAt(image, h, offset) = MembersAt(image, g, offset)
    <3> DEFINE r == ReadFile(image, offset)
    <3>1. CASE r.result = "read" /\ ~is_end_marker(r.file)
      <4>1. offset + get_total_size(r.file) \in offset + 1 .. S
        BY <2>1, <3>1 DEF Advances
      <4>2. offset + get_total_size(r.file) \in low + 1 .. S
        <5>1. offset \in Int /\ low <= offset /\ low \in Int BY <2>1
        <5> HIDE DEF S
        <5> QED BY <4>1, <5>1
      <4>3. h[offset + get_total_size(r.file)] = g[offset + get_total_size(r.file)]
        BY <2>3, <4>2
      <4> HIDE DEF g
      <4> QED BY <4>3 DEF MembersAt
    <3>2. CASE ~(r.result = "read" /\ ~is_end_marker(r.file)) BY <3>2 DEF MembersAt
    <3> QED BY <3>1, <3>2
  <2>6. \A offset \in low .. S : g[offset] = MembersAt(image, g, offset)
    <3>1. g[low] = MembersAt(image, h, low) /\ low \in low .. S BY <2>1
    <3> HIDE DEF g
    <3> QED BY <2>1, <2>3, <2>4, <2>5, <3>1
  <2>7. Reading(g, image, low)
    <3>1. g = [offset \in low .. S |-> g[offset]] OBVIOUS
    <3> HIDE DEF g
    <3> QED BY <2>6, <3>1 DEF Reading
  <2> HIDE DEF g
  <2> QED BY <2>1, <2>7
<1> HIDE DEF T
<1>3. Nat \subseteq T BY <1>1, <1>2, EveryNumber
<1>4. S + 1 \in T BY <1>3
<1>5. S + 1 - (S + 1) = 0 OBVIOUS
<1> QED BY <1>4, <1>5 DEF T

LEMMA MembersAre ==
  ASSUME NEW image, image.size \in Nat, Advances(image)
  PROVE  \A offset \in 0 .. image.size :
            MembersFrom(image)[offset] = MembersAt(image, MembersFrom(image), offset)
<1>1. \E from : Reading(from, image, 0) BY ReadingExists
<1>2. MembersFrom(image) = CHOOSE from : Reading(from, image, 0)
  BY DEF MembersFrom, Reading, MembersAt
<1>3. Reading(MembersFrom(image), image, 0) BY <1>1, <1>2
<1> QED BY <1>3 DEF Reading

\* There is no member that reaches past the end.
LEMMA CutShortAdvances ==
  ASSUME NEW files, Ended(files), NEW cut \in Nat, cut <= Start(files, Len(files))
  PROVE  LET image == CutShort(files, cut) IN
         /\ image.size = Start(files, Len(files)) - cut /\ image.size \in Nat
         /\ Advances(image)
<1> DEFINE image == CutShort(files, cut)
           n == Len(files)
<1>1. LaidOut(files, n) /\ n \in Nat
  BY AllLaidOut, IsSequenceIs DEF Ended, AllLaid
<1>2. image.size = Start(files, n) - cut BY <1>1 DEF LaidOut, CutShort, Start
<1>3. Start(files, n) \in Nat BY <1>1 DEF LaidOut
<1>4. image.size \in Nat BY <1>2, <1>3
<1>5. ASSUME NEW o \in 0 .. image.size, ReadFile(image, o).result = "read"
      PROVE  o + get_total_size(ReadFile(image, o).file) \in o + 1 .. image.size
  <2>1. PICK j \in 1 .. n : o = Start(files, j - 1)
    BY <1>5, ReadElsewhere
  <2>2. ReadFile(image, o).file = files[j] /\ Start(files, j) <= image.size
    BY <1>5, <2>1, ReadAtStart
  <2>3. Start(files, j) = o + get_total_size(files[j]) BY <1>1, <2>1 DEF LaidOut
  <2>4. get_total_size(files[j]) \in Nat /\ 0 < get_total_size(files[j])
    BY MemberSize DEF Ended, AllLaid
  <2> HIDE DEF image
  <2> QED BY <1>4, <2>2, <2>3, <2>4
<1> HIDE DEF image
<1>6. Advances(image) BY <1>5 DEF Advances
<1> QED BY <1>2, <1>4, <1>6 DEF image

IsRest(s, files, j) ==
    /\ IsSequence(s) /\ Len(s) = Len(files) - j + 1
    /\ \A i \in 1 .. Len(s) : s[i] = files[j + i - 1]

\* What reading comes to at the j-th member: all members from there on when the
\* image is whole, and nothing when it is not.
ComesTo(r, files, cut, j) ==
    /\ r = [result |-> r.result, files |-> r.files]
    /\ IF cut = 0 THEN r.result = "read" /\ IsRest(r.files, files, j) ELSE r.result # "read"

LEMMA ReadingComesTo ==
  ASSUME NEW files, Ended(files), NEW cut \in Nat, cut <= Start(files, Len(files))
  PROVE  LET image == CutShort(files, cut) IN
         \A j \in 1 .. Len(files) :
            Start(files, j - 1) <= image.size =>
               ComesTo(MembersFrom(image)[Start(files, j - 1)], files, cut, j)
<1> DEFINE image == CutShort(files, cut)
           n == Len(files)
           S(j) == Start(files, j)
           M == MembersFrom(image)
           r(j) == ReadFile(image, S(j - 1))
           Claim(j) == S(j - 1) <= image.size => ComesTo(M[S(j - 1)], files, cut, j)
           T == {d \in Nat : d < n => Claim(n - d)}
<1>1. LaidOut(files, n) /\ n \in Nat \ {0} /\ IsSequence(files)
  BY AllLaidOut, IsSequenceIs DEF Ended, AllLaid
<1>2. image.size \in Nat /\ image.size = S(n) - cut /\ Advances(image) BY CutShortAdvances
<1>3. ASSUME NEW j \in 1 .. n
      PROVE  /\ S(j - 1) \in Nat /\ S(j) = S(j - 1) + get_total_size(files[j])
             /\ S(j) \in Nat /\ S(j) <= S(n)
  BY <1>1 DEF LaidOut
<1>4. ASSUME NEW j \in 1 .. n, S(j - 1) <= image.size
      PROVE  M[S(j - 1)] = MembersAt(image, M, S(j - 1))
  <2>1. S(j - 1) \in 0 .. image.size BY <1>2, <1>3, <1>4
  <2> HIDE DEF image, S
  <2> QED BY <1>2, <2>1, MembersAre
<1>5. ASSUME NEW j \in 1 .. n
      PROVE  /\ r(j).result = "read" =>
                   /\ r(j).file = files[j] /\ S(j) <= image.size
                   /\ j = n => cut = 0
             /\ cut = 0 => r(j).result = "read"
             /\ is_end_marker(files[j]) <=> j = n
  BY ReadAtStart DEF Ended
<1>6. ASSUME NEW j \in 1 .. n, j < n => Claim(j + 1) PROVE Claim(j)
  <2> SUFFICES ASSUME S(j - 1) <= image.size
               PROVE  ComesTo(M[S(j - 1)], files, cut, j)
    OBVIOUS
  <2> HIDE DEF image, S, M
  <2>1. M[S(j - 1)] = MembersAt(image, M, S(j - 1)) BY <1>4
  <2>2. CASE r(j).result # "read"
    <3>1. M[S(j - 1)] = [result |-> r(j).result, files |-> <<>>] BY <2>1, <2>2 DEF MembersAt
    <3>2. cut # 0 BY <1>5, <2>2
    <3> HIDE DEF r
    <3> QED BY <2>2, <3>1, <3>2 DEF ComesTo
  <2>3. CASE r(j).result = "read" /\ j = n
    <3>1. r(j).file = files[j] /\ cut = 0 /\ is_end_marker(files[j]) BY <1>5, <2>3
    <3>2. M[S(j - 1)] = [result |-> "read", files |-> <<files[j]>>]
      BY <2>1, <2>3, <3>1 DEF MembersAt
    <3>3. IsRest(<<files[j]>>, files, j)
      <4>1. IsSequence(<<files[j]>>) /\ Len(<<files[j]>>) = 1 BY DEF IsSequence
      <4>2. n - j + 1 = 1 /\ j + 1 - 1 = j BY <1>1, <2>3
      <4>3. \A i \in 1 .. 1 : <<files[j]>>[i] = files[j + i - 1] BY <4>2
      <4> QED BY <4>1, <4>2, <4>3 DEF IsRest
    <3> QED BY <3>1, <3>2, <3>3 DEF ComesTo
  <2>4. CASE r(j).result = "read" /\ j # n
    <3>1. /\ r(j).file = files[j] /\ S(j) <= image.size /\ ~is_end_marker(files[j])
          /\ S(j) = S(j - 1) + get_total_size(files[j])
      BY <1>3, <1>5, <2>4
    <3> DEFINE rest == M[S(j)]
    <3>2. M[S(j - 1)] = [rest EXCEPT !.files = <<files[j]>> \o @]
      BY <2>1, <2>4, <3>1 DEF MembersAt
    <3>3. ComesTo(rest, files, cut, j + 1)
      <4>1. Claim(j + 1) /\ (j + 1) - 1 = j BY <1>1, <1>6, <2>4
      <4> QED BY <3>1, <4>1
    <3>4. rest = [result |-> rest.result, files |-> rest.files] BY <3>3 DEF ComesTo
    <3> HIDE DEF rest
    <3>5. M[S(j - 1)] = [result |-> rest.result, files |-> <<files[j]>> \o rest.files]
      BY <3>2, <3>4
    <3>6. CASE cut # 0 BY <3>3, <3>5, <3>6 DEF ComesTo
    <3>7. CASE cut = 0
      <4> DEFINE s == rest.files
                 t == <<files[j]>> \o s
      <4>1. rest.result = "read" /\ IsRest(s, files, j + 1) BY <3>3, <3>7 DEF ComesTo
      <4>2. /\ IsSequence(t) /\ Len(t) = Len(s) + 1 /\ t[1] = files[j]
            /\ \A k \in 1 .. Len(s) : t[k + 1] = s[k]
        BY <4>1, PrependIs DEF IsRest
      <4>3. Len(s) = n - (j + 1) + 1 /\ Len(s) \in Nat /\ n \in Nat /\ j \in Nat
        BY <1>1, <4>1, IsSequenceIs DEF IsRest
      <4>4. ASSUME NEW i \in 1 .. Len(t) PROVE t[i] = files[j + i - 1]
        <5>1. CASE i = 1 BY <4>2, <4>3, <5>1
        <5>2. CASE i # 1
          <6>1. i - 1 \in 1 .. Len(s) /\ (i - 1) + 1 = i BY <4>2, <4>3, <5>2
          <6>2. t[i] = s[i - 1] BY <4>2, <6>1
          <6>3. s[i - 1] = files[(j + 1) + (i - 1) - 1] BY <4>1, <6>1 DEF IsRest
          <6>4. (j + 1) + (i - 1) - 1 = j + i - 1 BY <4>3, <6>1
          <6> QED BY <6>2, <6>3, <6>4
        <5> QED BY <5>1, <5>2
      <4>5. Len(t) = n - j + 1 BY <4>2, <4>3
      <4>6. IsRest(t, files, j) BY <4>2, <4>4, <4>5 DEF IsRest
      <4> QED BY <3>5, <3>7, <4>1, <4>6 DEF ComesTo
    <3> QED BY <3>6, <3>7
  <2> QED BY <2>2, <2>3, <2>4
<1> HIDE DEF Claim
<1>7. 0 \in T
  <2>1. n - 0 = n /\ n \in 1 .. n BY <1>1
  <2> QED BY <1>6, <2>1
<1>8. ASSUME NEW d \in Nat, d \in T PROVE d + 1 \in T
  <2> SUFFICES ASSUME d + 1 < n PROVE Claim(n - (d + 1)) OBVIOUS
  <2>1. n - (d + 1) \in 1 .. n /\ (n - (d + 1)) + 1 = n - d /\ d < n BY <1>1
  <2>2. Claim(n - d) BY <1>8, <2>1
  <2> QED BY <1>6, <2>1, <2>2
<1> HIDE DEF T
<1>9. Nat \subseteq T BY <1>7, <1>8, EveryNumber
<1>10. ASSUME NEW j \in 1 .. n PROVE Claim(j)
  <2>1. n - j \in Nat /\ n - j < n /\ n - (n - j) = j BY <1>1
  <2>2. n - j \in T BY <1>9, <2>1
  <2> QED BY <2>1, <2>2 DEF T
<1> QED BY <1>10 DEF Claim

-----------------------------------------------------------------------------
(* Archives.                                                               *)

IsArchive(a) ==
    /\ a = [m_format |-> "new_ascii", m_files |-> a.m_files,
            m_payload_reader_map |-> a.m_payload_reader_map]
    /\ a.m_format = "new_ascii" /\ AllLaid(a.m_files)
    /\ \A k \in 1 .. Len(a.m_files) : a.m_files[k].name # TRAILER_NAME

AsRead(files) ==
    [m_format |-> "new_ascii", m_files |-> files, m_payload_reader_map |-> LastPayloads(files)]

LEMMA TrailerLaid == Laid(Trailer("new_ascii"))
BY RecompressAssumption DEF Trailer, Laid, CpioFile, WithPayload

LEMMA TrailerEnds ==
  ASSUME NEW a, IsArchive(a)
  PROVE  LET all == WithTrailer(a) IN
         /\ Ended(all) /\ Len(all) = Len(a.m_files) + 1
         /\ \A k \in 1 .. Len(a.m_files) : all[k] = a.m_files[k]
<1> DEFINE all == WithTrailer(a)
           n == Len(a.m_files)
<1>1. /\ IsSequence(all) /\ Len(all) = n + 1 /\ n \in Nat
      /\ \A k \in 1 .. n : all[k] = a.m_files[k]
      /\ all[n + 1] = Trailer("new_ascii")
  BY AppendIs, IsSequenceIs DEF IsArchive, AllLaid, WithTrailer
<1>2. Trailer("new_ascii").name = TRAILER_NAME /\ Trailer("new_ascii").payload = Empty
  BY DEF Trailer, CpioFile, WithPayload
<1>3. ASSUME NEW k \in 1 .. n + 1
      PROVE  Laid(all[k]) /\ (is_end_marker(all[k]) <=> k = n + 1)
  <2>1. CASE k = n + 1 BY <1>1, <1>2, <2>1, TrailerLaid DEF is_end_marker
  <2>2. CASE k # n + 1
    <3>1. k \in 1 .. n BY <1>1, <2>2
    <3> QED BY <1>1, <2>2, <3>1 DEF IsArchive, AllLaid, is_end_marker
  <2> QED BY <2>1, <2>2
<1>4. all[n + 1].payload.size = 0 BY <1>1, <1>2, RecompressAssumption
<1> HIDE DEF all
<1>5. Ended(all) BY <1>1, <1>3, <1>4 DEF Ended, AllLaid
<1> QED BY <1>1, <1>5 DEF all

\* An archive that was written is read as it was, with the last payload of each
\* name; if its end is missing it is not read.
THEOREM RoundTrip ==
  ASSUME NEW a, IsArchive(a), NEW cut \in Nat, cut <= Written(a).size
  PROVE  LET image == [Written(a) EXCEPT !.size = @ - cut] IN
         IF cut = 0 THEN TryRead(image) = [result |-> "read", archive |-> AsRead(a.m_files)]
                    ELSE TryRead(image).result # "read"
<1> DEFINE all == WithTrailer(a)
           n == Len(all)
           image == CutShort(all, cut)
           r == MembersFrom(image)[0]
           files == a.m_files
<1>1. Ended(all) /\ Len(all) = Len(files) + 1 /\ \A k \in 1 .. Len(files) : all[k] = files[k]
  BY TrailerEnds
<1>2. image = [Written(a) EXCEPT !.size = @ - cut] BY DEF Written, CutShort
<1>3. cut <= Start(all, n) BY DEF Written, Start
<1>4. n \in Nat /\ 1 \in 1 .. n /\ Start(all, 0) = 0 /\ IsSequence(all)
  BY <1>1, NothingLaidOut, IsSequenceIs DEF Ended, AllLaid
<1>5. image.size \in Nat BY <1>1, <1>3, CutShortAdvances
<1>6. ComesTo(r, all, cut, 1)
  <2>1. Start(all, 1 - 1) = 0 /\ 0 <= image.size BY <1>4, <1>5
  <2>2. Start(all, 1 - 1) <= image.size =>
          ComesTo(MembersFrom(image)[Start(all, 1 - 1)], all, cut, 1)
    BY <1>1, <1>3, <1>4, ReadingComesTo
  <2> QED BY <2>1, <2>2
<1> HIDE DEF r
<1>7. CASE cut # 0 BY <1>2, <1>6, <1>7 DEF ComesTo, TryRead, r
<1>8. CASE cut = 0
  <2>1. r.result = "read" /\ IsRest(r.files, all, 1) BY <1>6, <1>8 DEF ComesTo
  <2>2. /\ IsSequence(r.files) /\ Len(r.files) = n
        /\ \A i \in 1 .. n : r.files[i] = all[i]
    <3>1. n - 1 + 1 = n /\ \A i \in 1 .. n : 1 + i - 1 = i BY <1>4
    <3> QED BY <2>1, <3>1 DEF IsRest
  <2>3. r.files = all BY <1>4, <2>2, SameSequence
  <2>4. Front(all) = files
    <3>1. /\ IsSequence(Front(all)) /\ Len(Front(all)) = n - 1
          /\ \A k \in 1 .. n - 1 : Front(all)[k] = all[k]
      BY <1>4, FrontIs
    <3>2. n - 1 = Len(files) /\ IsSequence(files)
      BY <1>1, IsSequenceIs DEF IsArchive, AllLaid
    <3> HIDE DEF n, all
    <3> QED BY <1>1, <3>1, <3>2, SameSequence
  <2>5. \A k \in 1 .. n : all[k].format = "new_ascii"
    <3> TAKE k \in 1 .. n
    <3>1. Laid(all[k]) BY <1>1 DEF Ended, AllLaid
    <3> QED BY <3>1, LaidIs
  <2>6. DOMAIN all = 1 .. n BY <1>4, IsSequenceIs
  <2> HIDE DEF n, all
  <2>7. TryRead(image) = [result |-> "read", archive |-> AsRead(files)]
    BY <1>4, <2>1, <2>3, <2>4, <2>5, <2>6 DEF TryRead, AsRead, r
  <2> QED BY <1>2, <1>8, <2>7
<1> QED BY <1>7, <1>8

\* A member in the format that all of them have.
Member(name, inode, payload, filesize, tail) ==
    [name |-> name, namesize |-> NameLength(name) + 1, ino |-> inode,
     format |-> "new_ascii", filesize |-> filesize, check |-> 0,
     payload |-> payload, tail |-> tail]

LEMMA MemberWithPayload ==
  ASSUME NEW name, NEW inode, NEW q, NEW size, NEW tail, NEW p,
         NEW f, f = Member(name, inode, q, size, tail), NEW g, g = WithPayload(f, p)
  PROVE  g = Member(name, inode, p, p.size % Word, get_padding_needed(p.size))
<1>1. f.format = "new_ascii" BY DEF Member
<1>2. g = [f EXCEPT !.payload = p, !.filesize = p.size % Word, !.check = f.check,
                    !.tail = get_padding_needed(p.size)]
  BY <1>1 DEF WithPayload
<1> QED BY <1>2 DEF Member

\* Another payload keeps a member laid out.
LEMMA WithPayloadIs ==
  ASSUME NEW f, Laid(f), NEW p, IsPayload(p)
  PROVE  LET g == WithPayload(f, p) IN Laid(g) /\ g.name = f.name /\ g.payload = p
<1> DEFINE g == WithPayload(f, p)
           laid == Member(f.name, f.ino, p, p.size % Word, get_padding_needed(p.size))
<1>1. f = Member(f.name, f.ino, f.payload, f.payload.size,
                 get_padding_needed(f.payload.size))
  BY LaidIs DEF Member
<1>2. g = laid BY <1>1, MemberWithPayload
<1>3. CpioFile(f.name, f.ino, "new_ascii", p) = laid
  <2>1. CpioFile(f.name, f.ino, "new_ascii", p)
          = WithPayload(Member(f.name, f.ino, p, 0, 0), p)
    BY DEF CpioFile, Member
  <2> QED BY <2>1, MemberWithPayload
<1>4. laid.name = f.name /\ laid.ino = f.ino /\ laid.payload = p BY DEF Member
<1> HIDE DEF g, laid
<1>5. Laid(g) BY <1>2, <1>3, <1>4 DEF Laid
<1> QED BY <1>2, <1>4, <1>5 DEF g

\* Giving a name another payload changes that of its members, and no other.
LEMMA SetPayloadIs ==
  ASSUME NEW a, IsArchive(a), NEW name, NEW p, IsPayload(p)
  PROVE  LET b == set_payload_reader(a, name, p) IN
         /\ IsArchive(b) /\ Len(b.m_files) = Len(a.m_files)
         /\ \A k \in 1 .. Len(a.m_files) :
               /\ b.m_files[k].name = a.m_files[k].name
               /\ b.m_files[k].payload = IF a.m_files[k].name = name
                                         THEN p ELSE a.m_files[k].payload
         /\ \A n : n # name => get_payload_reader(b, n) = get_payload_reader(a, n)
<1> DEFINE b == set_payload_reader(a, name, p)
           n == Len(a.m_files)
<1>1. /\ n \in Nat /\ DOMAIN a.m_files = 1 .. n /\ IsSequence(a.m_files)
      /\ \A k \in 1 .. n : Laid(a.m_files[k]) /\ a.m_files[k].name # TRAILER_NAME
  BY IsSequenceIs DEF IsArchive, AllLaid
<1>2. CASE name \notin Names(a)
  <2>1. b = a BY <1>2 DEF set_payload_reader
  <2>2. \A k \in 1 .. n : a.m_files[k].name # name BY <1>1, <1>2 DEF Names
  <2> QED BY <2>1, <2>2
<1>3. CASE name \in Names(a)
  <2> DEFINE files == [k \in 1 .. n |-> IF a.m_files[k].name = name
                                        THEN WithPayload(a.m_files[k], p)
                                        ELSE a.m_files[k]]
             map == [m \in DOMAIN a.m_payload_reader_map \union {name} |->
                       IF m = name THEN p ELSE a.m_payload_reader_map[m]]
  <2>1. b = [a EXCEPT !.m_files = files, !.m_payload_reader_map = map]
    BY <1>1, <1>3 DEF set_payload_reader
  <2>2. b = [m_format |-> "new_ascii", m_files |-> files, m_payload_reader_map |-> map]
    <3>1. PICK x, y : a = [m_format |-> "new_ascii", m_files |-> x,
                           m_payload_reader_map |-> y]
      BY DEF IsArchive
    <3> HIDE DEF b, files, map
    <3> QED BY <2>1, <3>1
  <2>3. ASSUME NEW k \in 1 .. n
        PROVE  /\ Laid(files[k]) /\ files[k].name = a.m_files[k].name
               /\ files[k].payload = IF a.m_files[k].name = name
                                     THEN p ELSE a.m_files[k].payload
    BY <1>1, WithPayloadIs
  <2>4. \A m : m # name => get_payload_reader(b, m) = get_payload_reader(a, m)
    <3>1. b.m_payload_reader_map = map BY <2>2
    <3> HIDE DEF b
    <3> QED BY <3>1 DEF get_payload_reader
  <2>5. IsSequence(files) /\ Len(files) = n
    <3>1. files = [k \in 1 .. n |-> files[k]] OBVIOUS
    <3> HIDE DEF files
    <3> QED BY <1>1, <3>1, SequenceIs
  <2>6. b.m_format = "new_ascii" /\ b.m_files = files /\ b.m_payload_reader_map = map
    BY <2>2
  <2>7. IsArchive(b)
    <3> HIDE DEF b, files, map, n
    <3> QED BY <1>1, <2>2, <2>3, <2>5, <2>6 DEF IsArchive, AllLaid
  <2> HIDE DEF b, files, map, n
  <2> QED BY <2>3, <2>4, <2>5, <2>6, <2>7 DEF b, n
<1> QED BY <1>2, <1>3

\* A name's payload is the payload of one of its members.
LEMMA LastPayloadsAre ==
  ASSUME NEW files, IsSequence(files)
  PROVE  /\ DOMAIN LastPayloads(files) = {files[k].name : k \in 1 .. Len(files)}
         /\ \A k \in 1 .. Len(files) : \E i \in 1 .. Len(files) :
               /\ files[i].name = files[k].name
               /\ LastPayloads(files)[files[k].name] = files[i].payload
<1> DEFINE n == Len(files)
           IsLast(name, i) == /\ files[i].name = name
                            /\ \A j \in 1 .. n : files[j].name = name => j <= i
<1>1. n \in Nat /\ DOMAIN files = 1 .. n BY IsSequenceIs
<1>2. LastPayloads(files) = [m \in {files[k].name : k \in 1 .. n} |->
                               files[CHOOSE i \in 1 .. n : IsLast(m, i)].payload]
  BY <1>1 DEF LastPayloads
<1>3. ASSUME NEW k \in 1 .. n PROVE \E i \in 1 .. n : IsLast(files[k].name, i)
  <2> DEFINE T == {n - i : i \in {j \in 1 .. n : files[j].name = files[k].name}}
  <2>1. T \subseteq Nat /\ T # {} BY <1>1
  <2>2. PICK m \in T : \A l \in T : m <= l BY <2>1, LeastNumber
  <2>3. PICK i \in 1 .. n : m = n - i /\ files[i].name = files[k].name BY <2>2
  <2>4. \A j \in 1 .. n : files[j].name = files[k].name => n - i <= n - j BY <2>2, <2>3
  <2>5. \A j \in 1 .. n : files[j].name = files[k].name => j <= i BY <1>1, <2>4
  <2> QED BY <2>3, <2>5
<1>4. ASSUME NEW k \in 1 .. n
      PROVE  \E i \in 1 .. n : /\ files[i].name = files[k].name
                               /\ LastPayloads(files)[files[k].name] = files[i].payload
  <2> DEFINE i == CHOOSE j \in 1 .. n : IsLast(files[k].name, j)
  <2>1. i \in 1 .. n /\ IsLast(files[k].name, i) BY <1>3
  <2>2. LastPayloads(files)[files[k].name] = files[i].payload BY <1>2
  <2> QED BY <2>1, <2>2
<1> QED BY <1>2, <1>4

-----------------------------------------------------------------------------
(* Members that go.                                                        *)

Leaving(left, files, name, n) ==
    left = [k \in 0 .. n |->
              IF k = 0 THEN <<>>
              ELSE IF files[k].name = name THEN left[k - 1]
              ELSE Append(left[k - 1], files[k])]

LEMMA LeavingExists ==
  ASSUME NEW files, NEW name
  PROVE  \A n \in Nat : \E left : Leaving(left, files, name, n)
<1> DEFINE After(was, k) == IF files[k].name = name THEN was ELSE Append(was, files[k])
           T == {n \in Nat : \E left : Leaving(left, files, name, n)}
<1>1. 0 \in T
  <2> DEFINE g == [k \in 0 .. 0 |-> <<>>]
  <2>1. Leaving(g, files, name, 0) BY DEF Leaving
  <2> QED BY <2>1
<1>2. ASSUME NEW n \in Nat, n \in T PROVE n + 1 \in T
  <2>1. PICK f : Leaving(f, files, name, n) BY <1>2
  <2> DEFINE g == [k \in 0 .. n + 1 |-> IF k = n + 1 THEN After(f[n], n + 1) ELSE f[k]]
  <2>2. \A k \in 0 .. n : f[k] = IF k = 0 THEN <<>> ELSE After(f[k - 1], k)
    BY <2>1 DEF Leaving
  <2> HIDE DEF After
  <2>3. \A k \in 0 .. n : g[k] = f[k] OBVIOUS
  <2>4. ASSUME NEW k \in 0 .. n + 1
        PROVE  g[k] = IF k = 0 THEN <<>> ELSE After(g[k - 1], k)
    <3>1. CASE k = n + 1
      <4>1. g[k] = After(f[n], k) BY <3>1
      <4>2. k - 1 = n /\ k # 0 BY <3>1
      <4>3. g[k - 1] = f[n] BY <2>3, <4>2
      <4> QED BY <4>1, <4>2, <4>3
    <3>2. CASE k # n + 1
      <4>1. k \in 0 .. n BY <3>2
      <4>2. CASE k = 0 BY <2>2, <2>3, <4>1, <4>2
      <4>3. CASE k # 0
        <5>1. k - 1 \in 0 .. n BY <4>1, <4>3
        <5> QED BY <2>2, <2>3, <4>1, <4>3, <5>1
      <4> QED BY <4>2, <4>3
    <3> QED BY <3>1, <3>2
  <2>5. Leaving(g, files, name, n + 1)
    <3> HIDE DEF g
    <3>1. g = [k \in 0 .. n + 1 |-> g[k]] BY DEF g
    <3>2. g = [k \in 0 .. n + 1 |-> IF k = 0 THEN <<>> ELSE After(g[k - 1], k)]
      BY <2>4, <3>1
    <3> QED BY <3>2 DEF Leaving, After
  <2> HIDE DEF g
  <2> QED BY <2>5
<1> HIDE DEF T
<1>3. Nat \subseteq T BY <1>1, <1>2, EveryNumber
<1> QED BY <1>3 DEF T

LEMMA WithoutIs ==
  ASSUME NEW files, Len(files) \in Nat, NEW name
  PROVE  LET left == Without(files, name) IN
         /\ left[0] = <<>>
         /\ \A k \in 1 .. Len(files) :
               left[k] = IF files[k].name = name THEN left[k - 1]
                         ELSE Append(left[k - 1], files[k])
<1>1. \E left : Leaving(left, files, name, Len(files)) BY LeavingExists
<1>2. Without(files, name) = CHOOSE left : Leaving(left, files, name, Len(files))
  BY DEF Without, Leaving
<1>3. Leaving(Without(files, name), files, name, Len(files)) BY <1>1, <1>2
<1> DEFINE left == Without(files, name)
<1>4. 0 \in 0 .. Len(files) /\ \A k \in 1 .. Len(files) : k \in 0 .. Len(files) /\ k # 0
  OBVIOUS
<1> HIDE DEF left
<1>5. \A k \in 0 .. Len(files) :
         left[k] = IF k = 0 THEN <<>>
                   ELSE IF files[k].name = name THEN left[k - 1]
                   ELSE Append(left[k - 1], files[k])
  BY <1>3 DEF Leaving, left
<1> QED BY <1>4, <1>5 DEF left

\* When two sequences have the same names in the same order, what is left of them
\* comes from the same places, and from all of them that are of another name.
Parallel(s, t, ls, lt, name, n) ==
    /\ IsSequence(ls) /\ IsSequence(lt) /\ Len(ls) = Len(lt)
    /\ \A i \in 1 .. Len(ls) : \E j \in 1 .. n :
          ls[i] = s[j] /\ lt[i] = t[j] /\ s[j].name # name
    /\ \A j \in 1 .. n : s[j].name # name =>
          \E i \in 1 .. Len(ls) : ls[i] = s[j] /\ lt[i] = t[j]

LEMMA WithoutParallel ==
  ASSUME NEW s, NEW t, NEW name, IsSequence(s), IsSequence(t), Len(s) = Len(t),
         \A k \in 1 .. Len(s) : s[k].name = t[k].name
  PROVE  Parallel(s, t, Without(s, name)[Len(s)], Without(t, name)[Len(t)], name, Len(s))
<1> DEFINE ls == Without(s, name)
           lt == Without(t, name)
           T == {n \in Nat : n <= Len(s) => Parallel(s, t, ls[n], lt[n], name, n)}
<1>1. Len(s) \in Nat BY IsSequenceIs
<1>2. /\ ls[0] = <<>> /\ lt[0] = <<>>
      /\ \A k \in 1 .. Len(s) :
            /\ ls[k] = IF s[k].name = name THEN ls[k - 1] ELSE Append(ls[k - 1], s[k])
            /\ lt[k] = IF s[k].name = name THEN lt[k - 1] ELSE Append(lt[k - 1], t[k])
  BY <1>1, WithoutIs
<1> HIDE DEF ls, lt
<1>3. 0 \in T BY <1>2 DEF Parallel, IsSequence
<1>4. ASSUME NEW n \in Nat, n \in T PROVE n + 1 \in T
  <2> SUFFICES ASSUME n + 1 <= Len(s)
               PROVE  Parallel(s, t, ls[n + 1], lt[n + 1], name, n + 1)
    OBVIOUS
  <2> DEFINE k == n + 1
             u == ls[n]
             v == lt[n]
  <2>1. k \in 1 .. Len(s) /\ k - 1 = n /\ Parallel(s, t, u, v, name, n) BY <1>1, <1>4
  <2>2. 1 .. k = 1 .. n \union {k} BY <2>1
  <2>3. CASE s[k].name = name
    <3>1. ls[k] = u /\ lt[k] = v BY <1>2, <2>1, <2>3
    <3> HIDE DEF k, u, v
    <3>2. Parallel(s, t, u, v, name, k) BY <2>1, <2>2, <2>3 DEF Parallel
    <3> QED BY <3>1, <3>2 DEF k
  <2>4. CASE s[k].name # name
    <3>1. ls[k] = Append(u, s[k]) /\ lt[k] = Append(v, t[k]) BY <1>2, <2>1, <2>4
    <3> HIDE DEF k, u, v
    <3> DEFINE x == Append(u, s[k])
               y == Append(v, t[k])
               m == Len(u)
    <3>2. /\ IsSequence(x) /\ Len(x) = m + 1 /\ x[m + 1] = s[k]
          /\ \A i \in 1 .. m : x[i] = u[i]
          /\ IsSequence(y) /\ Len(y) = m + 1 /\ y[m + 1] = t[k]
          /\ \A i \in 1 .. m : y[i] = v[i]
          /\ m \in Nat
      BY <2>1, AppendIs, IsSequenceIs DEF Parallel
    <3>3. 1 .. m + 1 = 1 .. m \union {m + 1} BY <3>2
    <3> HIDE DEF x, y, m
    <3>4. ASSUME NEW i \in 1 .. m + 1
          PROVE  \E j \in 1 .. k : x[i] = s[j] /\ y[i] = t[j] /\ s[j].name # name
      <4>1. CASE i = m + 1 BY <2>2, <2>4, <3>2, <4>1
      <4>2. CASE i \in 1 .. m
        <5>1. PICK j \in 1 .. n : u[i] = s[j] /\ v[i] = t[j] /\ s[j].name # name
          BY <2>1, <4>2 DEF Parallel, m
        <5>2. j \in 1 .. k BY <2>2
        <5> QED BY <3>2, <4>2, <5>1, <5>2
      <4> QED BY <3>3, <4>1, <4>2
    <3>5. ASSUME NEW j \in 1 .. k, s[j].name # name
          PROVE  \E i \in 1 .. m + 1 : x[i] = s[j] /\ y[i] = t[j]
      <4>1. CASE j = k BY <3>2, <3>3, <4>1
      <4>2. CASE j \in 1 .. n
        <5>1. PICK i \in 1 .. m : u[i] = s[j] /\ v[i] = t[j]
          BY <2>1, <3>5, <4>2 DEF Parallel, m
        <5> QED BY <3>2, <3>3, <5>1
      <4> QED BY <2>2, <4>1, <4>2
    <3>6. Parallel(s, t, x, y, name, k) BY <3>2, <3>4, <3>5 DEF Parallel
    <3> QED BY <3>1, <3>6 DEF x, y, k
  <2> QED BY <2>3, <2>4
<1> HIDE DEF T
<1>5. Nat \subseteq T BY <1>3, <1>4, EveryNumber
<1> QED BY <1>1, <1>5 DEF T, ls, lt

-----------------------------------------------------------------------------
(* The update that is read.                                                *)

LEMMA CpioFileIs ==
  ASSUME NEW name, NameLength(name) \in Nat, NEW inode, NEW p, IsPayload(p)
  PROVE  LET f == CpioFile(name, inode, "new_ascii", p) IN
         Laid(f) /\ f.name = name /\ f.payload = p
<1> DEFINE f == CpioFile(name, inode, "new_ascii", p)
           laid == Member(name, inode, p, p.size % Word, get_padding_needed(p.size))
<1>1. f = WithPayload(Member(name, inode, p, 0, 0), p) BY DEF CpioFile, Member
<1>2. f = laid BY <1>1, MemberWithPayload
<1>3. laid.name = name /\ laid.ino = inode /\ laid.payload = p BY DEF Member
<1>4. f.name = name /\ f.ino = inode /\ f.payload = p BY <1>2, <1>3
<1>5. f = CpioFile(f.name, f.ino, "new_ascii", f.payload) BY <1>4
<1> HIDE DEF f
<1>6. Laid(f) BY <1>4, <1>5 DEF Laid
<1> QED BY <1>4, <1>6 DEF f

LEMMA AddFileIs ==
  ASSUME NEW a, IsArchive(a), NEW name, NameLength(name) \in Nat, name # TRAILER_NAME,
         NEW p, IsPayload(p)
  PROVE  LET b == add_file(a, name, 1, p)
             n == Len(a.m_files)
         IN /\ IsArchive(b) /\ Len(b.m_files) = n + 1
            /\ \A k \in 1 .. n : b.m_files[k] = a.m_files[k]
            /\ b.m_files[n + 1].name = name /\ b.m_files[n + 1].payload = p
<1> DEFINE b == add_file(a, name, 1, p)
           n == Len(a.m_files)
           f == CpioFile(name, 1, "new_ascii", p)
           files == Append(a.m_files, f)
<1>1. Laid(f) /\ f.name = name /\ f.payload = p BY CpioFileIs
<1> HIDE DEF f
<1>2. /\ IsSequence(files) /\ Len(files) = n + 1 /\ n \in Nat
      /\ \A k \in 1 .. n : files[k] = a.m_files[k]
      /\ files[n + 1] = f
  BY AppendIs, IsSequenceIs DEF IsArchive, AllLaid
<1>3. b = [a EXCEPT !.m_files = files]
  <2>1. a.m_format = "new_ascii" BY DEF IsArchive
  <2> QED BY <2>1 DEF add_file, f
<1> HIDE DEF files, b
<1>4. PICK x, y : a = [m_format |-> "new_ascii", m_files |-> x, m_payload_reader_map |-> y]
  BY DEF IsArchive
<1>5. b = [m_format |-> "new_ascii", m_files |-> files, m_payload_reader_map |-> y]
  BY <1>3, <1>4
<1>6. /\ b.m_format = "new_ascii" /\ b.m_files = files
      /\ b = [m_format |-> "new_ascii", m_files |-> b.m_files,
              m_payload_reader_map |-> b.m_payload_reader_map]
  BY <1>5
<1>7. ASSUME NEW k \in 1 .. n + 1 PROVE Laid(files[k]) /\ files[k].name # TRAILER_NAME
  <2>1. CASE k = n + 1 BY <1>1, <1>2, <2>1
  <2>2. CASE k \in 1 .. n BY <1>2, <2>2 DEF IsArchive, AllLaid
  <2> QED BY <1>2, <2>1, <2>2
<1>8. IsArchive(b) BY <1>2, <1>6, <1>7 DEF IsArchive, AllLaid
<1> QED BY <1>1, <1>2, <1>6, <1>8 DEF b

Archiving(archived, update, n) ==
    archived = [k \in 0 .. n |->
                  IF k = 0 THEN NewArchive("new_ascii")
                  ELSE add_file(archived[k - 1], update[k].name, 1, update[k].payload)]

LEMMA ArchivingExists ==
  ASSUME NEW update
  PROVE  \A n \in Nat : \E archived : Archiving(archived, update, n)
<1> DEFINE After(was, k) == add_file(was, update[k].name, 1, update[k].payload)
           T == {n \in Nat : \E archived : Archiving(archived, update, n)}
<1>1. 0 \in T
  <2> DEFINE g == [k \in 0 .. 0 |-> NewArchive("new_ascii")]
  <2>1. Archiving(g, update, 0) BY DEF Archiving
  <2> QED BY <2>1
<1>2. ASSUME NEW n \in Nat, n \in T PROVE n + 1 \in T
  <2>1. PICK f : Archiving(f, update, n) BY <1>2
  <2> DEFINE g == [k \in 0 .. n + 1 |-> IF k = n + 1 THEN After(f[n], n + 1) ELSE f[k]]
  <2>2. \A k \in 0 .. n : f[k] = IF k = 0 THEN NewArchive("new_ascii") ELSE After(f[k - 1], k)
    BY <2>1 DEF Archiving
  <2> HIDE DEF After
  <2>3. \A k \in 0 .. n : g[k] = f[k] OBVIOUS
  <2>4. ASSUME NEW k \in 0 .. n + 1
        PROVE  g[k] = IF k = 0 THEN NewArchive("new_ascii") ELSE After(g[k - 1], k)
    <3>1. CASE k = n + 1
      <4>1. g[k] = After(f[n], k) BY <3>1
      <4>2. k - 1 = n /\ k # 0 BY <3>1
      <4>3. g[k - 1] = f[n] BY <2>3, <4>2
      <4> QED BY <4>1, <4>2, <4>3
    <3>2. CASE k # n + 1
      <4>1. k \in 0 .. n BY <3>2
      <4>2. CASE k = 0 BY <2>2, <2>3, <4>1, <4>2
      <4>3. CASE k # 0
        <5>1. k - 1 \in 0 .. n BY <4>1, <4>3
        <5> QED BY <2>2, <2>3, <4>1, <4>3, <5>1
      <4> QED BY <4>2, <4>3
    <3> QED BY <3>1, <3>2
  <2>5. Archiving(g, update, n + 1)
    <3> HIDE DEF g
    <3>1. g = [k \in 0 .. n + 1 |-> g[k]] BY DEF g
    <3>2. g = [k \in 0 .. n + 1 |->
                 IF k = 0 THEN NewArchive("new_ascii") ELSE After(g[k - 1], k)]
      BY <2>4, <3>1
    <3> QED BY <3>2 DEF Archiving, After
  <2> HIDE DEF g
  <2> QED BY <2>5
<1> HIDE DEF T
<1>3. Nat \subseteq T BY <1>1, <1>2, EveryNumber
<1> QED BY <1>3 DEF T

LEMMA ArchivedIs ==
  ASSUME NEW u, IsUpdate(u)
  PROVE  LET a == Archived(u) IN
         /\ IsArchive(a) /\ Len(a.m_files) = Len(u) /\ Len(u) \in Nat
         /\ \A k \in 1 .. Len(u) :
               a.m_files[k].name = u[k].name /\ a.m_files[k].payload = u[k].payload
<1> DEFINE A == Archives(u)
           Holds(n) == /\ IsArchive(A[n]) /\ Len(A[n].m_files) = n
                       /\ \A k \in 1 .. n : /\ A[n].m_files[k].name = u[k].name
                                            /\ A[n].m_files[k].payload = u[k].payload
           T == {n \in Nat : n <= Len(u) => Holds(n)}
<1>1. /\ Len(u) \in Nat
      /\ \A k \in 1 .. Len(u) :
            /\ u[k].name # TRAILER_NAME /\ NameLength(u[k].name) \in Nat
            /\ IsPayload(u[k].payload)
  BY IsSequenceIs DEF IsUpdate
<1>2. A[0] = NewArchive("new_ascii")
      /\ \A k \in 1 .. Len(u) : A[k] = add_file(A[k - 1], u[k].name, 1, u[k].payload)
  <2>1. \E archived : Archiving(archived, u, Len(u)) BY <1>1, ArchivingExists
  <2>2. A = CHOOSE archived : Archiving(archived, u, Len(u)) BY DEF Archives, Archiving
  <2>3. Archiving(A, u, Len(u)) BY <2>1, <2>2
  <2>4. 0 \in 0 .. Len(u) /\ \A k \in 1 .. Len(u) : k \in 0 .. Len(u) /\ k # 0 BY <1>1
  <2> HIDE DEF A
  <2>5. \A k \in 0 .. Len(u) :
           A[k] = IF k = 0 THEN NewArchive("new_ascii")
                  ELSE add_file(A[k - 1], u[k].name, 1, u[k].payload)
    BY <2>3 DEF Archiving
  <2> QED BY <2>4, <2>5
<1> HIDE DEF A
<1>3. 0 \in T
  <2>1. IsSequence(<<>>) /\ Len(<<>>) = 0 BY DEF IsSequence
  <2>2. NewArchive("new_ascii").m_files = <<>> BY DEF NewArchive
  <2>3. IsArchive(NewArchive("new_ascii")) BY <2>1, <2>2 DEF NewArchive, IsArchive, AllLaid
  <2> QED BY <1>2, <2>1, <2>2, <2>3
<1>4. ASSUME NEW n \in Nat, n \in T PROVE n + 1 \in T
  <2> SUFFICES ASSUME n + 1 <= Len(u) PROVE Holds(n + 1) OBVIOUS
  <2>1. Holds(n) /\ n + 1 \in 1 .. Len(u) /\ (n + 1) - 1 = n BY <1>1, <1>4
  <2>2. A[n + 1] = add_file(A[n], u[n + 1].name, 1, u[n + 1].payload) BY <1>2, <2>1
  <2>3. /\ IsArchive(A[n + 1]) /\ Len(A[n + 1].m_files) = n + 1
        /\ \A k \in 1 .. n : A[n + 1].m_files[k] = A[n].m_files[k]
        /\ A[n + 1].m_files[n + 1].name = u[n + 1].name
        /\ A[n + 1].m_files[n + 1].payload = u[n + 1].payload
    <3> DEFINE was == A[n]
               name == u[n + 1].name
               p == u[n + 1].payload
               b == add_file(was, name, 1, p)
    <3>1. /\ IsArchive(was) /\ NameLength(name) \in Nat /\ name # TRAILER_NAME
          /\ IsPayload(p) /\ Len(was.m_files) = n
      BY <1>1, <2>1
    <3> HIDE DEF was, name, p
    <3>2. /\ IsArchive(b) /\ Len(b.m_files) = n + 1
          /\ \A k \in 1 .. n : b.m_files[k] = was.m_files[k]
          /\ b.m_files[n + 1].name = name /\ b.m_files[n + 1].payload = p
      BY <3>1, AddFileIs
    <3>3. A[n + 1] = b BY <2>2 DEF was, name, p
    <3> QED BY <3>2, <3>3 DEF was, name, p
  <2>4. 1 .. n + 1 = 1 .. n \union {n + 1} OBVIOUS
  <2> QED BY <2>1, <2>3, <2>4
<1> HIDE DEF T
<1>5. Nat \subseteq T BY <1>3, <1>4, EveryNumber
<1>6. Holds(Len(u)) BY <1>1, <1>5 DEF T
<1> QED BY <1>1, <1>6 DEF Archived, A

\* What the tool may rely on when it has read an update.
IsOrigin(o) ==
    /\ IsArchive(o) /\ o = AsRead(o.m_files)
    /\ \E k \in 1 .. Len(o.m_files) : o.m_files[k].name = SW_DESCRIPTION
    /\ \A k \in 1 .. Len(o.m_files) :
          /\ CompressesAgain(o.m_files[k].payload)
          /\ o.m_files[k].name = SW_DESCRIPTION => IsDescription(o.m_files[k].payload)

SourceInv == TryRead(source).result = "read" => IsOrigin(Origin)

\* An update is read as it was made, or not at all.
LEMMA SourceRead == ToolInit => SourceInv
<1> SUFFICES ASSUME ToolInit, TryRead(source).result = "read" PROVE IsOrigin(Origin)
  BY DEF SourceInv
<1>1. PICK u \in Updates, cut \in Cuts :
         /\ cut <= Written(Archived(u)).size
         /\ source = [Written(Archived(u)) EXCEPT !.size = @ - cut]
  BY DEF ToolInit
<1>2. IsUpdate(u) /\ cut \in Nat BY RecompressAssumption
<1> DEFINE a == Archived(u)
           o == AsRead(a.m_files)
<1>3. /\ IsArchive(a) /\ Len(a.m_files) = Len(u) /\ Len(u) \in Nat
      /\ \A k \in 1 .. Len(u) :
            a.m_files[k].name = u[k].name /\ a.m_files[k].payload = u[k].payload
  BY <1>2, ArchivedIs
<1>4. IF cut = 0 THEN TryRead(source) = [result |-> "read", archive |-> o]
                 ELSE TryRead(source).result # "read"
  BY <1>1, <1>2, <1>3, RoundTrip
<1>5. Origin = o BY <1>4 DEF Origin
<1>6. o.m_files = a.m_files /\ IsArchive(o) /\ o = AsRead(o.m_files)
  BY <1>3 DEF IsArchive, AsRead
<1>7. DOMAIN u = 1 .. Len(u) BY <1>2, IsSequenceIs DEF IsUpdate
<1>8. /\ \E k \in 1 .. Len(u) : u[k].name = SW_DESCRIPTION
      /\ \A k \in 1 .. Len(u) :
            /\ CompressesAgain(u[k].payload)
            /\ u[k].name = SW_DESCRIPTION => IsDescription(u[k].payload)
  BY <1>2, <1>7 DEF IsUpdate
<1> HIDE DEF a, o
<1>9. IsOrigin(o) BY <1>3, <1>6, <1>8 DEF IsOrigin
<1> QED BY <1>5, <1>9

-----------------------------------------------------------------------------
(* The invariant.                                                          *)

UnderWay == phase \in {"images", "sign", "write", "done"}

\* The member is the one it was, but for what the tool puts into it.
IsKept(member, original, o, hashes) ==
    /\ member.name = original.name
    /\ member.name \in DOMAIN hashes =>
          /\ hashes[member.name] = hash_reader(member.payload)
          /\ Plain(member.payload) = Plain(get_payload_reader(o, member.name))
    /\ member.name \notin DOMAIN hashes \union {SW_DESCRIPTION, SIG_FILE_NAME} =>
          member.payload = original.payload

AllKept(files, originals, o, hashes) ==
    /\ Len(files) = Len(originals)
    /\ \A k \in 1 .. Len(originals) : IsKept(files[k], originals[k], o, hashes)

\* The members that are to be in the update that is made.
KeptFiles ==
    IF signing = "none" THEN Without(Origin.m_files, SIG_FILE_NAME)[Len(Origin.m_files)]
                        ELSE Origin.m_files

IsHashed(entry, hashes) ==
    /\ entry.file \in DOMAIN hashes
    /\ entry.sha256 = hashes[entry.file]

\* The description names the images it named; what was hashed is one of them, and
\* the entries that were passed have their hashes.
ConfigInv ==
    UnderWay =>
      /\ TryRead(source).result = "read"
      /\ IsPayload(config) /\ IsDescription(config) /\ at \in Nat \ {0}
      /\ \A k \in DOMAIN config.entries :
            /\ config.entries[k].file \in ImagesOf(Origin)
            /\ k < at => IsHashed(config.entries[k], file_to_hash_map)
      /\ \A f \in DOMAIN file_to_hash_map :
            f \in ImagesOf(Origin) \ {SW_DESCRIPTION, SIG_FILE_NAME}

\* Until the description is written the members are those that were read, and what
\* the archive says is in a name that was not compressed again is what was there.
ImagesInv ==
    phase = "images" =>
      /\ IsArchive(archive)
      /\ AllKept(archive.m_files, Origin.m_files, Origin, file_to_hash_map)
      /\ \A n : n \notin DOMAIN file_to_hash_map \union {SW_DESCRIPTION, SIG_FILE_NAME} =>
            get_payload_reader(archive, n) = get_payload_reader(Origin, n)

IsDescribed(a) ==
    /\ \E k \in 1 .. Len(a.m_files) : a.m_files[k].name = SW_DESCRIPTION
    /\ \A k \in 1 .. Len(a.m_files) :
          a.m_files[k].name = SW_DESCRIPTION => a.m_files[k].payload = Description

\* Then every entry has its hash, and all members of the description's name have
\* the description.
DescribedInv ==
    phase \in {"sign", "write", "done"} =>
      /\ IsArchive(archive) /\ IsDescribed(archive)
      /\ AllKept(archive.m_files, IF phase = "sign" THEN Origin.m_files ELSE KeptFiles,
                 Origin, file_to_hash_map)
      /\ \A k \in DOMAIN config.entries :
            config.entries[k].group < config.gap =>
               IsHashed(config.entries[k], file_to_hash_map)
      /\ phase = "sign" => signing # "none"

SignedInv ==
    phase \in {"write", "done"} =>
      \A k \in 1 .. Len(archive.m_files) :
         archive.m_files[k].name = SIG_FILE_NAME =>
            archive.m_files[k].payload = Signature(Description)

DestInv ==
    /\ phase \in {"read", "images"} => dest = Before
    /\ phase = "done" => dest = Written(archive)
    /\ FailsBeforeItWrites

Untouched == phase = "read" => at = 1 /\ DOMAIN file_to_hash_map = {}

IInv ==
    /\ SourceInv /\ signing \in Signings
    /\ Untouched /\ ConfigInv /\ ImagesInv /\ DescribedInv /\ SignedInv /\ DestInv

\* The payload of a name in what was read: one of its members' or the empty one.
LEMMA OriginPayload ==
  ASSUME NEW o, IsOrigin(o), NEW name
  PROVE  LET p == get_payload_reader(o, name) IN
         /\ IsPayload(p) /\ CompressesAgain(p)
         /\ name = SW_DESCRIPTION => IsDescription(p)
<1> DEFINE files == o.m_files
           map == o.m_payload_reader_map
<1>1. map = LastPayloads(files) /\ IsSequence(files)
  BY DEF IsOrigin, AsRead, IsArchive, AllLaid
<1>2. \A k \in 1 .. Len(files) : IsPayload(files[k].payload)
  BY DEF IsOrigin, IsArchive, AllLaid, Laid
<1>3. DOMAIN map = {files[k].name : k \in 1 .. Len(files)} BY <1>1, LastPayloadsAre
<1>4. CASE name \in DOMAIN map
  <2>1. PICK k \in 1 .. Len(files) : files[k].name = name
    <3> HIDE DEF map, files
    <3> QED BY <1>3, <1>4
  <2>2. PICK i \in 1 .. Len(files) :
           files[i].name = name /\ LastPayloads(files)[name] = files[i].payload
    BY <1>1, <2>1, LastPayloadsAre
  <2>3. get_payload_reader(o, name) = files[i].payload
    BY <1>1, <1>4, <2>2 DEF get_payload_reader
  <2> QED BY <1>2, <2>2, <2>3 DEF IsOrigin
<1>5. CASE name \notin DOMAIN map
  <2>1. get_payload_reader(o, name) = Empty BY <1>5 DEF get_payload_reader
  <2>2. name # SW_DESCRIPTION
    <3>1. PICK k \in 1 .. Len(files) : files[k].name = SW_DESCRIPTION BY DEF IsOrigin
    <3> HIDE DEF map, files
    <3> QED BY <1>3, <1>5, <3>1
  <2> QED BY <2>1, <2>2, RecompressAssumption
<1> QED BY <1>4, <1>5

\* An entry that gets a hash gets nothing else, nor does any other.
LEMMA HashedIs ==
  ASSUME IsPayload(config), IsDescription(config), NEW hash, at \in DOMAIN config.entries
  PROVE  LET d == Hashed(hash) IN
         /\ IsPayload(d) /\ IsDescription(d) /\ d.gap = config.gap
         /\ DOMAIN d.entries = DOMAIN config.entries
         /\ \A k \in DOMAIN config.entries :
               /\ d.entries[k].file = config.entries[k].file
               /\ d.entries[k].group = config.entries[k].group
               /\ d.entries[k].sha256 = IF k = at THEN hash ELSE config.entries[k].sha256
<1> DEFINE d == Hashed(hash)
           entry == [config.entries[at] EXCEPT !.sha256 = hash]
           entries == [config.entries EXCEPT ![at] = entry]
           n == Len(config.entries)
<1>1. d = [config EXCEPT !.entries = entries] BY DEF Hashed
<1>2. /\ n \in Nat /\ DOMAIN config.entries = 1 .. n
      /\ config.entries = [k \in 1 .. n |-> config.entries[k]]
      /\ \A k \in 1 .. n : IsEntry(config.entries[k])
  BY IsSequenceIs DEF IsDescription, IsSequence
<1>3. IsEntry(entry) /\ entry.file = Entry.file /\ entry.group = Entry.group
         /\ entry.sha256 = hash
  <2>1. IsEntry(config.entries[at]) BY <1>2
  <2>2. Entry = config.entries[at] BY DEF Entry
  <2> QED BY <2>1, <2>2 DEF IsEntry, HasFields
<1> HIDE DEF entry
<1>4. /\ entries = [k \in 1 .. n |-> IF k = at THEN entry ELSE config.entries[k]]
  BY <1>2
<1> HIDE DEF entries
<1>5. IsSequence(entries) /\ Len(entries) = n /\ DOMAIN entries = 1 .. n
  <2>1. entries = [k \in 1 .. n |-> entries[k]] BY <1>4
  <2> QED BY <1>2, <2>1, SequenceIs
<1>6. ASSUME NEW k \in 1 .. n
      PROVE  /\ IsEntry(entries[k])
             /\ entries[k].file = config.entries[k].file
             /\ entries[k].group = config.entries[k].group
             /\ entries[k].sha256 = IF k = at THEN hash ELSE config.entries[k].sha256
  <2>1. CASE k = at BY <1>3, <1>4, <2>1 DEF Entry
  <2>2. CASE k # at BY <1>2, <1>4, <2>2
  <2> QED BY <2>1, <2>2
<1>7. /\ config = [f \in DOMAIN config |-> config[f]]
      /\ {"size", "sum", "gap", "entries"} \subseteq DOMAIN config
  BY DEF IsPayload, IsDescription, HasFields
<1>8. /\ d.entries = entries /\ d.gap = config.gap /\ d.size = config.size
      /\ DOMAIN d = DOMAIN config /\ d = [f \in DOMAIN d |-> d[f]]
  <2> HIDE DEF d
  <2> QED BY <1>1, <1>7
<1> HIDE DEF d
<1>9. IsPayload(d) BY <1>7, <1>8 DEF IsPayload, HasFields
<1>10. IsDescription(d)
  <2>1. \A j, k \in 1 .. n : j <= k => entries[j].group <= entries[k].group
    BY <1>2, <1>6 DEF IsDescription
  <2> QED BY <1>5, <1>6, <1>7, <1>8, <2>1 DEF IsDescription, HasFields
<1> QED BY <1>2, <1>5, <1>6, <1>8, <1>9, <1>10 DEF d

\* What libconfig writes has the entries that were set.
LEMMA DescriptionIs ==
  ASSUME IsPayload(config), IsDescription(config)
  PROVE  /\ IsPayload(Description)
         /\ Description.entries = config.entries /\ Description.gap = config.gap
<1> DEFINE size == config.size + 1
<1>1. /\ config = [f \in DOMAIN config |-> config[f]]
      /\ {"size", "sum", "gap", "entries"} \subseteq DOMAIN config
      /\ config.size \in 0 .. Word - 1 /\ config.size + 1 < Word
  BY DEF IsPayload, IsDescription, HasFields
<1>2. size \in 0 .. Word - 1 BY <1>1, RecompressAssumption
<1>3. Description = [config EXCEPT !.size = size] BY DEF Description
<1> HIDE DEF size
<1>4. /\ Description.size = size /\ DOMAIN Description = DOMAIN config
      /\ Description = [f \in DOMAIN Description |-> Description[f]]
      /\ Description.entries = config.entries /\ Description.gap = config.gap
  BY <1>1, <1>3
<1> QED BY <1>1, <1>2, <1>4 DEF IsPayload, HasFields

LEMMA SignatureIs == ASSUME NEW p PROVE IsPayload(Signature(p))
BY RecompressAssumption DEF Signature, IsPayload, HasFields

-----------------------------------------------------------------------------
(* The steps.                                                              *)

LEMMA Initially == ToolInit => IInv
<1> SUFFICES ASSUME ToolInit PROVE IInv OBVIOUS
<1>1. SourceInv BY SourceRead
<1>2. phase = "read" /\ at = 1 /\ DOMAIN file_to_hash_map = {} /\ dest = Before
         /\ signing \in Signings
  BY DEF ToolInit
<1> QED BY <1>1, <1>2 DEF IInv, Untouched, ConfigInv, UnderWay, ImagesInv, DescribedInv,
                          SignedInv, DestInv, FailsBeforeItWrites

\* The source stays as it is.
LEMMA SourceStays ==
  ASSUME IInv, UNCHANGED <<source, signing>>
  PROVE  /\ Origin' = Origin /\ TryRead(source)' = TryRead(source) /\ SourceInv'
         /\ ImagesOf(Origin)' = ImagesOf(Origin) /\ KeptFiles' = KeptFiles
         /\ (signing \in Signings)'
BY DEF IInv, SourceInv, Origin, KeptFiles

LEMMA ReadArchiveStep == ASSUME IInv, ReadArchive PROVE IInv'
<1> DEFINE r == TryRead(source)
<1>1. /\ phase = "read" /\ at = 1 /\ DOMAIN file_to_hash_map = {} /\ dest = Before
      /\ UNCHANGED <<source, signing, at, file_to_hash_map, dest>>
  BY DEF ReadArchive, IInv, Untouched, DestInv
<1>2. /\ Origin' = Origin /\ r' = r /\ SourceInv' /\ (signing \in Signings)'
      /\ ImagesOf(Origin)' = ImagesOf(Origin)
  BY <1>1, SourceStays
<1>3. CASE r.result # "read"
  <2>1. phase' \in {"aborted", "failed"} BY <1>3 DEF ReadArchive
  <2> QED BY <1>1, <1>2, <2>1 DEF IInv, Untouched, ConfigInv, UnderWay, ImagesInv,
                 DescribedInv, SignedInv, DestInv, FailsBeforeItWrites, Before, EmptyImage
<1>4. CASE r.result = "read"
  <2>1. /\ phase' = "images" /\ archive' = Origin /\ config' = load_config(Origin)
    BY <1>4 DEF ReadArchive, Origin
  <2>2. IsOrigin(Origin) BY <1>4 DEF IInv, SourceInv
  <2>3. IsPayload(config') /\ IsDescription(config')
    BY <2>1, <2>2, OriginPayload DEF load_config
  <2>4. ConfigInv'
    <3>1. \A k \in DOMAIN config'.entries : config'.entries[k].file \in ImagesOf(Origin)
      BY <2>1 DEF ImagesOf
    <3>2. \A k \in DOMAIN config'.entries : ~(k < at)
      <4>1. DOMAIN config'.entries = 1 .. Len(config'.entries)
        BY <2>3, IsSequenceIs DEF IsDescription
      <4>2. Len(config'.entries) \in Nat BY <2>3, IsSequenceIs DEF IsDescription
      <4> QED BY <1>1, <4>1, <4>2
    <3> HIDE DEF r
    <3> QED BY <1>1, <1>2, <1>4, <2>3, <3>1, <3>2 DEF ConfigInv, UnderWay, r
  <2>5. ImagesInv'
    <3>1. AllKept(Origin.m_files, Origin.m_files, Origin, file_to_hash_map)
      BY <1>1, <1>2 DEF AllKept, IsKept
    <3>2. IsArchive(archive') BY <2>1, <2>2 DEF IsOrigin
    <3> QED BY <1>1, <1>2, <2>1, <3>1, <3>2 DEF ImagesInv
  <2> QED BY <1>1, <1>2, <2>1, <2>4, <2>5 DEF IInv, Untouched, DescribedInv, SignedInv,
                 DestInv, FailsBeforeItWrites
<1> QED BY <1>3, <1>4

LEMMA RecompressImageStep == ASSUME IInv, RecompressImage PROVE IInv'
<1> DEFINE f == Entry.file
           payload == get_payload_reader(archive, f)
           made == Recompressed(payload)
           hashes == file_to_hash_map
           entries == config.entries
<1>1. /\ phase = "images" /\ at \in DOMAIN entries /\ f \notin DOMAIN hashes
      /\ UNCHANGED <<source, signing, dest>>
  BY DEF RecompressImage, image_entries, NextEntry
<1>2. /\ Origin' = Origin /\ TryRead(source)' = TryRead(source) /\ SourceInv'
      /\ (signing \in Signings)' /\ ImagesOf(Origin)' = ImagesOf(Origin)
  BY <1>1, SourceStays
<1>3. /\ TryRead(source).result = "read" /\ IsOrigin(Origin) /\ dest = Before
      /\ IsPayload(config) /\ IsDescription(config) /\ at \in Nat \ {0}
      /\ \A k \in DOMAIN entries :
            /\ entries[k].file \in ImagesOf(Origin)
            /\ k < at => IsHashed(entries[k], hashes)
      /\ \A n \in DOMAIN hashes : n \in ImagesOf(Origin) \ {SW_DESCRIPTION, SIG_FILE_NAME}
      /\ IsArchive(archive) /\ AllKept(archive.m_files, Origin.m_files, Origin, hashes)
      /\ \A n : n \notin DOMAIN hashes \union {SW_DESCRIPTION, SIG_FILE_NAME} =>
            get_payload_reader(archive, n) = get_payload_reader(Origin, n)
  BY <1>1 DEF IInv, ConfigInv, UnderWay, SourceInv, ImagesInv, DestInv
<1>4. CASE ~CanRecompress(payload)
  <2>1. phase' = "aborted" BY <1>4 DEF RecompressImage
  <2> QED BY <1>1, <1>2, <1>3, <2>1 DEF IInv, Untouched, ConfigInv, UnderWay, ImagesInv,
                 DescribedInv, SignedInv, DestInv, FailsBeforeItWrites, Before, EmptyImage
<1>5. CASE CanRecompress(payload)
  <2>1. /\ archive' = set_payload_reader(archive, f, made)
        /\ hashes' = [n \in DOMAIN hashes \union {f} |->
                        IF n = f THEN hash_reader(made) ELSE hashes[n]]
        /\ config' = Hashed(hash_reader(made)) /\ at' = at + 1 /\ phase' = phase
    BY <1>5 DEF RecompressImage, NextEntry
  <2>2. f \in ImagesOf(Origin) \ {SW_DESCRIPTION, SIG_FILE_NAME}
    <3>1. IsEntry(entries[at]) BY <1>1, <1>3 DEF IsDescription
    <3> QED BY <1>1, <1>3, <3>1 DEF Entry, IsEntry
  <2>3. payload = get_payload_reader(Origin, f) BY <1>1, <1>3, <2>2
  <2>4. IsPayload(made) /\ Plain(made) = Plain(get_payload_reader(Origin, f))
    <3>1. CompressesAgain(payload) BY <1>3, <2>3, OriginPayload
    <3> HIDE DEF f, payload
    <3> QED BY <1>5, <2>3, <3>1 DEF CompressesAgain, CanRecompress, Recompressed
  <2>5. /\ IsArchive(archive') /\ Len(archive'.m_files) = Len(archive.m_files)
        /\ \A k \in 1 .. Len(archive.m_files) :
              /\ archive'.m_files[k].name = archive.m_files[k].name
              /\ archive'.m_files[k].payload = IF archive.m_files[k].name = f
                                               THEN made ELSE archive.m_files[k].payload
        /\ \A n : n # f => get_payload_reader(archive', n) = get_payload_reader(archive, n)
    <3> HIDE DEF f, made
    <3> QED BY <1>3, <2>1, <2>4, SetPayloadIs
  <2>6. /\ IsPayload(config') /\ IsDescription(config')
        /\ DOMAIN config'.entries = DOMAIN entries
        /\ \A k \in DOMAIN entries :
              /\ config'.entries[k].file = entries[k].file
              /\ config'.entries[k].sha256 = IF k = at THEN hash_reader(made)
                                                       ELSE entries[k].sha256
    <3> HIDE DEF made
    <3> QED BY <1>1, <1>3, <2>1, HashedIs
  <2>7. entries[at].file = f BY DEF Entry
  <2>8. DOMAIN entries \subseteq Nat
    <3>1. DOMAIN entries = 1 .. Len(entries) BY <1>3, IsSequenceIs DEF IsDescription
    <3> QED BY <3>1
  <2> HIDE DEF f, payload, made
  <2>9. /\ DOMAIN hashes' = DOMAIN hashes \union {f} /\ hashes'[f] = hash_reader(made)
        /\ \A n \in DOMAIN hashes : hashes'[n] = hashes[n]
    BY <1>1, <2>1
  <2>10. ASSUME NEW k \in DOMAIN entries, k < at + 1
         PROVE  IsHashed(config'.entries[k], hashes')
    <3>1. CASE k = at BY <2>6, <2>7, <2>9, <3>1 DEF IsHashed
    <3>2. CASE k # at
      <4>1. k < at BY <1>3, <2>8, <2>10, <3>2
      <4>2. IsHashed(entries[k], hashes) BY <1>3, <4>1
      <4> QED BY <2>6, <2>9, <3>2, <4>2 DEF IsHashed
    <3> QED BY <3>1, <3>2
  <2>11. ConfigInv'
    <3>1. at' \in Nat \ {0} BY <1>3, <2>1
    <3> QED BY <1>2, <1>3, <2>1, <2>2, <2>6, <2>9, <2>10, <3>1 DEF ConfigInv, UnderWay
  <2>12. ASSUME NEW k \in 1 .. Len(Origin.m_files)
         PROVE  IsKept(archive.m_files[k], Origin.m_files[k], Origin, hashes)
    BY <1>3 DEF AllKept
  <2>13. ASSUME NEW k \in 1 .. Len(Origin.m_files)
         PROVE  IsKept(archive'.m_files[k], Origin.m_files[k], Origin, hashes')
    <3> DEFINE m == archive.m_files[k]
               new == archive'.m_files[k]
    <3>1. /\ new.name = m.name
          /\ new.payload = IF m.name = f THEN made ELSE m.payload
      BY <1>3, <2>5 DEF AllKept
    <3>2. CASE m.name = f BY <1>2, <2>4, <2>9, <2>12, <3>1, <3>2 DEF IsKept
    <3>3. CASE m.name # f BY <1>2, <2>9, <2>12, <3>1, <3>3 DEF IsKept
    <3> QED BY <3>2, <3>3
  <2>14. ImagesInv'
    <3>1. AllKept(archive'.m_files, Origin.m_files, Origin, hashes')
      BY <1>2, <1>3, <2>5, <2>13 DEF AllKept
    <3>2. ASSUME NEW n, n \notin DOMAIN hashes' \union {SW_DESCRIPTION, SIG_FILE_NAME}
          PROVE  get_payload_reader(archive', n) = get_payload_reader(Origin', n)
      BY <1>2, <1>3, <2>5, <2>9, <3>2
    <3> QED BY <1>2, <2>5, <3>1, <3>2 DEF ImagesInv
  <2> QED BY <1>1, <1>2, <1>3, <2>1, <2>11, <2>14 DEF IInv, Untouched, DescribedInv,
                 SignedInv, DestInv, FailsBeforeItWrites
<1> QED BY <1>4, <1>5

LEMMA ImageDoneStep == ASSUME IInv, ImageDone PROVE IInv'
<1> DEFINE f == Entry.file
           hashes == file_to_hash_map
           entries == config.entries
<1>1. /\ phase = "images" /\ at \in DOMAIN entries /\ f \in DOMAIN hashes
      /\ config' = Hashed(hashes[f]) /\ at' = at + 1
      /\ UNCHANGED <<source, signing, phase, dest, archive, file_to_hash_map>>
  BY DEF ImageDone, image_entries, NextEntry
<1>2. /\ Origin' = Origin /\ TryRead(source)' = TryRead(source) /\ SourceInv'
      /\ (signing \in Signings)' /\ ImagesOf(Origin)' = ImagesOf(Origin)
  BY <1>1, SourceStays
<1>3. /\ TryRead(source).result = "read" /\ dest = Before
      /\ IsPayload(config) /\ IsDescription(config) /\ at \in Nat \ {0}
      /\ \A k \in DOMAIN entries :
            /\ entries[k].file \in ImagesOf(Origin)
            /\ k < at => IsHashed(entries[k], hashes)
      /\ \A n \in DOMAIN hashes : n \in ImagesOf(Origin) \ {SW_DESCRIPTION, SIG_FILE_NAME}
  BY <1>1 DEF IInv, ConfigInv, UnderWay, DestInv
<1>4. /\ IsPayload(config') /\ IsDescription(config')
      /\ DOMAIN config'.entries = DOMAIN entries
      /\ \A k \in DOMAIN entries :
            /\ config'.entries[k].file = entries[k].file
            /\ config'.entries[k].sha256 = IF k = at THEN hashes[f] ELSE entries[k].sha256
  BY <1>1, <1>3, HashedIs
<1>5. DOMAIN entries \subseteq Nat
  <2>1. DOMAIN entries = 1 .. Len(entries) BY <1>3, IsSequenceIs DEF IsDescription
  <2> QED BY <2>1
<1>6. entries[at].file = f BY DEF Entry
<1> HIDE DEF f
<1>7. ASSUME NEW k \in DOMAIN entries, k < at + 1
      PROVE  IsHashed(config'.entries[k], hashes)
  <2>1. CASE k = at BY <1>1, <1>4, <1>6, <2>1 DEF IsHashed
  <2>2. CASE k # at
    <3>1. k < at BY <1>3, <1>5, <1>7, <2>2
    <3>2. IsHashed(entries[k], hashes) BY <1>3, <3>1
    <3> QED BY <1>4, <2>2, <3>2 DEF IsHashed
  <2> QED BY <2>1, <2>2
<1>8. ConfigInv'
  <2>1. at' \in Nat \ {0} BY <1>1, <1>3
  <2> QED BY <1>1, <1>2, <1>3, <1>4, <1>7, <2>1 DEF ConfigInv, UnderWay
<1>9. ImagesInv' BY <1>1, <1>2 DEF IInv, ImagesInv, AllKept, IsKept
<1> QED BY <1>1, <1>2, <1>3, <1>8, <1>9 DEF IInv, Untouched, DescribedInv, SignedInv,
               DestInv, FailsBeforeItWrites

\* Without its signature an archive is described as it was.
LEMMA WithoutSignatureIs ==
  ASSUME NEW a, IsArchive(a), NEW originals, IsSequence(originals), NEW o, NEW hashes,
         AllKept(a.m_files, originals, o, hashes), IsDescribed(a)
  PROVE  LET b == remove_file(a, SIG_FILE_NAME) IN
         /\ IsArchive(b) /\ IsDescribed(b)
         /\ AllKept(b.m_files, Without(originals, SIG_FILE_NAME)[Len(originals)], o, hashes)
         /\ \A k \in 1 .. Len(b.m_files) : b.m_files[k].name # SIG_FILE_NAME
<1> DEFINE b == remove_file(a, SIG_FILE_NAME)
           s == a.m_files
           n == Len(s)
           ls == Without(s, SIG_FILE_NAME)[n]
           lt == Without(originals, SIG_FILE_NAME)[Len(originals)]
           map == [m \in DOMAIN a.m_payload_reader_map \ {SIG_FILE_NAME} |->
                     a.m_payload_reader_map[m]]
<1>1. IsSequence(s) /\ n = Len(originals)
         /\ \A k \in 1 .. n : IsKept(s[k], originals[k], o, hashes)
  BY DEF IsArchive, AllLaid, AllKept
<1>2. \A k \in 1 .. n : s[k].name = originals[k].name BY <1>1 DEF IsKept
<1>3. Parallel(s, originals, ls, lt, SIG_FILE_NAME, n) BY <1>1, <1>2, WithoutParallel
<1>4. b = [a EXCEPT !.m_files = ls, !.m_payload_reader_map = map] BY DEF remove_file
<1> HIDE DEF b, ls, lt, map
<1>5. PICK x, y : a = [m_format |-> "new_ascii", m_files |-> x, m_payload_reader_map |-> y]
  BY DEF IsArchive
<1>6. b = [m_format |-> "new_ascii", m_files |-> ls, m_payload_reader_map |-> map]
  BY <1>4, <1>5
<1>7. b.m_format = "new_ascii" /\ b.m_files = ls /\ b.m_payload_reader_map = map BY <1>6
<1>8. ASSUME NEW i \in 1 .. Len(ls)
      PROVE  /\ Laid(ls[i]) /\ ls[i].name # TRAILER_NAME /\ ls[i].name # SIG_FILE_NAME
             /\ IsKept(ls[i], lt[i], o, hashes)
             /\ ls[i].name = SW_DESCRIPTION => ls[i].payload = Description
  <2>1. PICK j \in 1 .. n : ls[i] = s[j] /\ lt[i] = originals[j] /\ s[j].name # SIG_FILE_NAME
    BY <1>3 DEF Parallel
  <2> QED BY <1>1, <2>1 DEF IsArchive, AllLaid, IsDescribed
<1>9. IsArchive(b) BY <1>3, <1>6, <1>7, <1>8 DEF IsArchive, AllLaid, Parallel
<1>10. IsDescribed(b)
  <2>1. PICK j \in 1 .. n : s[j].name = SW_DESCRIPTION BY DEF IsDescribed
  <2>2. s[j].name # SIG_FILE_NAME BY <2>1 DEF SW_DESCRIPTION, SIG_FILE_NAME
  <2>3. PICK i \in 1 .. Len(ls) : ls[i] = s[j] BY <1>3, <2>2 DEF Parallel
  <2> QED BY <1>7, <1>8, <2>1, <2>3 DEF IsDescribed
<1>11. AllKept(b.m_files, lt, o, hashes)
  <2>1. Len(ls) = Len(lt) BY <1>3 DEF Parallel
  <2> QED BY <1>7, <1>8, <2>1 DEF AllKept
<1> QED BY <1>7, <1>8, <1>9, <1>10, <1>11 DEF b, lt

LEMMA DescribeStep == ASSUME IInv, Describe PROVE IInv'
<1> DEFINE hashes == file_to_hash_map
           entries == config.entries
           described == set_payload_reader(archive, SW_DESCRIPTION, Description)
           files == Origin.m_files
<1>1. /\ phase = "images" /\ at \notin image_entries
      /\ UNCHANGED <<source, signing, config, at, file_to_hash_map>>
  BY DEF Describe
<1>2. /\ Origin' = Origin /\ TryRead(source)' = TryRead(source) /\ SourceInv'
      /\ (signing \in Signings)' /\ ImagesOf(Origin)' = ImagesOf(Origin)
      /\ KeptFiles' = KeptFiles
  BY <1>1, SourceStays
<1>3. /\ TryRead(source).result = "read" /\ IsOrigin(Origin)
      /\ IsPayload(config) /\ IsDescription(config) /\ at \in Nat \ {0}
      /\ \A k \in DOMAIN entries :
            /\ entries[k].file \in ImagesOf(Origin)
            /\ k < at => IsHashed(entries[k], hashes)
      /\ \A n \in DOMAIN hashes : n \in ImagesOf(Origin) \ {SW_DESCRIPTION, SIG_FILE_NAME}
      /\ IsArchive(archive) /\ AllKept(archive.m_files, files, Origin, hashes)
      /\ signing \in Signings
  BY <1>1 DEF IInv, ConfigInv, UnderWay, SourceInv, ImagesInv
<1>4. IsPayload(Description) BY <1>3, DescriptionIs
<1>5. /\ IsArchive(described) /\ Len(described.m_files) = Len(archive.m_files)
      /\ \A k \in 1 .. Len(archive.m_files) :
            /\ described.m_files[k].name = archive.m_files[k].name
            /\ described.m_files[k].payload = IF archive.m_files[k].name = SW_DESCRIPTION
                                              THEN Description ELSE archive.m_files[k].payload
  BY <1>3, <1>4, SetPayloadIs
<1> HIDE DEF described
<1>6. /\ Len(archive.m_files) = Len(files) /\ IsSequence(files) /\ Len(files) \in Nat
      /\ \A k \in 1 .. Len(files) : IsKept(archive.m_files[k], files[k], Origin, hashes)
  <2>1. IsSequence(files) BY <1>3 DEF IsOrigin, IsArchive, AllLaid
  <2> QED BY <1>3, <2>1, IsSequenceIs DEF AllKept
<1>7. AllKept(described.m_files, files, Origin, hashes)
  <2>1. ASSUME NEW k \in 1 .. Len(files)
        PROVE  IsKept(described.m_files[k], files[k], Origin, hashes)
    BY <1>3, <1>5, <1>6 DEF IsKept
  <2> QED BY <1>5, <1>6, <2>1 DEF AllKept
<1>8. IsDescribed(described)
  <2>1. PICK k \in 1 .. Len(files) : files[k].name = SW_DESCRIPTION BY <1>3 DEF IsOrigin
  <2>2. described.m_files[k].name = SW_DESCRIPTION BY <1>5, <1>6, <2>1 DEF IsKept
  <2> QED BY <1>5, <1>6, <2>1, <2>2 DEF IsDescribed
<1>9. ASSUME NEW k \in DOMAIN entries, entries[k].group < config.gap
      PROVE  IsHashed(entries[k], hashes)
  <2>1. /\ DOMAIN entries = 1 .. Len(entries) /\ Len(entries) \in Nat
        /\ \A i, j \in DOMAIN entries : i <= j => entries[i].group <= entries[j].group
        /\ \A i \in DOMAIN entries : entries[i].group \in Int
        /\ config.gap \in Int
    BY <1>3, IsSequenceIs DEF IsDescription, IsEntry
  <2>2. k < at
    <3> SUFFICES ASSUME at <= k PROVE FALSE BY <1>3, <2>1
    <3>1. at \in DOMAIN entries BY <1>3, <2>1
    <3>2. entries[at].group < config.gap BY <1>9, <2>1, <3>1
    <3> QED BY <1>1, <3>1, <3>2 DEF image_entries
  <2> QED BY <1>3, <2>2
<1>10. Description' = Description BY <1>1 DEF Description
<1>11. dest' = EmptyImage BY DEF Describe
<1>12. CASE signing = "none"
  <2>1. archive' = WithoutSignature(described) /\ phase' = "write"
    BY <1>12 DEF Describe, described
  <2>2. archive' = remove_file(described, SIG_FILE_NAME)
    <3>1. Len(described.m_files) + 1 # 1
      <4>1. \E k \in 1 .. Len(files) : files[k].name = SW_DESCRIPTION BY <1>3 DEF IsOrigin
      <4> QED BY <1>5, <1>6, <4>1
    <3> QED BY <2>1, <3>1 DEF WithoutSignature, has_file, get_file_index
  <2>3. /\ IsArchive(archive') /\ IsDescribed(archive')
        /\ AllKept(archive'.m_files, KeptFiles, Origin, hashes)
        /\ \A k \in 1 .. Len(archive'.m_files) : archive'.m_files[k].name # SIG_FILE_NAME
    BY <1>5, <1>6, <1>7, <1>8, <1>12, <2>2, WithoutSignatureIs DEF KeptFiles
  <2>4. DescribedInv'
    <3>1. IsDescribed(archive)' BY <1>10, <2>3 DEF IsDescribed
    <3> QED BY <1>1, <1>2, <1>9, <2>1, <2>3, <3>1 DEF DescribedInv
  <2>5. SignedInv' BY <2>3 DEF SignedInv
  <2> QED BY <1>1, <1>2, <1>3, <2>1, <2>4, <2>5 DEF IInv, Untouched, ConfigInv, UnderWay,
                 ImagesInv, DestInv, FailsBeforeItWrites
<1>13. CASE signing # "none"
  <2>1. archive' = described /\ phase' = "sign" BY <1>13 DEF Describe, described
  <2>2. DescribedInv'
    <3>1. IsDescribed(archive)' BY <1>8, <1>10, <2>1 DEF IsDescribed
    <3> QED BY <1>1, <1>2, <1>5, <1>7, <1>9, <1>13, <2>1, <3>1 DEF DescribedInv
  <2> QED BY <1>1, <1>2, <1>3, <2>1, <2>2 DEF IInv, Untouched, ConfigInv, UnderWay,
                 ImagesInv, SignedInv, DestInv, FailsBeforeItWrites
<1> QED BY <1>12, <1>13

LEMMA SignStep == ASSUME IInv, Sign PROVE IInv'
<1> DEFINE hashes == file_to_hash_map
           files == Origin.m_files
<1>1. /\ phase = "sign"
      /\ UNCHANGED <<source, signing, config, at, file_to_hash_map, dest>>
  BY DEF Sign
<1>2. /\ Origin' = Origin /\ TryRead(source)' = TryRead(source) /\ SourceInv'
      /\ (signing \in Signings)' /\ ImagesOf(Origin)' = ImagesOf(Origin)
      /\ KeptFiles' = KeptFiles
  BY <1>1, SourceStays
<1>3. /\ IsArchive(archive) /\ IsDescribed(archive) /\ signing \in {"works", "fails"}
      /\ AllKept(archive.m_files, files, Origin, hashes)
      /\ \A n \in DOMAIN hashes : n \in ImagesOf(Origin) \ {SW_DESCRIPTION, SIG_FILE_NAME}
      /\ \A k \in DOMAIN config.entries :
            config.entries[k].group < config.gap => IsHashed(config.entries[k], hashes)
  BY <1>1 DEF IInv, ConfigInv, UnderWay, DescribedInv, Signings
<1>4. has_file(archive, SIG_FILE_NAME)
  <2>1. \E k \in 1 .. Len(archive.m_files) : archive.m_files[k].name = SW_DESCRIPTION
    BY <1>3 DEF IsDescribed
  <2>2. Len(archive.m_files) \in Nat BY <1>3, IsSequenceIs DEF IsArchive, AllLaid
  <2> QED BY <2>1, <2>2 DEF has_file, get_file_index
<1>5. ConfigInv' <=> (phase' \in {"images", "sign", "write", "done"} => ConfigInv)
  BY <1>1, <1>2 DEF ConfigInv, UnderWay
<1>6. CASE signing = "fails"
  <2>1. phase' = "failed" BY <1>6 DEF Sign
  <2> QED BY <1>1, <1>2, <1>6, <2>1 DEF IInv, Untouched, ConfigInv, UnderWay, ImagesInv,
                 DescribedInv, SignedInv, DestInv, FailsBeforeItWrites
<1>7. CASE signing = "works"
  <2> DEFINE p == Signature(Description)
  <2>1. archive' = set_payload_reader(archive, SIG_FILE_NAME, p) /\ phase' = "write"
    BY <1>4, <1>7 DEF Sign
  <2>2. IsPayload(p) BY SignatureIs
  <2> HIDE DEF p
  <2>3. /\ IsArchive(archive') /\ Len(archive'.m_files) = Len(archive.m_files)
        /\ \A k \in 1 .. Len(archive.m_files) :
              /\ archive'.m_files[k].name = archive.m_files[k].name
              /\ archive'.m_files[k].payload = IF archive.m_files[k].name = SIG_FILE_NAME
                                               THEN p ELSE archive.m_files[k].payload
    BY <1>3, <2>1, <2>2, SetPayloadIs
  <2>4. /\ Len(archive.m_files) = Len(files)
        /\ \A k \in 1 .. Len(files) : IsKept(archive.m_files[k], files[k], Origin, hashes)
    BY <1>3 DEF AllKept
  <2>5. AllKept(archive'.m_files, KeptFiles, Origin, hashes)
    <3>1. ASSUME NEW k \in 1 .. Len(files)
          PROVE  IsKept(archive'.m_files[k], files[k], Origin, hashes)
      BY <1>3, <2>3, <2>4 DEF IsKept
    <3>2. KeptFiles = files BY <1>7 DEF KeptFiles
    <3> QED BY <2>3, <2>4, <3>1, <3>2 DEF AllKept
  <2>6. Description' = Description BY <1>1 DEF Description
  <2>7. IsDescribed(archive)'
    <3>1. SW_DESCRIPTION # SIG_FILE_NAME BY DEF SW_DESCRIPTION, SIG_FILE_NAME
    <3> QED BY <1>3, <2>3, <2>6, <3>1 DEF IsDescribed
  <2>8. DescribedInv' BY <1>1, <1>2, <1>3, <2>1, <2>3, <2>5, <2>7 DEF DescribedInv
  <2>9. SignedInv' BY <2>3, <2>6 DEF SignedInv, p
  <2>10. ConfigInv' BY <1>5 DEF IInv
  <2> QED BY <1>1, <1>2, <2>1, <2>8, <2>9, <2>10 DEF IInv, Untouched, ImagesInv, DestInv,
                 FailsBeforeItWrites
<1> QED BY <1>3, <1>6, <1>7

LEMMA WriteStep == ASSUME IInv, WriteUpdate PROVE IInv'
<1>1. /\ phase = "write" /\ phase' = "done" /\ dest' = Written(archive)
      /\ UNCHANGED <<source, signing, archive, config, at, file_to_hash_map>>
  BY DEF WriteUpdate
<1>2. /\ Origin' = Origin /\ TryRead(source)' = TryRead(source) /\ SourceInv'
      /\ (signing \in Signings)' /\ ImagesOf(Origin)' = ImagesOf(Origin)
      /\ KeptFiles' = KeptFiles
  BY <1>1, SourceStays
<1>3. Description' = Description BY <1>1 DEF Description
<1>4. ConfigInv' BY <1>1, <1>2 DEF IInv, ConfigInv, UnderWay
<1>5. DescribedInv' BY <1>1, <1>2, <1>3 DEF IInv, DescribedInv, IsDescribed
<1>6. SignedInv' BY <1>1, <1>3 DEF IInv, SignedInv
<1> QED BY <1>1, <1>2, <1>4, <1>5, <1>6 DEF IInv, Untouched, ImagesInv, DestInv,
               FailsBeforeItWrites

LEMMA Quiescent == ASSUME IInv, UNCHANGED toolVars PROVE IInv'
BY DEF toolVars, IInv, SourceInv, Origin, Untouched, ConfigInv, UnderWay, ImagesInv, ImagesOf,
       DescribedInv, IsDescribed, Description, KeptFiles, SignedInv, DestInv,
       FailsBeforeItWrites

\* The members are those that were read, the entries have the hashes of what was
\* put there, and the destination is as it was until the description is written,
\* in every state of the tool.
THEOREM Invariance == ToolSpec => []IInv
<1>1. ToolInit => IInv BY Initially
<1>2. IInv /\ [ToolNext]_toolVars => IInv'
  <2> SUFFICES ASSUME IInv, [ToolNext]_toolVars PROVE IInv' OBVIOUS
  <2>1. CASE ReadArchive BY <2>1, ReadArchiveStep
  <2>2. CASE RecompressImage BY <2>2, RecompressImageStep
  <2>3. CASE ImageDone BY <2>3, ImageDoneStep
  <2>4. CASE Describe BY <2>4, DescribeStep
  <2>5. CASE Sign BY <2>5, SignStep
  <2>6. CASE WriteUpdate BY <2>6, WriteStep
  <2>7. CASE UNCHANGED toolVars BY <2>7, Quiescent
  <2> QED BY <2>1, <2>2, <2>3, <2>4, <2>5, <2>6, <2>7 DEF ToolNext
<1> QED BY <1>1, <1>2, PTL DEF ToolSpec

\* What the update that was made is.
LEMMA MadeIs ==
  ASSUME IInv, phase = "done"
  PROVE  /\ TryRead(dest).result = "read" /\ Made.m_files = archive.m_files
         /\ load_config(Made) = Description
<1>1. IsArchive(archive) /\ IsDescribed(archive) /\ dest = Written(archive)
  BY DEF IInv, DescribedInv, DestInv
<1> DEFINE files == archive.m_files
<1>2. TryRead(dest) = [result |-> "read", archive |-> AsRead(files)]
  <2>1. 0 <= Written(archive).size /\ [Written(archive) EXCEPT !.size = @ - 0] = dest
    <3> DEFINE all == WithTrailer(archive)
               n == Len(all)
    <3>1. Ended(all) /\ n \in Nat BY <1>1, TrailerEnds, IsSequenceIs DEF Ended, AllLaid
    <3>2. LaidOut(all, n) BY <3>1, AllLaidOut DEF Ended
    <3>3. dest = Images(all)[n] BY <1>1 DEF Written
    <3>4. dest.size \in Nat /\ dest = [headers |-> dest.headers, payloads |-> dest.payloads,
                                       size |-> dest.size]
      BY <3>2, <3>3 DEF LaidOut, Start
    <3>5. PICK x, y, z : dest = [headers |-> x, payloads |-> y, size |-> z] BY <3>4
    <3>6. [dest EXCEPT !.size = @ - 0] = [headers |-> x, payloads |-> y, size |-> z]
      BY <3>4, <3>5
    <3> QED BY <1>1, <3>4, <3>5, <3>6
  <2> QED BY <1>1, <2>1, RoundTrip
<1>3. Made = AsRead(files) BY <1>2 DEF Made
<1>4. load_config(AsRead(files)) = Description
  <2>1. IsSequence(files) BY <1>1 DEF IsArchive, AllLaid
  <2>2. PICK k \in 1 .. Len(files) : files[k].name = SW_DESCRIPTION BY <1>1 DEF IsDescribed
  <2>3. SW_DESCRIPTION \in DOMAIN LastPayloads(files) BY <2>1, <2>2, LastPayloadsAre
  <2>4. PICK i \in 1 .. Len(files) :
           /\ files[i].name = SW_DESCRIPTION
           /\ LastPayloads(files)[SW_DESCRIPTION] = files[i].payload
    BY <2>1, <2>2, LastPayloadsAre
  <2>5. files[i].payload = Description BY <1>1, <2>4 DEF IsDescribed
  <2> QED BY <2>3, <2>4, <2>5 DEF load_config, get_payload_reader, AsRead
<1> QED BY <1>2, <1>3, <1>4 DEF AsRead

\* The update that was made has the members of the one that was read, every entry
\* of its description up to a group without images has the hash of the image it
\* names, its signature is of its own description, and what was there before is
\* lost for nothing less.
THEOREM UpdatesAreSound == ToolSpec => []UpdateIsSound
<1>1. IInv => UpdateIsSound
  <2> SUFFICES ASSUME IInv PROVE UpdateIsSound OBVIOUS
  <2>1. FailsBeforeItWrites BY DEF IInv, DestInv
  <2> DEFINE files == archive.m_files
             hashes == file_to_hash_map
  <2>2. CASE phase # "done"
    BY <2>1, <2>2 DEF UpdateIsSound, HashesAreOfImages, KeepsTheRest, SignatureIsOfDescription
  <2>3. CASE phase = "done"
    <3>1. /\ TryRead(dest).result = "read" /\ Made.m_files = files
          /\ load_config(Made) = Description
      BY <2>3, MadeIs
    <3>2. /\ IsArchive(archive) /\ IsDescribed(archive)
          /\ AllKept(files, KeptFiles, Origin, hashes)
          /\ \A k \in DOMAIN config.entries :
                config.entries[k].group < config.gap => IsHashed(config.entries[k], hashes)
          /\ IsPayload(config) /\ IsDescription(config)
          /\ \A n \in DOMAIN hashes : n \in ImagesOf(Origin) \ {SW_DESCRIPTION, SIG_FILE_NAME}
          /\ \A k \in 1 .. Len(files) :
                files[k].name = SIG_FILE_NAME => files[k].payload = Signature(Description)
      BY <2>3 DEF IInv, ConfigInv, UnderWay, DescribedInv, SignedInv
    <3>3. DOMAIN files = 1 .. Len(files) /\ Len(files) \in Nat
      BY <3>2, IsSequenceIs DEF IsArchive, AllLaid
    <3>4. /\ Len(files) = Len(KeptFiles)
          /\ \A k \in 1 .. Len(files) : IsKept(files[k], KeptFiles[k], Origin, hashes)
      BY <3>2 DEF AllKept
    <3>5. HashesAreOfImages
      <4>1. Description.entries = config.entries /\ Description.gap = config.gap
        BY <3>2, DescriptionIs
      <4>2. ASSUME NEW k \in DOMAIN config.entries, config.entries[k].group < config.gap,
                   NEW i \in 1 .. Len(files), files[i].name = config.entries[k].file
            PROVE  hash_reader(files[i].payload) = config.entries[k].sha256
        BY <3>2, <3>4, <4>2 DEF IsHashed, IsKept
      <4> QED BY <3>1, <3>3, <4>1, <4>2 DEF HashesAreOfImages, PayloadsIn
    <3>6. SignatureIsOfDescription
      BY <3>1, <3>2, <3>3 DEF SignatureIsOfDescription, PayloadsIn
    <3>7. KeepsTheRest
      <4>1. DOMAIN KeptFiles = 1 .. Len(files)
        <5>1. IsSequence(Origin.m_files)
          BY <2>3 DEF IInv, ConfigInv, UnderWay, SourceInv, IsOrigin, IsArchive, AllLaid
        <5>2. IsSequence(KeptFiles)
          BY <5>1, WithoutParallel DEF KeptFiles, Parallel
        <5> QED BY <3>4, <5>2, IsSequenceIs
      <4>2. ASSUME NEW k \in 1 .. Len(files)
            PROVE  /\ files[k].name = KeptFiles[k].name
                   /\ \/ KeptFiles[k].name \in {SW_DESCRIPTION, SIG_FILE_NAME}
                      \/ /\ KeptFiles[k].name \in ImagesOf(Origin)
                         /\ Plain(files[k].payload)
                               = Plain(get_payload_reader(Origin, KeptFiles[k].name))
                      \/ files[k].payload = KeptFiles[k].payload
        BY <3>2, <3>4 DEF IsKept
      <4> QED BY <3>1, <3>4, <4>1, <4>2
          DEF KeepsTheRest, KeptFiles, KeptOf, MembersAreKept, MemberIsKept
    <3> QED BY <2>1, <3>5, <3>6, <3>7 DEF UpdateIsSound
  <2> QED BY <2>2, <2>3
<1> QED BY <1>1, Invariance, PTL

=============================================================================

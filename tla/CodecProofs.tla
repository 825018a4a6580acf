---------------------------- MODULE CodecProofs ----------------------------
(***************************************************************************)
(* What a call of zlib or zstd can answer, for every coding; that the      *)
(* readers hand on and the writers pass on the stream, for every coding,   *)
(* every cut of the input and every size of the buffers.                   *)
(***************************************************************************)
EXTENDS CodecReaders, CodecWriters, TLAPS

States == [eaten : Nat, given : Nat, ended : BOOLEAN, full : BOOLEAN, hint : Nat]

Rets == {"ok", "end", "buf_error", "stream_error", "error"}

IsAnswer(r, s, in, out) ==
    /\ r.z \in States /\ r.ate \in 0 .. in /\ r.gave \in 0 .. out /\ r.ret \in Rets
    /\ r.z.eaten = s.eaten + r.ate /\ r.z.given = s.given + r.gave

\* A coding gives more and more.
LEMMA MadeIs ==
  ASSUME NEW c, IsCoding(c)
  PROVE  /\ c.size \in Nat \ {0} /\ c.rest \in Nat \ {0}
         /\ \A k \in 0 .. c.size : c.made[k] \in Nat
         /\ \A k, m \in 0 .. c.size : k <= m => c.made[k] <= c.made[m]
BY DEF IsCoding

\* Work that leaves room has given all that it can.
LEMMA WorkIs ==
  ASSUME NEW s \in States, NEW in \in Nat, NEW out \in Nat, NEW made,
         NEW w \in Work(s, in, out, made)
  PROVE  /\ w \in [ate : 0 .. in, gave : 0 .. out]
         /\ w.ate = in \/ w.gave = out
         /\ made[w.ate] \in Nat =>
              /\ s.given + w.gave <= made[w.ate]
              /\ w.gave = out \/ s.given + w.gave = made[w.ate]
BY DEF Work, Lesser, States

LEMMA ResultIs ==
  ASSUME NEW s \in States, NEW in \in Nat, NEW out \in Nat, NEW room \in Nat,
         NEW w \in [ate : 0 .. in, gave : 0 .. out],
         NEW end \in BOOLEAN, NEW h \in Nat, NEW ret \in Rets
  PROVE  LET r == Result(s, w, room, end, h, ret)
         IN /\ IsAnswer(r, s, in, out)
            /\ r.ate = w.ate /\ r.gave = w.gave /\ r.ret = ret
            /\ (r.z.ended <=> end) /\ r.z.hint = h
BY DEF Result, IsAnswer, States

LEMMA KeptIs ==
  ASSUME NEW s \in States, NEW in \in Nat, NEW out \in Nat, NEW ret \in Rets
  PROVE  LET r == Kept(s, ret)
         IN /\ IsAnswer(r, s, in, out) /\ r.ate = 0 /\ r.gave = 0 /\ r.ret = ret
            /\ (r.z.ended <=> s.ended)
<1>1. Idle \in [ate : 0 .. in, gave : 0 .. out] /\ Idle.ate = 0 /\ Idle.gave = 0
  BY DEF Idle
<1>2. s.ended \in BOOLEAN BY DEF States
<1> QED BY <1>1, <1>2, ResultIs DEF Kept

\* Zlib, going on: the stream ends nowhere, and the call fails only when there is
\* nothing to do.
LEMMA DeflateOnIs ==
  ASSUME NEW c, IsCoding(c), NEW s \in States, NEW in \in Nat, NEW out \in Nat \ {0},
         NEW r \in DeflateOn(c, s, in, out)
  PROVE  /\ IsAnswer(r, s, in, out) /\ (r.z.ended <=> s.ended)
         /\ s.ended => r.ret = "stream_error" /\ r.ate = 0 /\ r.gave = 0
         /\ ~s.ended =>
              /\ r.ret \in {"ok", "buf_error"}
              /\ r.ret = "buf_error" =>
                   in = 0 /\ r.ate = 0 /\ r.gave = 0 /\ s.given = c.made[s.eaten]
              /\ s.eaten + in <= c.size => r.z.given <= c.made[r.z.eaten]
<1>1. CASE s.ended
  <2>1. r = Kept(s, "stream_error") BY <1>1 DEF DeflateOn
  <2> QED BY <1>1, <2>1, KeptIs DEF Rets
<1>2. CASE ~s.ended /\ in = 0 /\ s.given = c.made[s.eaten]
  <2>1. PICK ret \in {"ok", "buf_error"} : r = Result(s, Idle, 1, FALSE, 0, ret)
    BY <1>2 DEF DeflateOn, CannotGoOn
  <2>2. Idle \in [ate : 0 .. in, gave : 0 .. out] /\ Idle.ate = 0 /\ Idle.gave = 0
    BY DEF Idle
  <2>3. IsAnswer(r, s, in, out) /\ r.ate = 0 /\ r.gave = 0 /\ r.ret = ret
          /\ ~r.z.ended
    BY <2>1, <2>2 DEF Result, IsAnswer, States, Rets
  <2>4. r.z.eaten = s.eaten /\ r.z.given = s.given /\ s.given \in Nat
    BY <2>3 DEF IsAnswer, States
  <2>5. r.z.given <= c.made[r.z.eaten] BY <1>2, <2>4
  <2> QED BY <1>2, <2>1, <2>3, <2>5
<1>3. CASE ~s.ended /\ ~(in = 0 /\ s.given = c.made[s.eaten])
  <2> DEFINE made == [e \in 0 .. in |-> c.made[s.eaten + e]]
  <2>1. PICK w \in Work(s, in, out, made) : r = Result(s, w, out, FALSE, 0, "ok")
    BY <1>3 DEF DeflateOn
  <2>2. /\ w \in [ate : 0 .. in, gave : 0 .. out]
        /\ made[w.ate] \in Nat => s.given + w.gave <= made[w.ate]
    BY WorkIs
  <2>3. IsAnswer(r, s, in, out) /\ r.ate = w.ate /\ r.gave = w.gave /\ r.ret = "ok"
          /\ ~r.z.ended
    BY <2>1, <2>2 DEF Result, IsAnswer, States, Rets
  <2>4. s.eaten + in <= c.size => made[w.ate] = c.made[r.z.eaten] /\ made[w.ate] \in Nat
    BY <2>2, <2>3 DEF IsAnswer, IsCoding, States
  <2>5. s.eaten + in <= c.size => r.z.given <= c.made[r.z.eaten]
    BY <2>2, <2>3, <2>4 DEF IsAnswer
  <2> QED BY <1>3, <2>3, <2>5
<1> QED BY <1>1, <1>2, <1>3

\* Zlib, to the end: the end is reported when all that was given in was eaten and
\* everything was given out.
LEMMA DeflateToEndIs ==
  ASSUME NEW c, IsCoding(c), NEW s \in States, NEW in \in Nat, NEW out \in Nat \ {0},
         NEW r \in DeflateToEnd(c, s, in, out)
  PROVE  /\ IsAnswer(r, s, in, out)
         /\ r.z.ended <=> s.ended \/ r.ret = "end"
         /\ r.ret \in {"ok", "end", "buf_error"}
         /\ r.ret = "buf_error" <=> s.ended /\ in > 0
         /\ s.ended => r.ate = 0 /\ r.gave = 0 /\ r.ret # "ok"
         /\ ~s.ended /\ r.ret = "end" => r.ate = in
         /\ ~s.ended /\ s.eaten + in <= c.size =>
              /\ r.z.given <= c.made[r.z.eaten] + c.rest
              /\ r.ret = "end" => r.z.given = c.made[r.z.eaten] + c.rest
              /\ r.ret = "ok" => r.gave = out
<1>1. CASE s.ended /\ in > 0
  <2>1. r = Kept(s, "buf_error") BY <1>1 DEF DeflateToEnd
  <2> QED BY <1>1, <2>1, KeptIs DEF Rets
<1>2. CASE s.ended /\ ~(in > 0)
  <2>1. r = Kept(s, "end") BY <1>2 DEF DeflateToEnd
  <2> QED BY <1>2, <2>1, KeptIs DEF Rets
<1>3. CASE ~s.ended
  <2> DEFINE made == [e \in 0 .. in |-> c.made[s.eaten + e]
                                        + (IF e = in THEN c.rest ELSE 0)]
  <2>1. PICK w \in Work(s, in, out, made) :
          \/ r = Result(s, w, out, TRUE, 0, "end") /\ Finishes(c, s, in, w)
          \/ /\ r = Result(s, w, out, FALSE, 0, "ok")
             /\ Finishes(c, s, in, w) => w.gave = out
    BY <1>3 DEF DeflateToEnd
  <2>2. /\ w \in [ate : 0 .. in, gave : 0 .. out]
        /\ w.ate = in \/ w.gave = out
        /\ made[w.ate] \in Nat =>
             /\ s.given + w.gave <= made[w.ate]
             /\ w.gave = out \/ s.given + w.gave = made[w.ate]
    BY WorkIs
  <2>3. /\ IsAnswer(r, s, in, out) /\ r.ate = w.ate /\ r.gave = w.gave
        /\ \/ r.ret = "end" /\ r.z.ended /\ Finishes(c, s, in, w)
           \/ r.ret = "ok" /\ ~r.z.ended /\ (Finishes(c, s, in, w) => w.gave = out)
    <3>1. CASE r = Result(s, w, out, TRUE, 0, "end") /\ Finishes(c, s, in, w)
      BY <2>2, <3>1 DEF Result, IsAnswer, States, Rets
    <3>2. CASE /\ r = Result(s, w, out, FALSE, 0, "ok")
               /\ Finishes(c, s, in, w) => w.gave = out
      BY <2>2, <3>2 DEF Result, IsAnswer, States, Rets
    <3> QED BY <2>1, <3>1, <3>2
  <2>4. ASSUME s.eaten + in <= c.size
        PROVE  /\ r.z.given <= c.made[r.z.eaten] + c.rest
               /\ r.ret = "end" => r.z.given = c.made[r.z.eaten] + c.rest
               /\ r.ret = "ok" => r.gave = out
    <3>1. /\ r.z.eaten = s.eaten + w.ate /\ w.ate \in 0 .. in
          /\ r.z.given = s.given + w.gave /\ c.rest \in Nat
          /\ c.made[r.z.eaten] \in Nat /\ r.z.given \in Nat
      <4>1. /\ r.z.eaten = s.eaten + w.ate /\ w.ate \in 0 .. in
            /\ r.z.given = s.given + w.gave /\ r.z.given \in Nat
        BY <2>3 DEF IsAnswer, States
      <4>2. r.z.eaten \in 0 .. c.size BY <2>4, <4>1 DEF IsCoding, States
      <4> QED BY <4>1, <4>2 DEF IsCoding
    <3>2. /\ made[w.ate] = c.made[r.z.eaten] + (IF w.ate = in THEN c.rest ELSE 0)
          /\ made[w.ate] \in Nat
      <4>1. made[w.ate] = c.made[s.eaten + w.ate] + (IF w.ate = in THEN c.rest ELSE 0)
        BY <3>1
      <4> HIDE DEF made
      <4> QED BY <3>1, <4>1
    <3>3. r.z.given <= made[w.ate] BY <2>2, <3>1, <3>2
    <3>4. r.ret = "end" => Finishes(c, s, in, w) BY <2>3
    <3>5. r.ret = "ok" => r.gave = out
      <4>1. SUFFICES ASSUME r.ret = "ok", w.gave # out PROVE FALSE BY <2>3
      <4>2. w.ate = in /\ s.given + w.gave = made[w.ate] BY <2>2, <3>2, <4>1
      <4> HIDE DEF made
      <4>3. Finishes(c, s, in, w) BY <3>1, <3>2, <4>2 DEF Finishes
      <4> QED BY <2>3, <4>1, <4>3
    <3> QED BY <2>3, <3>1, <3>2, <3>3, <3>4, <3>5 DEF Finishes
  <2>5. r.ret = "end" => r.ate = in BY <2>3 DEF Finishes
  <2> QED BY <1>3, <2>3, <2>4, <2>5
<1> QED BY <1>1, <1>2, <1>3

\* What a compressed input holds, until its end.
Within(c, s) == s.eaten <= c.size /\ s.given <= c.made[s.eaten]

Complete(c, s) == s.eaten = c.size /\ s.given = c.made[c.size]

\* Zlib: the end of the input is found when everything was eaten and given, and
\* the call fails only with nothing to eat and nothing to give.
LEMMA InflateIs ==
  ASSUME NEW c, IsCoding(c), NEW s \in States, NEW in \in Nat, NEW out \in Nat \ {0},
         NEW r \in Inflate(c, s, in, out), s.ended \/ s.eaten <= c.size
  PROVE  /\ IsAnswer(r, s, in, out)
         /\ r.z.ended <=> s.ended \/ r.ret = "end"
         /\ s.ended => r.ret = "stream_error" /\ r.ate = 0 /\ r.gave = 0
         /\ ~s.ended =>
              /\ r.ret \in {"ok", "end", "buf_error"}
              /\ Within(c, r.z)
              /\ r.ret = "end" <=> Complete(c, r.z)
              /\ r.ret = "buf_error" =>
                    /\ r.ate = 0 /\ r.gave = 0
                    /\ ~Complete(c, s) => in = 0 /\ s.given = c.made[s.eaten]
<1>1. CASE s.ended
  <2>1. r = Kept(s, "stream_error") BY <1>1 DEF Inflate
  <2> QED BY <1>1, <2>1, KeptIs DEF Rets
<1>2. CASE ~s.ended
  <2> DEFINE own  == Lesser(in, c.size - s.eaten)
             made == [e \in 0 .. own |-> c.made[s.eaten + e]]
             ends(w) == s.eaten + w.ate = c.size /\ s.given + w.gave = c.made[c.size]
             ret(w) == IF ends(w) THEN "end" ELSE IF w = Idle THEN "buf_error" ELSE "ok"
  <2>1. PICK w \in Work(s, own, out, made) :
          r = Result(s, w, out, ends(w), 0, ret(w))
    BY <1>2 DEF Inflate
  <2>2. own \in Nat /\ own <= in /\ s.eaten + own <= c.size
        /\ (own = 0 => in = 0 \/ s.eaten = c.size)
    BY <1>2 DEF Lesser, States, IsCoding
  <2>3. /\ w \in [ate : 0 .. own, gave : 0 .. out]
        /\ w.ate = own \/ w.gave = out
        /\ made[w.ate] \in Nat =>
             /\ s.given + w.gave <= made[w.ate]
             /\ w.gave = out \/ s.given + w.gave = made[w.ate]
    BY <2>2, WorkIs
  <2>4. w \in [ate : 0 .. in, gave : 0 .. out] BY <2>2, <2>3
  <2>5. ret(w) \in Rets /\ ends(w) \in BOOLEAN BY DEF Rets
  <2>6. /\ IsAnswer(r, s, in, out) /\ r.ate = w.ate /\ r.gave = w.gave
        /\ r.ret = ret(w) /\ (r.z.ended <=> ends(w))
    <3> HIDE DEF ends, ret
    <3> QED BY <2>1, <2>4, <2>5 DEF Result, IsAnswer, States
  <2>11. /\ made[w.ate] = c.made[r.z.eaten] /\ made[w.ate] \in Nat
         /\ r.z.eaten <= c.size /\ r.z.given = s.given + w.gave
    <3> HIDE DEF ends, ret
    <3>1. w.ate \in 0 .. own BY <2>3
    <3>2. s.eaten + w.ate \in 0 .. c.size BY <2>2, <3>1 DEF IsCoding, States
    <3>3. r.z.eaten = s.eaten + w.ate BY <2>6 DEF IsAnswer
    <3>4. r.z.given = s.given + w.gave BY <2>6 DEF IsAnswer
    <3> QED BY <3>1, <3>2, <3>3, <3>4 DEF IsCoding
  <2>7. /\ made[w.ate] = c.made[r.z.eaten] /\ made[w.ate] \in Nat
        /\ r.z.eaten <= c.size
        /\ r.z.given <= c.made[r.z.eaten]
        /\ w.gave = out \/ r.z.given = c.made[r.z.eaten]
    BY <2>3, <2>11
  <2>8. ends(w) <=> Complete(c, r.z) BY <2>6 DEF IsAnswer, Complete
  <2>9. ASSUME w = Idle, ~ends(w), ~Complete(c, s)
        PROVE  in = 0 /\ s.given = c.made[s.eaten]
    <3>1. w.ate = 0 /\ w.gave = 0 BY <2>9 DEF Idle
    <3>2. r.z.eaten = s.eaten /\ r.z.given = s.given
      BY <2>6, <3>1 DEF IsAnswer, States
    <3>3. s.given = c.made[s.eaten] BY <2>7, <3>1, <3>2
    <3>4. own = 0 BY <2>3, <3>1
    <3> QED BY <2>2, <2>9, <3>3, <3>4 DEF Complete
  <2>10. w = Idle => w.ate = 0 /\ w.gave = 0 BY DEF Idle
  <2> QED BY <1>2, <2>5, <2>6, <2>7, <2>8, <2>9, <2>10 DEF Within
<1> QED BY <1>1, <1>2

\* Zstd, going on: it never ends a frame.
LEMMA CompressOnIs ==
  ASSUME NEW c, IsCoding(c), NEW s \in States, NEW in \in Nat, NEW out \in Nat \ {0},
         NEW r \in CompressOn(c, s, in, out)
  PROVE  /\ IsAnswer(r, s, in, out) /\ ~r.z.ended /\ r.ret = "ok"
         /\ s.eaten + in <= c.size => r.z.given <= c.made[r.z.eaten]
<1> DEFINE made == [e \in 0 .. in |-> c.made[s.eaten + e]]
<1>0. PICK w \in Work(s, in, out, made) :
        \E h \in Said(s, w) : r = Result(s, w, out, FALSE, h, "ok")
  BY DEF CompressOn
<1>1. PICK h \in Said(s, w) : r = Result(s, w, out, FALSE, h, "ok") BY <1>0
<1>2. /\ w \in [ate : 0 .. in, gave : 0 .. out]
      /\ made[w.ate] \in Nat => s.given + w.gave <= made[w.ate]
  BY WorkIs
<1>3. h \in Nat BY DEF Said, Hints, States
<1>4. IsAnswer(r, s, in, out) /\ r.ate = w.ate /\ r.gave = w.gave /\ r.ret = "ok"
        /\ ~r.z.ended
  BY <1>1, <1>2, <1>3 DEF Result, IsAnswer, States, Rets
<1>5. s.eaten + in <= c.size => made[w.ate] = c.made[r.z.eaten] /\ made[w.ate] \in Nat
  BY <1>2, <1>4 DEF IsAnswer, IsCoding, States
<1>6. s.eaten + in <= c.size => r.z.given <= c.made[r.z.eaten]
  BY <1>2, <1>4, <1>5 DEF IsAnswer
<1> QED BY <1>4, <1>6

\* Zstd, to the end: it says 0 when the frame is complete.
LEMMA CompressToEndIs ==
  ASSUME NEW c, IsCoding(c), NEW s \in States, NEW in \in Nat, NEW out \in Nat \ {0},
         NEW r \in CompressToEnd(c, s, in, out)
  PROVE  /\ IsAnswer(r, s, in, out) /\ r.ret = "ok"
         /\ s.ended => r.z.ended
         /\ ~s.ended =>
              /\ r.z.ended <=> r.z.hint = 0
              /\ s.eaten + in <= c.size =>
                   /\ r.z.given <= c.made[r.z.eaten]
                                   + (IF r.ate = in THEN c.rest ELSE 0)
                   /\ r.z.ended => /\ r.ate = in
                                   /\ r.z.given = c.made[r.z.eaten] + c.rest
                   /\ ~r.z.ended => /\ r.gave = out
                                    /\ r.z.given < c.made[s.eaten + in] + c.rest
<1>1. CASE s.ended
  <2> DEFINE gave == Lesser(out, c.rest)
             w == [ate |-> 0, gave |-> gave]
             h == IF gave = c.rest THEN 0 ELSE 1
  <2>1. r = Result(s, w, out, TRUE, h, "ok") BY <1>1 DEF CompressToEnd
  <2>2. w \in [ate : 0 .. in, gave : 0 .. out] BY DEF Lesser, IsCoding
  <2>3. h \in Nat OBVIOUS
  <2> HIDE DEF w, h
  <2>4. IsAnswer(r, s, in, out) /\ r.ret = "ok" /\ r.z.ended
    BY <2>1, <2>2, <2>3 DEF Result, IsAnswer, States, Rets
  <2> QED BY <1>1, <2>4
<1>2. CASE ~s.ended
  <2> DEFINE made == [e \in 0 .. in |-> c.made[s.eaten + e]
                                        + (IF e = in THEN c.rest ELSE 0)]
             h(w) == IF Finishes(c, s, in, w) THEN 0 ELSE 1
  <2>1. PICK w \in Work(s, in, out, made) :
          r = Result(s, w, out, Finishes(c, s, in, w), h(w), "ok")
    BY <1>2 DEF CompressToEnd
  <2>2. /\ w \in [ate : 0 .. in, gave : 0 .. out]
        /\ w.ate = in \/ w.gave = out
        /\ made[w.ate] \in Nat =>
             /\ s.given + w.gave <= made[w.ate]
             /\ w.gave = out \/ s.given + w.gave = made[w.ate]
    BY WorkIs
  <2>3. h(w) \in Nat /\ (h(w) = 0 <=> Finishes(c, s, in, w)) OBVIOUS
  <2>4. Finishes(c, s, in, w) \in BOOLEAN BY DEF Finishes
  <2>5. /\ IsAnswer(r, s, in, out) /\ r.ate = w.ate /\ r.gave = w.gave /\ r.ret = "ok"
        /\ r.z.ended <=> Finishes(c, s, in, w)
        /\ r.z.hint = h(w)
    <3> HIDE DEF h
    <3> QED BY <2>1, <2>2, <2>3, <2>4 DEF Result, IsAnswer, States, Rets
  <2>6. ASSUME s.eaten + in <= c.size
        PROVE  /\ r.z.given <= c.made[r.z.eaten] + (IF r.ate = in THEN c.rest ELSE 0)
               /\ r.z.ended => /\ r.ate = in
                               /\ r.z.given = c.made[r.z.eaten] + c.rest
               /\ ~r.z.ended => /\ r.gave = out
                                /\ r.z.given < c.made[s.eaten + in] + c.rest
    <3>1. /\ r.z.eaten = s.eaten + w.ate /\ w.ate \in 0 .. in
          /\ r.z.given = s.given + w.gave /\ r.z.given \in Nat
      BY <2>5 DEF IsAnswer, States
    <3>2. r.z.eaten \in 0 .. c.size /\ c.rest \in Nat BY <2>6, <3>1 DEF IsCoding, States
    <3>3. c.made[r.z.eaten] \in Nat BY <3>2 DEF IsCoding
    <3>4. /\ made[w.ate] = c.made[r.z.eaten] + (IF w.ate = in THEN c.rest ELSE 0)
          /\ made[w.ate] \in Nat
      <4>1. made[w.ate] = c.made[s.eaten + w.ate] + (IF w.ate = in THEN c.rest ELSE 0)
        BY <3>1
      <4> HIDE DEF made
      <4> QED BY <3>1, <3>2, <3>3, <4>1
    <3>5. r.z.given <= made[w.ate] BY <2>2, <3>1, <3>4
    <3>6. ASSUME ~r.z.ended
          PROVE  r.gave = out /\ r.z.given < c.made[s.eaten + in] + c.rest
      <4>1. ~Finishes(c, s, in, w) BY <2>5, <3>6
      <4>2. c.made[s.eaten + in] \in Nat /\ c.made[r.z.eaten] <= c.made[s.eaten + in]
        <5>1. /\ s.eaten + in \in 0 .. c.size /\ s.eaten + in >= r.z.eaten
              /\ r.z.eaten \in 0 .. c.size
          BY <2>6, <3>1, <3>2 DEF IsCoding, States
        <5> QED BY <5>1, MadeIs
      <4>3. CASE w.ate = in
        <5>1. made[w.ate] = c.made[s.eaten + in] + c.rest BY <3>1, <3>4, <4>3
        <5>2. s.given + w.gave # c.made[s.eaten + in] + c.rest
          BY <4>1, <4>3 DEF Finishes
        <5> HIDE DEF made
        <5> QED BY <2>2, <2>5, <3>1, <3>2, <3>4, <3>5, <4>2, <5>1, <5>2
      <4>4. CASE w.ate # in
        <5>1. made[w.ate] = c.made[r.z.eaten] BY <3>3, <3>4, <4>4
        <5> HIDE DEF made
        <5>2. c.rest > 0 BY MadeIs
        <5> QED BY <2>2, <2>5, <3>1, <3>2, <3>3, <3>5, <4>2, <4>4, <5>1, <5>2
      <4> QED BY <4>3, <4>4
    <3> QED BY <2>5, <3>1, <3>4, <3>5, <3>6 DEF Finishes
  <2> QED BY <1>2, <2>3, <2>5, <2>6
<1> QED BY <1>1, <1>2

\* Zstd, reading: the end is reached with the last byte, which is eaten when
\* everything was given.
LEMMA DecompressStreamIs ==
  ASSUME NEW c, IsCoding(c), NEW s \in States, NEW in \in Nat, NEW out \in Nat \ {0},
         NEW r \in DecompressStream(c, s, in, out), s.eaten <= c.size
  PROVE  /\ IsAnswer(r, s, in, out)
         /\ r.ret = "error" <=> s.ended /\ in > 0
         /\ s.ended => r.z.ended /\ r.ate = 0 /\ r.gave = 0
         /\ ~s.ended =>
              /\ r.z.eaten <= c.size
              /\ r.z.ended <=> r.z.eaten = c.size
              /\ r.z.ended => r.z.given = c.made[c.size]
              /\ ~r.z.ended => r.z.hint > 0
              /\ \/ r.z.given <= c.made[r.z.eaten]
                 \/ /\ r.z.eaten + 1 = c.size /\ r.ate < in
                    /\ r.z.given <= c.made[c.size]
<1>1. CASE s.ended /\ in > 0
  <2>1. r = Kept(s, "error") BY <1>1 DEF DecompressStream
  <2> QED BY <1>1, <2>1, KeptIs DEF Rets
<1>2. CASE s.ended /\ ~(in > 0)
  <2>1. PICK h \in Said(s, Idle) : r = Result(s, Idle, out, TRUE, h, "ok")
    BY <1>2 DEF DecompressStream
  <2>2. Idle \in [ate : 0 .. in, gave : 0 .. out] /\ Idle.ate = 0 /\ Idle.gave = 0
    BY DEF Idle
  <2>3. h \in Nat BY DEF Said, Hints, States
  <2>4. IsAnswer(r, s, in, out) /\ r.ate = 0 /\ r.gave = 0 /\ r.ret = "ok"
          /\ r.z.ended
    BY <2>1, <2>2, <2>3 DEF Result, IsAnswer, States, Rets
  <2> QED BY <1>2, <2>4
<1>3. CASE ~s.ended
  <2> DEFINE own  == Lesser(in, c.size - s.eaten)
             last == s.eaten + own = c.size
             made == [e \in 0 .. own |->
                        IF last /\ e + 1 = own THEN c.made[c.size]
                                               ELSE c.made[s.eaten + e]]
             ends(w) == s.eaten + w.ate = c.size /\ s.given + w.gave = c.made[c.size]
  <2>1. PICK w \in Work(s, own, out, made) :
          /\ s.eaten + w.ate = c.size => s.given + w.gave = c.made[c.size]
          /\ \E h \in (IF ends(w) THEN {0} ELSE Said(s, w)) :
                r = Result(s, w, out, ends(w), h, "ok")
    BY <1>3 DEF DecompressStream
  <2>2. PICK h \in (IF ends(w) THEN {0} ELSE Said(s, w)) :
          r = Result(s, w, out, ends(w), h, "ok")
    BY <2>1
  <2>3. h \in Nat BY DEF Said, Hints, States
  <2>4. own \in Nat /\ own <= in /\ s.eaten + own <= c.size
    BY DEF Lesser, States, IsCoding
  <2>5. /\ w \in [ate : 0 .. own, gave : 0 .. out]
        /\ made[w.ate] \in Nat => s.given + w.gave <= made[w.ate]
    BY <2>4, WorkIs
  <2>6. w \in [ate : 0 .. in, gave : 0 .. out] BY <2>4, <2>5
  <2>7. ends(w) \in BOOLEAN OBVIOUS
  <2>8. /\ IsAnswer(r, s, in, out) /\ r.ate = w.ate /\ r.gave = w.gave /\ r.ret = "ok"
        /\ r.z.ended <=> ends(w)
        /\ r.z.hint = h
    <3> HIDE DEF ends
    <3> QED BY <2>2, <2>3, <2>6, <2>7 DEF Result, IsAnswer, States, Rets
  <2>16. ~r.z.ended => r.z.hint > 0 BY <2>3, <2>8 DEF Said, Hints, States
  <2>9. r.z.eaten = s.eaten + w.ate /\ r.z.given = s.given + w.gave
    BY <2>8 DEF IsAnswer
  <2>10. r.z.ended <=> r.z.eaten = c.size BY <2>1, <2>8, <2>9
  <2>11. r.z.ended => r.z.given = c.made[c.size] BY <2>8, <2>9
  <2>12. w.ate \in 0 .. own /\ r.z.eaten \in 0 .. c.size /\ r.z.given \in Nat
    BY <2>4, <2>5, <2>8, <2>9 DEF IsAnswer, IsCoding, States
  <2>13. c.made[r.z.eaten] \in Nat /\ c.made[c.size] \in Nat BY <2>12 DEF IsCoding
  <2>14. CASE last /\ w.ate + 1 = own
    <3>1. made[w.ate] = c.made[c.size] BY <2>12, <2>14
    <3>2. r.z.given <= c.made[c.size] BY <2>5, <2>9, <2>13, <3>1
    <3>3. r.z.eaten + 1 = c.size /\ r.ate < in
      <4>1. s.eaten + own = c.size /\ w.ate + 1 = own BY <2>14
      <4>2. r.ate = w.ate /\ r.z.eaten = s.eaten + w.ate BY <2>8, <2>9
      <4>3. s.eaten \in Nat /\ c.size \in Nat /\ own \in Nat /\ own <= in /\ w.ate \in Nat
        BY <2>4, <2>12 DEF IsCoding, States
      <4> HIDE DEF own, made, last, ends
      <4> QED BY <4>1, <4>2, <4>3
    <3> QED BY <1>3, <2>8, <2>10, <2>11, <2>12, <2>16, <3>2, <3>3
  <2>15. CASE ~(last /\ w.ate + 1 = own)
    <3>1. made[w.ate] = c.made[r.z.eaten] BY <2>9, <2>12, <2>15
    <3>2. r.z.given <= c.made[r.z.eaten] BY <2>5, <2>9, <2>13, <3>1
    <3> QED BY <1>3, <2>8, <2>10, <2>11, <2>12, <2>16, <3>2
  <2> QED BY <2>14, <2>15
<1> QED BY <1>1, <1>2, <1>3

-----------------------------------------------------------------------------
(* Readers.  The invariant: the codec, the call, and what is special to    *)
(* each kind.                                                              *)

\* What was read of the input and not eaten is what is left of it.
CodecInv ==
    /\ coder \in States /\ left \in Nat /\ unread \in Nat
    /\ left <= input.supply
    /\ coder.eaten + unread = input.supply - left

\* What the codec gave is in the buffer of this call or of one that returned.
CallInv ==
    /\ step \in {"idle", "loop"} /\ asked \in Nat /\ got \in Nat
    /\ last_ret \in Nat /\ retry \in BOOLEAN /\ failed \in BOOLEAN
    /\ delivered \in Nat /\ m_read_offset = delivered
    /\ step = "loop" => got < asked /\ ~failed
    /\ ~failed => coder.given = delivered + (IF step = "loop" THEN got ELSE 0)

\* The last call gave less than was asked for.
Short == step = "idle" /\ ~failed /\ got < asked

ZlibCompressingReader ==
    Honest =>
       /\ ~failed
       /\ coder.ended => left = 0 /\ unread = 0 /\ coder.given = Whole
       /\ ~coder.ended => coder.given <= InputCoding.made[coder.eaten]
                             + (IF left = 0 THEN InputCoding.rest ELSE 0)
       /\ Short => coder.given = Whole

ZstdCompressingReader ==
    Honest =>
       /\ coder.ended => left = 0
       /\ ~coder.ended /\ ~failed => coder.given <= InputCoding.made[coder.eaten]
       /\ failed => coder.ended \/ delivered + asked < Whole
       /\ Short => coder.ended

ZlibDecompressingReader ==
    /\ ~coder.ended => coder.eaten <= InputCoding.size
    /\ Honest =>
          /\ ~coder.ended => Within(InputCoding, coder) /\ ~Complete(InputCoding, coder)
          /\ coder.ended => coder.given = Whole /\ delivered = Whole
          /\ failed => coder.ended
          /\ Short => delivered = Whole

ZstdDecompressingReader ==
    /\ coder.eaten <= InputCoding.size
    /\ Honest =>
          /\ coder.ended <=> coder.eaten = InputCoding.size
          /\ coder.ended => coder.given = Whole /\ delivered = Whole
          /\ coder.given <= Whole
          /\ failed => coder.ended /\ input.supply > InputCoding.size
          /\ Short => delivered = Whole

ReaderOfKind ==
    /\ input.kind = "zlib_compression"   => ZlibCompressingReader
    /\ input.kind = "zstd_compression"   => ZstdCompressingReader
    /\ input.kind = "zlib_decompression" => ZlibDecompressingReader
    /\ input.kind = "zstd_decompression" => ZstdDecompressingReader

ReaderIInv == input \in Inputs /\ CodecInv /\ CallInv /\ ReaderOfKind

-----------------------------------------------------------------------------
(* What every step has to do with the codec and the call.                  *)

\* What the assumption says of the stream that is read.
LEMMA InputIs ==
  ASSUME CodecReadersAssumption, input \in Inputs
  PROVE  /\ Block \in Nat \ {0} /\ Buffers \subseteq Nat \ {0}
         /\ input.kind \in Kinds /\ IsCoding(InputCoding)
         /\ input.supply \in Nat /\ input.declared \in Nat
         /\ Compresses(input.kind) =>
              input.supply <= InputCoding.size /\ input.declared <= InputCoding.size
BY DEF CodecReadersAssumption, InputCoding

LEMMA SameInput ==
  ASSUME input' = input
  PROVE  InputCoding' = InputCoding /\ Whole' = Whole /\ (Honest' <=> Honest)
<1>1. InputCoding' = InputCoding BY DEF InputCoding
<1>2. Whole' = Whole BY <1>1 DEF Whole
<1> QED BY <1>1, <1>2 DEF Honest

LEMMA WholeIs ==
  ASSUME CodecReadersAssumption, input \in Inputs
  PROVE  /\ Whole \in Nat
         /\ Compresses(input.kind) =>
              /\ Whole = InputCoding.made[input.declared] + InputCoding.rest
              /\ InputCoding.made[input.declared] \in Nat
         /\ ~Compresses(input.kind) => Whole = InputCoding.made[InputCoding.size]
<1>1. /\ InputCoding.size \in Nat /\ InputCoding.rest \in Nat /\ input.declared \in Nat
      /\ \A k \in 0 .. InputCoding.size : InputCoding.made[k] \in Nat
      /\ Compresses(input.kind) => input.declared <= InputCoding.size
  BY InputIs, MadeIs
<1>2. Compresses(input.kind) => InputCoding.made[input.declared] \in Nat BY <1>1
<1>3. InputCoding.made[InputCoding.size] \in Nat BY <1>1
<1> QED BY <1>1, <1>2, <1>3 DEF Whole

LEMMA PortionsAre ==
  ASSUME left \in Nat, NEW most \in Nat, NEW n \in Portions(most)
  PROVE  n \in 0 .. left /\ (n = 0 => left = 0 \/ most = 0)
BY DEF Portions, Lesser

\* A call that is running has room in its buffer.
LEMMA RoomIs ==
  ASSUME CallInv, step = "loop"
  PROVE  /\ Room \in Nat \ {0} /\ asked = got + Room
         /\ coder.given = delivered + got /\ ~failed
BY DEF CallInv, Room

LEMMA Eats ==
  ASSUME CodecReadersAssumption, input \in Inputs, CodecInv, NEW out \in Nat,
         NEW r, IsAnswer(r, coder, unread, out), Eaten(r), input' = input
  PROVE  CodecInv' /\ coder' = r.z /\ unread' = unread - r.ate /\ left' = left
<1>1. /\ coder' = r.z /\ unread' = unread - r.ate /\ left' = left
  BY DEF Eaten
<1>2. /\ r.z \in States /\ r.ate \in 0 .. unread /\ r.z.eaten = coder.eaten + r.ate
  BY DEF IsAnswer
<1>3. coder.eaten \in Nat /\ input.supply \in Nat BY InputIs DEF CodecInv, States
<1> QED BY <1>1, <1>2, <1>3 DEF CodecInv

\* Input is read when there is none left.
LEMMA Reads ==
  ASSUME CodecReadersAssumption, input \in Inputs, CodecInv, NEW out \in Nat,
         NEW r, IsAnswer(r, coder, unread, out), unread = r.ate, coder' = r.z,
         NEW most \in Nat, NEW n \in Portions(most), ReadsMore(n), input' = input
  PROVE  CodecInv' /\ left' = left - n /\ unread' = n /\ n \in 0 .. left
<1>1. left' = left - n /\ unread' = n BY DEF ReadsMore
<1>2. n \in 0 .. left /\ left \in Nat BY PortionsAre DEF CodecInv
<1>3. r.z \in States /\ r.z.eaten = coder.eaten + unread BY DEF IsAnswer
<1>4. coder.eaten \in Nat /\ unread \in Nat /\ input.supply \in Nat
  BY InputIs DEF CodecInv, States
<1> QED BY <1>1, <1>2, <1>3, <1>4 DEF CodecInv

LEMMA Returns ==
  ASSUME CallInv, step = "loop", NEW n \in Nat, Return(n),
         coder'.given = delivered + n
  PROVE  /\ CallInv' /\ step' = "idle" /\ ~failed' /\ got' = n /\ asked' = asked
         /\ delivered' = delivered + n
BY DEF CallInv, Return

LEMMA Throws ==
  ASSUME CallInv, Throw
  PROVE  /\ CallInv' /\ step' = "idle" /\ failed' /\ asked' = asked
         /\ delivered' = delivered
BY DEF CallInv, Throw

LEMMA GoesOn ==
  ASSUME CallInv, step = "loop", NEW n \in Nat, n < asked, got' = n,
         UNCHANGED <<step, asked, m_read_offset, failed, delivered>>,
         last_ret' \in Nat, retry' \in BOOLEAN, coder'.given = delivered + n
  PROVE  CallInv'
BY DEF CallInv

\* What the answer of a codec means for the call.
LEMMA AnswerIs ==
  ASSUME CallInv, CodecInv, step = "loop", NEW r, NEW in \in Nat,
         IsAnswer(r, coder, in, Room)
  PROVE  /\ r.gave \in 0 .. Room /\ r.ate \in 0 .. in
         /\ r.z.given \in Nat /\ r.z.eaten \in Nat /\ coder.eaten \in Nat
         /\ coder.given \in Nat /\ r.z.hint \in Nat
         /\ r.z.eaten = coder.eaten + r.ate /\ r.z.given = coder.given + r.gave
         /\ got + r.gave \in Nat /\ got + r.gave <= asked
         /\ r.z.given = delivered + (got + r.gave)
         /\ r.z.given - m_read_offset = got + r.gave
         /\ r.z.given - m_read_offset \in Nat
<1>1. Room \in Nat \ {0} /\ asked = got + Room /\ coder.given = delivered + got
  BY RoomIs
<1>2. r.gave \in 0 .. Room /\ r.ate \in 0 .. in /\ r.z \in States /\ coder \in States
      /\ r.z.eaten = coder.eaten + r.ate /\ r.z.given = coder.given + r.gave
  BY DEF IsAnswer, CodecInv
<1>3. /\ r.z.given \in Nat /\ r.z.eaten \in Nat /\ coder.eaten \in Nat
      /\ coder.given \in Nat /\ r.z.hint \in Nat
  BY <1>2 DEF States
<1>4. delivered \in Nat /\ got \in Nat /\ m_read_offset = delivered BY DEF CallInv
<1> QED BY <1>1, <1>2, <1>3, <1>4

LEMMA ReaderInitially == ASSUME CodecReadersAssumption, ReaderInit PROVE ReaderIInv
<1>1. coder \in States /\ coder.eaten = 0 /\ coder.given = 0 /\ ~coder.ended
  BY DEF ReaderInit, Fresh, States
<1>2. /\ input \in Inputs /\ left = input.supply /\ unread = 0 /\ m_read_offset = 0
      /\ step = "idle" /\ asked = 0 /\ got = 0 /\ last_ret = 0 /\ retry = FALSE
      /\ failed = FALSE /\ delivered = 0
  BY DEF ReaderInit
<1>3. /\ InputCoding.made[0] \in Nat /\ InputCoding.size \in Nat \ {0}
      /\ InputCoding.rest \in Nat /\ Whole \in Nat /\ input.supply \in Nat
  BY <1>2, InputIs, WholeIs, MadeIs
<1>4. CodecInv BY <1>1, <1>2, <1>3 DEF CodecInv
<1>5. retry \in BOOLEAN /\ failed \in BOOLEAN /\ step # "loop" BY <1>2
<1>6. CallInv BY <1>1, <1>2, <1>5 DEF CallInv
<1>7. ~Short BY <1>2 DEF Short
<1>8. ZlibCompressingReader /\ ZstdCompressingReader
  BY <1>1, <1>2, <1>3, <1>7 DEF ZlibCompressingReader, ZstdCompressingReader
<1>9. ZlibDecompressingReader /\ ZstdDecompressingReader
  BY <1>1, <1>2, <1>3, <1>7 DEF ZlibDecompressingReader, ZstdDecompressingReader, Within,
                                Complete
<1> QED BY <1>2, <1>4, <1>6, <1>8, <1>9 DEF ReaderIInv, ReaderOfKind

LEMMA ReadSomeStep ==
  ASSUME CodecReadersAssumption, ReaderIInv, NEW n \in Buffers, ReadSome(n) PROVE ReaderIInv'
<1>1. /\ n \in Nat \ {0} /\ step = "idle" /\ ~failed /\ step' = "loop" /\ asked' = n
      /\ got' = 0 /\ last_ret' = 0 /\ retry' = FALSE
      /\ UNCHANGED <<input, left, coder, unread, m_read_offset, failed, delivered>>
  BY InputIs DEF ReaderIInv, ReadSome, codec
<1>2. /\ InputCoding' = InputCoding /\ Whole' = Whole /\ (Honest' <=> Honest)
      /\ input' \in Inputs
  BY <1>1, SameInput DEF ReaderIInv
<1>3. CodecInv' BY <1>1 DEF ReaderIInv, CodecInv
<1>4. failed \in BOOLEAN BY DEF ReaderIInv, CallInv
<1>5. retry' \in BOOLEAN /\ failed' \in BOOLEAN /\ ~failed' BY <1>1, <1>4
<1>6. coder.given = delivered /\ delivered \in Nat /\ m_read_offset = delivered
  BY <1>1 DEF ReaderIInv, CallInv
<1>7. CallInv' BY <1>1, <1>5, <1>6 DEF CallInv
<1>8. ~Short' BY <1>1 DEF Short
<1>9. /\ ZlibCompressingReader => ZlibCompressingReader'
      /\ ZstdCompressingReader => ZstdCompressingReader'
  BY <1>1, <1>2, <1>8 DEF ZlibCompressingReader, ZstdCompressingReader
<1>10. /\ ZlibDecompressingReader => ZlibDecompressingReader'
       /\ ZstdDecompressingReader => ZstdDecompressingReader'
  BY <1>1, <1>2, <1>8 DEF ZlibDecompressingReader, ZstdDecompressingReader, Within, Complete
<1>11. ReaderOfKind /\ input' = input BY <1>1 DEF ReaderIInv
<1>12. ReaderOfKind' BY <1>9, <1>10, <1>11 DEF ReaderOfKind
<1> QED BY <1>2, <1>3, <1>7, <1>12 DEF ReaderIInv

-----------------------------------------------------------------------------
(* The compressors.                                                        *)

LEMMA CompressorIs ==
  ASSUME CodecReadersAssumption, ReaderIInv, Compresses(input.kind)
  PROVE  /\ IsCoding(InputCoding) /\ coder.eaten + unread <= InputCoding.size
         /\ Whole = InputCoding.made[input.declared] + InputCoding.rest
         /\ Whole \in Nat /\ InputCoding.rest \in Nat \ {0}
         /\ InputCoding.made[input.declared] \in Nat
         /\ \A k \in 0 .. InputCoding.size : InputCoding.made[k] \in Nat
         /\ Honest => (LastChunk <=> left = 0)
         /\ Honest /\ left = 0 => coder.eaten + unread = input.declared
         /\ Honest => coder.eaten + unread <= input.declared
         /\ input.declared \in 0 .. InputCoding.size
<1>1. /\ IsCoding(InputCoding) /\ input.supply \in Nat /\ input.declared \in Nat
      /\ input.supply <= InputCoding.size /\ input.declared <= InputCoding.size
  BY InputIs DEF ReaderIInv
<1>2. /\ coder.eaten + unread = input.supply - left /\ left \in Nat
      /\ left <= input.supply /\ coder.eaten \in Nat /\ unread \in Nat
  BY DEF ReaderIInv, CodecInv, States
<1>3. Honest => input.supply = input.declared BY DEF Honest
<1>4. LastChunk <=> input.supply - left = input.declared
  BY DEF LastChunk, BytesRead
<1>5. InputCoding.size \in Nat BY <1>1, MadeIs
<1>6. /\ Whole = InputCoding.made[input.declared] + InputCoding.rest
      /\ Whole \in Nat /\ InputCoding.made[input.declared] \in Nat
  BY WholeIs DEF ReaderIInv
<1>7. /\ InputCoding.rest \in Nat \ {0}
      /\ \A k \in 0 .. InputCoding.size : InputCoding.made[k] \in Nat
  BY <1>1, MadeIs
<1> QED BY <1>1, <1>2, <1>3, <1>4, <1>5, <1>6, <1>7

LEMMA RefillDeflateStep ==
  ASSUME CodecReadersAssumption, ReaderIInv, RefillDeflate PROVE ReaderIInv'
<1>1. PICK r \in Deflate(InputCoding, coder, unread, Room, LastChunk),
           n \in Portions(Block) :
        /\ r.ret = "buf_error" /\ unread = 0 /\ coder' = r.z /\ ReadsMore(n)
  BY DEF RefillDeflate
<1>2. /\ input.kind = "zlib_compression" /\ step = "loop" /\ Compresses(input.kind)
      /\ input \in Inputs /\ CodecInv /\ CallInv /\ ZlibCompressingReader
      /\ Block \in Nat /\ coder \in States /\ unread \in Nat
  BY InputIs DEF RefillDeflate, Running, Compresses, ReaderIInv, ReaderOfKind, CodecInv
<1>3. /\ Again(got) /\ input' = input
      /\ InputCoding' = InputCoding /\ Whole' = Whole /\ (Honest' <=> Honest)
  BY SameInput DEF RefillDeflate, Again
<1>4. Room \in Nat \ {0} /\ ~failed /\ got < asked /\ got \in Nat
  BY <1>2, RoomIs DEF CallInv
<1>5. IsCoding(InputCoding) BY <1>2, CompressorIs
<1>6. ~LastChunk
  <2> SUFFICES ASSUME LastChunk PROVE FALSE OBVIOUS
  <2>1. r \in DeflateToEnd(InputCoding, coder, unread, Room) BY DEF Deflate
  <2> QED BY <1>1, <1>2, <1>4, <1>5, <2>1, DeflateToEndIs
<1>7. r \in DeflateOn(InputCoding, coder, unread, Room) BY <1>6 DEF Deflate
<1>8. /\ IsAnswer(r, coder, unread, Room) /\ ~coder.ended /\ ~r.z.ended
      /\ r.ate = 0 /\ r.gave = 0
      /\ coder.eaten + unread <= InputCoding.size =>
           r.z.given <= InputCoding.made[r.z.eaten]
  BY <1>1, <1>2, <1>4, <1>5, <1>7, DeflateOnIs
<1>9. CodecInv' BY <1>1, <1>2, <1>3, <1>4, <1>8, Reads
<1>10. r.z.given = delivered + got /\ r.z.given \in Nat /\ r.z.eaten \in Nat
  BY <1>2, <1>8, AnswerIs, RoomIs DEF CallInv
<1>11. CallInv' BY <1>1, <1>2, <1>3, <1>4, <1>10, GoesOn DEF Again, CallInv
<1>12. ZlibCompressingReader'
  <2>1. step' = "loop" /\ ~failed' BY <1>2, <1>3, <1>4 DEF Again
  <2>2. ~Short' BY <2>1 DEF Short
  <2>3. r.z.given <= InputCoding.made[r.z.eaten] /\ InputCoding.made[r.z.eaten] \in Nat
    <3>1. coder.eaten + unread <= InputCoding.size /\ r.z.eaten = coder.eaten
          /\ InputCoding.size \in Nat
      BY <1>2, <1>5, <1>8, <1>10, CompressorIs, MadeIs DEF IsAnswer, States
    <3> QED BY <1>1, <1>8, <1>10, <3>1, <1>2, CompressorIs
  <2>4. InputCoding.rest \in Nat BY <1>2, CompressorIs
  <2> QED BY <1>1, <1>3, <1>8, <1>10, <2>1, <2>2, <2>3, <2>4 DEF ZlibCompressingReader
<1> QED BY <1>2, <1>3, <1>9, <1>11, <1>12 DEF ReaderIInv, ReaderOfKind

LEMMA DeflateStep ==
  ASSUME CodecReadersAssumption, ReaderIInv, DeflateTurn PROVE ReaderIInv'
<1> DEFINE read(r) == r.z.given - m_read_offset
           done(r) == \/ r.ret = "end"
                      \/ r.ret = "ok" /\ LastChunk
                      \/ r.ret \in {"ok", "buf_error"} /\ read(r) = asked
<1>1. PICK r \in Deflate(InputCoding, coder, unread, Room, LastChunk) :
        /\ ~(r.ret = "buf_error" /\ unread = 0) /\ Eaten(r)
        /\ IF done(r) THEN Return(read(r))
           ELSE IF r.ret # "ok" THEN Throw ELSE Again(read(r))
  BY DEF DeflateTurn
<1>2. /\ input.kind = "zlib_compression" /\ step = "loop" /\ Compresses(input.kind)
      /\ input \in Inputs /\ CodecInv /\ CallInv /\ ZlibCompressingReader
      /\ coder \in States /\ unread \in Nat
  BY DEF DeflateTurn, Running, Compresses, ReaderIInv, ReaderOfKind, CodecInv
<1>3. Room \in Nat \ {0} /\ ~failed /\ got < asked /\ got \in Nat /\ asked = got + Room
  BY <1>2, RoomIs DEF CallInv
<1>4. IsCoding(InputCoding) /\ coder.eaten + unread <= InputCoding.size
  BY <1>2, CompressorIs
<1>5. /\ LastChunk => r \in DeflateToEnd(InputCoding, coder, unread, Room)
      /\ ~LastChunk => r \in DeflateOn(InputCoding, coder, unread, Room)
  BY DEF Deflate
<1>6. ASSUME LastChunk
      PROVE  /\ IsAnswer(r, coder, unread, Room)
             /\ r.z.ended <=> coder.ended \/ r.ret = "end"
             /\ r.ret \in {"ok", "end", "buf_error"}
             /\ r.ret = "buf_error" <=> coder.ended /\ unread > 0
             /\ coder.ended => r.ate = 0 /\ r.gave = 0 /\ r.ret # "ok"
             /\ ~coder.ended /\ r.ret = "end" => r.ate = unread
             /\ ~coder.ended =>
                  /\ r.z.given <= InputCoding.made[r.z.eaten] + InputCoding.rest
                  /\ r.ret = "end" =>
                       r.z.given = InputCoding.made[r.z.eaten] + InputCoding.rest
                  /\ r.ret = "ok" => r.gave = Room
  BY <1>2, <1>3, <1>4, <1>5, <1>6, DeflateToEndIs
<1>7. ASSUME ~LastChunk
      PROVE  /\ IsAnswer(r, coder, unread, Room) /\ (r.z.ended <=> coder.ended)
             /\ coder.ended => r.ret = "stream_error"
             /\ ~coder.ended =>
                  /\ r.ret \in {"ok", "buf_error"}
                  /\ r.ret = "buf_error" => unread = 0
                  /\ r.z.given <= InputCoding.made[r.z.eaten]
  BY <1>2, <1>3, <1>4, <1>5, <1>7, DeflateOnIs
<1>8. IsAnswer(r, coder, unread, Room) BY <1>6, <1>7
<1>9. /\ r.gave \in 0 .. Room /\ r.ate \in 0 .. unread
      /\ r.z.given \in Nat /\ r.z.eaten \in Nat /\ coder.eaten \in Nat
      /\ coder.given \in Nat
      /\ r.z.eaten = coder.eaten + r.ate
      /\ read(r) = got + r.gave /\ read(r) \in Nat /\ read(r) <= asked
      /\ r.z.given = delivered + read(r) /\ r.z.given = coder.given + r.gave
  BY <1>2, <1>8, AnswerIs
<1>10. input' = input BY <1>1 DEF Return, Throw, Again
<1>11. InputCoding' = InputCoding /\ Whole' = Whole /\ (Honest' <=> Honest)
  BY <1>10, SameInput
<1>12. CodecInv' /\ coder' = r.z /\ unread' = unread - r.ate /\ left' = left
  BY <1>1, <1>2, <1>3, <1>8, <1>10, Eats
<1> HIDE DEF read, done
<1>13. CASE done(r)
  <2>1. /\ CallInv' /\ step' = "idle" /\ ~failed' /\ got' = read(r) /\ asked' = asked
    BY <1>1, <1>2, <1>9, <1>12, <1>13, Returns
  <2>2. ZlibCompressingReader'
    <3> SUFFICES ASSUME Honest
                 PROVE  /\ r.z.ended =>
                             left = 0 /\ unread - r.ate = 0 /\ r.z.given = Whole
                        /\ ~r.z.ended => r.z.given <= InputCoding.made[r.z.eaten]
                                           + (IF left = 0 THEN InputCoding.rest ELSE 0)
                        /\ read(r) < asked => r.z.given = Whole
      BY <1>11, <1>12, <2>1 DEF ZlibCompressingReader, Short
    <3>1. /\ coder.ended => left = 0 /\ unread = 0 /\ coder.given = Whole
          /\ LastChunk <=> left = 0
          /\ left = 0 => coder.eaten + unread = input.declared
          /\ Whole = InputCoding.made[input.declared] + InputCoding.rest
      BY <1>2, CompressorIs DEF ZlibCompressingReader
    <3>2. CASE LastChunk
      <4>1. CASE coder.ended
        <5>1. r.ate = 0 /\ r.gave = 0 /\ r.z.ended BY <1>2, <1>6, <3>2, <4>1
        <5> QED BY <1>9, <3>1, <4>1, <5>1
      <4>2. CASE ~coder.ended /\ r.ret = "end"
        <5>1. r.z.ended /\ r.ate = unread
              /\ r.z.given = InputCoding.made[r.z.eaten] + InputCoding.rest
          BY <1>6, <3>2, <4>2
        <5>2. r.z.eaten = input.declared BY <1>9, <3>1, <3>2, <5>1
        <5> QED BY <1>9, <3>1, <3>2, <5>1, <5>2
      <4>3. CASE ~coder.ended /\ r.ret = "ok"
        <5>1. r.gave = Room /\ ~r.z.ended
              /\ r.z.given <= InputCoding.made[r.z.eaten] + InputCoding.rest
          BY <1>6, <3>2, <4>3
        <5>2. read(r) = asked BY <1>3, <1>9, <5>1
        <5>3. ~(read(r) < asked) BY <1>9, <5>2
        <5> QED BY <3>1, <3>2, <5>1, <5>3
      <4> QED BY <1>6, <3>2, <4>1, <4>2, <4>3
    <3>3. CASE ~LastChunk
      <4>1. ~coder.ended /\ left # 0 BY <3>1, <3>3
      <4>2. ~r.z.ended /\ r.z.given <= InputCoding.made[r.z.eaten]
            /\ r.ret \in {"ok", "buf_error"}
        BY <1>7, <3>3, <4>1
      <4>3. read(r) = asked BY <1>13, <3>3, <4>2 DEF done
      <4>4. InputCoding.made[r.z.eaten] \in Nat
        <5>1. r.z.eaten \in 0 .. InputCoding.size
          BY <1>4, <1>9, MadeIs, <1>2 DEF States
        <5> QED BY <1>4, <5>1, MadeIs
      <4> QED BY <1>9, <4>1, <4>2, <4>3, <4>4
    <3> QED BY <3>2, <3>3
  <2> QED BY <1>2, <1>10, <1>12, <2>1, <2>2 DEF ReaderIInv, ReaderOfKind
<1>14. CASE ~done(r) /\ r.ret # "ok"
  <2>1. CallInv' BY <1>1, <1>2, <1>14, Throws
  <2>2. ~Honest
    <3> SUFFICES ASSUME Honest PROVE FALSE OBVIOUS
    <3>1. /\ coder.ended => left = 0 /\ unread = 0
          /\ LastChunk <=> left = 0
      BY <1>2, CompressorIs DEF ZlibCompressingReader
    <3>2. CASE LastChunk
      <4>1. r.ret = "buf_error" BY <1>6, <1>14, <3>2 DEF done
      <4> QED BY <1>2, <1>6, <3>1, <3>2, <4>1
    <3>3. CASE ~LastChunk
      <4>1. r.ret = "buf_error" /\ unread = 0 BY <1>7, <1>14, <3>1, <3>3
      <4> QED BY <1>1, <4>1
    <3> QED BY <3>2, <3>3
  <2>3. ZlibCompressingReader' BY <1>11, <2>2 DEF ZlibCompressingReader
  <2> QED BY <1>2, <1>10, <1>12, <2>1, <2>3 DEF ReaderIInv, ReaderOfKind
<1>15. CASE ~done(r) /\ r.ret = "ok"
  <2>1. Again(read(r)) BY <1>1, <1>15
  <2>2. read(r) < asked /\ ~LastChunk
    <3>1. ~LastChunk /\ read(r) # asked BY <1>15 DEF done
    <3>2. asked \in Nat BY <1>2 DEF CallInv
    <3> QED BY <1>9, <3>1, <3>2
  <2>3. CallInv' /\ step' = "loop" /\ ~failed'
    BY <1>2, <1>3, <1>9, <1>12, <2>1, <2>2, GoesOn DEF Again, CallInv
  <2>4. ~Short' BY <2>3 DEF Short
  <2>5. ZlibCompressingReader'
    <3> SUFFICES ASSUME Honest
                 PROVE  /\ ~r.z.ended
                        /\ r.z.given <= InputCoding.made[r.z.eaten]
                                          + (IF left = 0 THEN InputCoding.rest ELSE 0)
      BY <1>11, <1>12, <2>3, <2>4 DEF ZlibCompressingReader
    <3>1. ~coder.ended /\ left # 0
      BY <1>2, <2>2, CompressorIs DEF ZlibCompressingReader
    <3>2. ~r.z.ended /\ r.z.given <= InputCoding.made[r.z.eaten] BY <1>7, <2>2, <3>1
    <3>3. InputCoding.made[r.z.eaten] \in Nat
      <4>1. r.z.eaten \in 0 .. InputCoding.size
        BY <1>4, <1>9, MadeIs, <1>2 DEF States
      <4> QED BY <1>4, <4>1, MadeIs
    <3> QED BY <3>1, <3>2, <3>3
  <2> QED BY <1>2, <1>10, <1>12, <2>3, <2>5 DEF ReaderIInv, ReaderOfKind
<1> QED BY <1>13, <1>14, <1>15

\* A turn of a zstd reader that does not end the call: more input is read, or
\* the buffer is filled and returned, or the loop goes on.
LEMMA TurnedIs ==
  ASSUME CallInv, CodecInv, step = "loop", NEW r, IsAnswer(r, coder, unread, Room),
         CodecReadersAssumption, input \in Inputs, Turned(r)
  PROVE  /\ CallInv' /\ CodecInv' /\ coder' = r.z /\ unread' = unread - r.ate
         /\ UNCHANGED <<input, left, failed>> /\ ~Short' /\ ~failed
         /\ IF got + r.gave = asked
            THEN delivered' = delivered + asked
            ELSE delivered' = delivered
<1>1. Eaten(r) /\ input' = input BY DEF Turned, Return
<1>2. Room \in Nat /\ ~failed BY RoomIs
<1>3. CodecInv' /\ coder' = r.z /\ unread' = unread - r.ate /\ left' = left
  BY <1>1, <1>2, Eats
<1>4. /\ got + r.gave \in Nat /\ got + r.gave <= asked /\ r.z.hint \in Nat
      /\ r.z.given = delivered + (got + r.gave) /\ asked \in Nat
  BY AnswerIs DEF CallInv, CodecInv
<1>5. CASE got + r.gave = asked
  <2>1. Return(asked) BY <1>5 DEF Turned
  <2>2. CallInv' /\ got' = asked /\ asked' = asked /\ delivered' = delivered + asked
    BY <1>3, <1>4, <1>5, <2>1, Returns
  <2>3. ~Short' BY <1>4, <2>2 DEF Short
  <2> QED BY <1>1, <1>2, <1>3, <1>5, <2>1, <2>2, <2>3 DEF Return
<1>6. CASE got + r.gave # asked
  <2>1. /\ got' = got + r.gave /\ last_ret' = r.z.hint
        /\ UNCHANGED <<step, asked, retry, m_read_offset, failed, delivered>>
    BY <1>6 DEF Turned
  <2>2. got + r.gave < asked BY <1>4, <1>6
  <2>3. CallInv' BY <1>3, <1>4, <2>1, <2>2, GoesOn DEF CallInv
  <2>4. ~Short' BY <2>1 DEF Short
  <2> QED BY <1>1, <1>2, <1>3, <1>6, <2>1, <2>3, <2>4
<1> QED BY <1>5, <1>6

LEMMA RefillIs ==
  ASSUME CallInv, CodecInv, step = "loop", NEW r, IsAnswer(r, coder, unread, Room),
         CodecReadersAssumption, input \in Inputs, NEW most \in Nat,
         NeedsMore(r), Refill(r, most)
  PROVE  /\ CallInv' /\ CodecInv' /\ coder' = r.z
         /\ UNCHANGED <<input, delivered>> /\ ~Short'
         /\ left' \in 0 .. left
         /\ failed' => left = 0 \/ most = 0
<1>1. PICK n \in Portions(most) :
        /\ coder' = r.z /\ ReadsMore(n)
        /\ IF (n = 0 /\ last_ret = r.z.hint) /\ retry
           THEN Throw
           ELSE /\ retry' = (n = 0 /\ last_ret = r.z.hint) /\ last_ret' = r.z.hint
                /\ got' = got + r.gave
                /\ UNCHANGED <<input, step, asked, m_read_offset, failed, delivered>>
  BY DEF Refill
<1>2. input' = input BY <1>1 DEF Throw
<1>3. Room \in Nat /\ ~failed BY RoomIs
<1>4. unread = r.ate /\ got + r.gave # asked BY DEF NeedsMore
<1>5. CodecInv' /\ left' = left - n /\ n \in 0 .. left
  BY <1>1, <1>2, <1>3, <1>4, Reads
<1>6. n = 0 => left = 0 \/ most = 0 BY PortionsAre DEF CodecInv
<1>7. left' \in 0 .. left BY <1>5 DEF CodecInv
<1>8. /\ got + r.gave \in Nat /\ got + r.gave < asked /\ r.z.hint \in Nat
      /\ r.z.given = delivered + (got + r.gave)
  BY <1>4, AnswerIs DEF CallInv, CodecInv
<1>9. CASE (n = 0 /\ last_ret = r.z.hint) /\ retry
  <2>1. Throw BY <1>1, <1>9
  <2>2. CallInv' /\ failed' /\ delivered' = delivered BY <2>1, Throws
  <2> QED BY <1>1, <1>2, <1>5, <1>6, <1>7, <1>9, <2>2 DEF Short
<1>10. CASE ~((n = 0 /\ last_ret = r.z.hint) /\ retry)
  <2>1. /\ retry' = (n = 0 /\ last_ret = r.z.hint) /\ last_ret' = r.z.hint
        /\ got' = got + r.gave
        /\ UNCHANGED <<step, asked, m_read_offset, failed, delivered>>
    BY <1>1, <1>10
  <2>2. retry' \in BOOLEAN BY <2>1
  <2>3. CallInv' BY <1>1, <1>8, <2>1, <2>2, GoesOn
  <2>4. ~Short' /\ ~failed' BY <1>3, <2>1 DEF Short
  <2> QED BY <1>1, <1>2, <1>5, <1>7, <2>1, <2>3, <2>4
<1> QED BY <1>9, <1>10

LEMMA ZstdCompressStep ==
  ASSUME CodecReadersAssumption, ReaderIInv, ZstdCompressTurn PROVE ReaderIInv'
<1>1. PICK r \in CompressOn(InputCoding, coder, unread, Room) :
        IF NeedsMore(r) THEN Refill(r, Block) ELSE Turned(r)
  BY DEF ZstdCompressTurn, CompressStream
<1>2. /\ input.kind = "zstd_compression" /\ step = "loop" /\ Compresses(input.kind)
      /\ input \in Inputs /\ CodecInv /\ CallInv /\ ZstdCompressingReader /\ ~LastChunk
      /\ Block \in Nat \ {0} /\ coder \in States /\ unread \in Nat
  BY InputIs DEF ZstdCompressTurn, Running, Compresses, ReaderIInv, ReaderOfKind, CodecInv
<1>3. Room \in Nat \ {0} /\ ~failed BY <1>2, RoomIs
<1>4. IsCoding(InputCoding) /\ coder.eaten + unread <= InputCoding.size
  BY <1>2, CompressorIs
<1>5. /\ IsAnswer(r, coder, unread, Room) /\ ~r.z.ended
      /\ r.z.given <= InputCoding.made[r.z.eaten]
  BY <1>2, <1>3, <1>4, CompressOnIs
<1>6. /\ CallInv' /\ CodecInv' /\ coder' = r.z /\ input' = input /\ ~Short'
      /\ Honest => ~failed'
  <2>1. CASE NeedsMore(r)
    <3>1. Refill(r, Block) BY <1>1, <2>1
    <3>2. /\ CallInv' /\ CodecInv' /\ coder' = r.z /\ input' = input /\ ~Short'
          /\ failed' => left = 0
      BY <1>2, <1>5, <2>1, <3>1, RefillIs
    <3>3. Honest => left # 0 BY <1>2, CompressorIs
    <3> QED BY <3>2, <3>3
  <2>2. CASE ~NeedsMore(r)
    <3>1. Turned(r) BY <1>1, <2>2
    <3>2. /\ CallInv' /\ CodecInv' /\ coder' = r.z /\ input' = input /\ ~Short'
          /\ failed' = failed
      BY <1>2, <1>5, <3>1, TurnedIs
    <3> QED BY <1>3, <3>2
  <2> QED BY <2>1, <2>2
<1>7. InputCoding' = InputCoding /\ Whole' = Whole /\ (Honest' <=> Honest)
  BY <1>6, SameInput
<1>8. ZstdCompressingReader' BY <1>5, <1>6, <1>7 DEF ZstdCompressingReader
<1> QED BY <1>2, <1>6, <1>8 DEF ReaderIInv, ReaderOfKind

LEMMA ZstdCompressLastStep ==
  ASSUME CodecReadersAssumption, ReaderIInv, ZstdCompressLast PROVE ReaderIInv'
<1>1. PICK r \in CompressToEnd(InputCoding, coder, unread, Room) :
        Eaten(r) /\ IF r.z.hint > 0 THEN Throw ELSE Return(got + r.gave)
  BY DEF ZstdCompressLast, CompressStream
<1>2. /\ input.kind = "zstd_compression" /\ step = "loop" /\ Compresses(input.kind)
      /\ input \in Inputs /\ CodecInv /\ CallInv /\ ZstdCompressingReader /\ LastChunk
      /\ coder \in States /\ unread \in Nat /\ input' = input
  BY DEF ZstdCompressLast, Running, Compresses, ReaderIInv, ReaderOfKind, CodecInv,
         Throw, Return
<1>3. Room \in Nat \ {0} /\ ~failed /\ asked = got + Room /\ got \in Nat
  BY <1>2, RoomIs DEF CallInv
<1>4. IsCoding(InputCoding) /\ coder.eaten + unread <= InputCoding.size
  BY <1>2, CompressorIs
<1>5. /\ IsAnswer(r, coder, unread, Room)
      /\ coder.ended => r.z.ended
      /\ ~coder.ended =>
           /\ r.z.ended <=> r.z.hint = 0
           /\ ~r.z.ended =>
                /\ r.gave = Room
                /\ r.z.given < InputCoding.made[coder.eaten + unread] + InputCoding.rest
  BY <1>2, <1>3, <1>4, CompressToEndIs
<1>6. /\ got + r.gave \in Nat /\ r.z.given = delivered + (got + r.gave)
      /\ r.z.hint \in Nat
  BY <1>2, <1>5, AnswerIs
<1>7. CodecInv' /\ coder' = r.z /\ left' = left
  BY <1>1, <1>2, <1>3, <1>5, Eats
<1>8. InputCoding' = InputCoding /\ Whole' = Whole /\ (Honest' <=> Honest)
  BY <1>2, SameInput
<1>9. Honest => left = 0 BY <1>2, CompressorIs
<1>10. CASE r.z.hint > 0
  <2>1. CallInv' /\ failed' /\ delivered' = delivered /\ asked' = asked
    BY <1>1, <1>2, <1>10, Throws
  <2>2. Honest => r.z.ended \/ delivered + asked < Whole
    <3> SUFFICES ASSUME Honest, ~r.z.ended PROVE delivered + asked < Whole OBVIOUS
    <3>1. /\ r.gave = Room
          /\ r.z.given < InputCoding.made[coder.eaten + unread] + InputCoding.rest
      BY <1>5
    <3>2. InputCoding.made[coder.eaten + unread] + InputCoding.rest = Whole
      BY <1>2, <1>9, CompressorIs
    <3>3. r.z.given = delivered + asked BY <1>3, <1>6, <3>1
    <3> QED BY <3>1, <3>2, <3>3
  <2>3. ZstdCompressingReader' BY <1>7, <1>8, <1>9, <2>1, <2>2 DEF ZstdCompressingReader, Short
  <2> QED BY <1>2, <1>7, <2>1, <2>3 DEF ReaderIInv, ReaderOfKind
<1>11. CASE ~(r.z.hint > 0)
  <2>1. CallInv' /\ ~failed' BY <1>1, <1>2, <1>6, <1>7, <1>11, Returns
  <2>2. r.z.ended BY <1>5, <1>6, <1>11
  <2>3. ZstdCompressingReader' BY <1>7, <1>8, <1>9, <2>1, <2>2 DEF ZstdCompressingReader
  <2> QED BY <1>2, <1>7, <2>1, <2>3 DEF ReaderIInv, ReaderOfKind
<1> QED BY <1>10, <1>11

-----------------------------------------------------------------------------
(* The decompressors.                                                      *)

LEMMA DecompressorIs ==
  ASSUME CodecReadersAssumption, ReaderIInv, ~Compresses(input.kind)
  PROVE  /\ IsCoding(InputCoding) /\ InputCoding.size \in Nat \ {0}
         /\ Whole = InputCoding.made[InputCoding.size] /\ Whole \in Nat
         /\ \A k \in 0 .. InputCoding.size :
               InputCoding.made[k] \in Nat /\ InputCoding.made[k] <= Whole
         /\ Honest => input.supply >= InputCoding.size /\ input.declared = Whole
         /\ input.supply \in Nat /\ input.declared \in Nat
<1>1. IsCoding(InputCoding) /\ input.supply \in Nat /\ input.declared \in Nat
  BY InputIs DEF ReaderIInv
<1>2. /\ InputCoding.size \in Nat \ {0}
      /\ \A k \in 0 .. InputCoding.size : InputCoding.made[k] \in Nat
      /\ \A k, m \in 0 .. InputCoding.size :
            k <= m => InputCoding.made[k] <= InputCoding.made[m]
  BY <1>1, MadeIs
<1>3. Whole = InputCoding.made[InputCoding.size] /\ Whole \in Nat
  BY WholeIs DEF ReaderIInv
<1>4. Honest => input.supply >= InputCoding.size /\ input.declared = Whole
  BY DEF Honest
<1>5. \A k \in 0 .. InputCoding.size :
         InputCoding.made[k] <= InputCoding.made[InputCoding.size]
  BY <1>2
<1> QED BY <1>1, <1>2, <1>3, <1>4, <1>5

LEMMA InflateStep == ASSUME CodecReadersAssumption, ReaderIInv, InflateTurn PROVE ReaderIInv'
<1> DEFINE new == IF unread = 0 THEN Portions(Block) ELSE {0}
<1>1. PICK n \in new : \E r \in Inflate(InputCoding, coder, unread + n, Room) :
          /\ coder' = r.z
          /\ left' = left - n
          /\ unread' = unread + n - r.ate
          /\ IF r.ret = "end" THEN Return(got + r.gave)
             ELSE IF r.ret # "ok" THEN Throw
             ELSE IF got + r.gave = asked THEN Return(asked)
             ELSE Again(got + r.gave)
  BY DEF InflateTurn
<1>2. PICK r \in Inflate(InputCoding, coder, unread + n, Room) :
          /\ coder' = r.z
          /\ left' = left - n
          /\ unread' = unread + n - r.ate
          /\ IF r.ret = "end" THEN Return(got + r.gave)
             ELSE IF r.ret # "ok" THEN Throw
             ELSE IF got + r.gave = asked THEN Return(asked)
             ELSE Again(got + r.gave)
  BY <1>1
<1>3. /\ input.kind = "zlib_decompression" /\ step = "loop" /\ ~Compresses(input.kind)
      /\ input \in Inputs /\ CodecInv /\ CallInv /\ ZlibDecompressingReader
      /\ Block \in Nat \ {0} /\ coder \in States /\ unread \in Nat /\ left \in Nat
  BY InputIs DEF InflateTurn, Running, Compresses, ReaderIInv, ReaderOfKind, CodecInv
<1>4. n \in 0 .. left /\ (unread + n = 0 => left = 0) /\ unread + n \in Nat
  BY <1>3, PortionsAre
<1>5. Room \in Nat \ {0} /\ ~failed BY <1>3, RoomIs
<1>6. IsCoding(InputCoding) /\ (coder.ended \/ coder.eaten <= InputCoding.size)
  BY <1>3, InputIs DEF ZlibDecompressingReader
<1>7. /\ IsAnswer(r, coder, unread + n, Room)
      /\ r.z.ended <=> coder.ended \/ r.ret = "end"
      /\ coder.ended => r.ret = "stream_error"
      /\ ~coder.ended =>
           /\ r.ret \in {"ok", "end", "buf_error"}
           /\ Within(InputCoding, r.z)
           /\ r.ret = "end" <=> Complete(InputCoding, r.z)
           /\ r.ret = "buf_error" /\ ~Complete(InputCoding, coder) =>
                unread + n = 0 /\ coder.given = InputCoding.made[coder.eaten]
  BY <1>3, <1>4, <1>5, <1>6, InflateIs
<1>8. /\ got + r.gave \in Nat /\ got + r.gave <= asked /\ asked \in Nat
      /\ r.z.given = delivered + (got + r.gave) /\ delivered \in Nat
      /\ r.ate \in 0 .. unread + n /\ r.z \in States
      /\ r.z.eaten = coder.eaten + r.ate /\ coder.eaten \in Nat
  BY <1>3, <1>4, <1>7, AnswerIs DEF CallInv, IsAnswer
<1>9. input' = input BY <1>2 DEF Return, Throw, Again
<1>10. InputCoding' = InputCoding /\ Whole' = Whole /\ (Honest' <=> Honest)
  BY <1>9, SameInput
<1>11. CodecInv'
  <2>1. /\ left <= input.supply /\ coder.eaten + unread = input.supply - left
        /\ input.supply \in Nat
    BY <1>3, InputIs DEF CodecInv
  <2> QED BY <1>2, <1>3, <1>4, <1>8, <1>9, <2>1 DEF CodecInv
<1>12. ~r.z.ended => r.z.eaten <= InputCoding.size BY <1>7 DEF Within
<1>13. CASE r.ret = "end"
  <2>1. Return(got + r.gave) BY <1>2, <1>13
  <2>2. CallInv' /\ ~failed' /\ delivered' = r.z.given
    BY <1>2, <1>3, <1>8, <2>1, Returns
  <2>3. Complete(InputCoding, r.z) /\ r.z.ended BY <1>7, <1>13
  <2>4. r.z.given = Whole BY <1>3, <2>3, DecompressorIs DEF Complete
  <2>5. ZlibDecompressingReader' BY <1>2, <1>10, <2>2, <2>3, <2>4 DEF ZlibDecompressingReader
  <2> QED BY <1>3, <1>9, <1>11, <2>2, <2>5 DEF ReaderIInv, ReaderOfKind
<1>14. CASE r.ret \notin {"end", "ok"}
  <2>1. Throw BY <1>2, <1>14
  <2>2. CallInv' /\ failed' /\ delivered' = delivered BY <1>3, <2>1, Throws
  <2>3. Honest => coder.ended
    <3> SUFFICES ASSUME Honest, ~coder.ended PROVE FALSE OBVIOUS
    <3>1. ~Complete(InputCoding, coder) BY <1>3 DEF ZlibDecompressingReader
    <3>2. unread + n = 0 /\ coder.given = InputCoding.made[coder.eaten]
      BY <1>7, <1>14, <3>1
    <3>3. left = 0 /\ unread = 0 BY <1>3, <1>4, <3>2
    <3>4. coder.eaten = input.supply BY <1>3, <1>8, <3>3, InputIs DEF CodecInv
    <3>5. coder.eaten = InputCoding.size
      BY <1>3, <1>6, <1>8, <3>4, DecompressorIs
    <3> QED BY <3>1, <3>2, <3>5 DEF Complete
  <2>4. /\ r.z.ended <=> coder.ended
        /\ coder.ended => r.z.given = coder.given
    <3>1. r.z.ended <=> coder.ended BY <1>7, <1>14
    <3>2. coder.ended => r.gave = 0 BY <1>3, <1>4, <1>5, <1>6, InflateIs
    <3>3. r.z.given = coder.given + r.gave /\ coder.given \in Nat
      BY <1>3, <1>7 DEF IsAnswer, States
    <3> QED BY <3>1, <3>2, <3>3
  <2>5. ZlibDecompressingReader'
    <3>1. ~Short' BY <2>2 DEF Short
    <3>2. Honest => coder.given = Whole /\ delivered = Whole
      BY <1>3, <2>3 DEF ZlibDecompressingReader
    <3> QED BY <1>2, <1>10, <1>12, <2>2, <2>3, <2>4, <3>1, <3>2 DEF ZlibDecompressingReader
  <2> QED BY <1>3, <1>9, <1>11, <2>2, <2>5 DEF ReaderIInv, ReaderOfKind
<1>15. CASE r.ret = "ok"
  <2>1. ~coder.ended /\ ~r.z.ended /\ Within(InputCoding, r.z)
        /\ ~Complete(InputCoding, r.z)
    BY <1>7, <1>15
  <2>2. CallInv' /\ ~failed' /\ ~Short'
    <3>1. CASE got + r.gave = asked
      <4>1. Return(asked) BY <1>2, <1>15, <3>1
      <4>2. CallInv' /\ ~failed' /\ got' = asked /\ asked' = asked
        BY <1>2, <1>3, <1>8, <3>1, <4>1, Returns
      <4> QED BY <1>8, <4>2 DEF Short
    <3>2. CASE got + r.gave # asked
      <4>1. Again(got + r.gave) BY <1>2, <1>15, <3>2
      <4>2. got + r.gave < asked BY <1>8, <3>2
      <4>3. CallInv' BY <1>2, <1>3, <1>8, <4>1, <4>2, GoesOn DEF Again, CallInv
      <4> QED BY <1>3, <1>5, <4>1, <4>3 DEF Again, Short
    <3> QED BY <3>1, <3>2
  <2>3. ZlibDecompressingReader'
    BY <1>2, <1>10, <1>12, <2>1, <2>2 DEF ZlibDecompressingReader, Within, Complete
  <2> QED BY <1>3, <1>9, <1>11, <2>2, <2>3 DEF ReaderIInv, ReaderOfKind
<1> QED BY <1>13, <1>14, <1>15

LEMMA ZstdDecompressStep ==
  ASSUME CodecReadersAssumption, ReaderIInv, ZstdDecompressTurn PROVE ReaderIInv'
<1>1. PICK r \in DecompressStream(InputCoding, coder, unread, Room) :
          IF r.ret = "error" THEN Eaten(r) /\ Throw
          ELSE IF got + r.gave + m_read_offset = input.declared
               THEN Eaten(r) /\ Return(got + r.gave)
          ELSE IF NeedsMore(r) THEN Refill(r, IF r.z.hint = 0 THEN 0 ELSE Block)
          ELSE Turned(r)
  BY DEF ZstdDecompressTurn
<1>2. /\ input.kind = "zstd_decompression" /\ step = "loop" /\ ~Compresses(input.kind)
      /\ input \in Inputs /\ CodecInv /\ CallInv /\ ZstdDecompressingReader
      /\ Block \in Nat \ {0} /\ coder \in States /\ unread \in Nat
  BY InputIs DEF ZstdDecompressTurn, Running, Compresses, ReaderIInv, ReaderOfKind, CodecInv
<1>3. Room \in Nat \ {0} /\ ~failed BY <1>2, RoomIs
<1>4. /\ IsCoding(InputCoding) /\ InputCoding.size \in Nat
      /\ coder.eaten <= InputCoding.size
  BY <1>2, InputIs, MadeIs DEF ZstdDecompressingReader
<1>5. /\ IsAnswer(r, coder, unread, Room)
      /\ r.ret = "error" <=> coder.ended /\ unread > 0
      /\ coder.ended => r.z.ended /\ r.ate = 0 /\ r.gave = 0
      /\ ~coder.ended =>
           /\ r.z.eaten <= InputCoding.size
           /\ r.z.ended <=> r.z.eaten = InputCoding.size
           /\ r.z.ended => r.z.given = InputCoding.made[InputCoding.size]
           /\ ~r.z.ended => r.z.hint > 0
           /\ \/ r.z.given <= InputCoding.made[r.z.eaten]
              \/ r.z.given <= InputCoding.made[InputCoding.size]
  BY <1>2, <1>3, <1>4, DecompressStreamIs
<1>6. /\ got + r.gave \in Nat /\ got + r.gave <= asked /\ asked \in Nat
      /\ r.z.given = delivered + (got + r.gave) /\ delivered \in Nat
      /\ r.ate \in 0 .. unread /\ r.z.eaten = coder.eaten + r.ate
      /\ r.z.given = coder.given + r.gave /\ coder.given \in Nat
      /\ coder.eaten \in Nat /\ r.z.eaten \in Nat /\ r.z.given \in Nat
      /\ got + r.gave + m_read_offset = r.z.given
  BY <1>2, <1>5, AnswerIs DEF CallInv
<1>7. /\ r.z.eaten <= InputCoding.size
      /\ Honest =>
            /\ r.z.ended <=> r.z.eaten = InputCoding.size
            /\ r.z.ended => r.z.given = Whole
            /\ r.z.given <= Whole
  <2>1. /\ Whole = InputCoding.made[InputCoding.size]
        /\ \A k \in 0 .. InputCoding.size :
              InputCoding.made[k] \in Nat /\ InputCoding.made[k] <= Whole
        /\ Whole \in Nat
    BY <1>2, DecompressorIs
  <2>2. CASE coder.ended
    <3>1. r.z.ended /\ r.z.eaten = coder.eaten /\ r.z.given = coder.given
      BY <1>5, <1>6, <2>2
    <3> QED BY <1>2, <1>4, <2>2, <3>1 DEF ZstdDecompressingReader
  <2>3. CASE ~coder.ended
    <3>1. r.z.eaten \in 0 .. InputCoding.size BY <1>4, <1>5, <1>6, <2>3
    <3>2. InputCoding.made[r.z.eaten] \in Nat /\ InputCoding.made[r.z.eaten] <= Whole
      BY <2>1, <3>1
    <3> QED BY <1>5, <1>6, <2>1, <2>3, <3>1, <3>2
  <2> QED BY <2>2, <2>3
<1>8. CASE r.ret = "error"
  <2>1. Eaten(r) /\ Throw /\ input' = input BY <1>1, <1>8 DEF Throw
  <2>2. InputCoding' = InputCoding /\ Whole' = Whole /\ (Honest' <=> Honest)
    BY <2>1, SameInput
  <2>3. CodecInv' /\ coder' = r.z BY <1>2, <1>3, <1>5, <2>1, Eats
  <2>4. CallInv' /\ failed' /\ delivered' = delivered BY <1>2, <2>1, Throws
  <2>5. coder.ended /\ unread > 0 BY <1>5, <1>8
  <2>6. Honest => input.supply > InputCoding.size /\ delivered = Whole
    <3> SUFFICES ASSUME Honest
                 PROVE  input.supply > InputCoding.size /\ delivered = Whole
      OBVIOUS
    <3>1. coder.eaten = InputCoding.size /\ delivered = Whole
      BY <1>2, <2>5 DEF ZstdDecompressingReader
    <3> QED BY <1>2, <1>4, <1>6, <2>5, <3>1, InputIs DEF CodecInv
  <2>7. r.z.ended BY <1>5, <2>5
  <2>8. ~Short' BY <2>4 DEF Short
  <2>9. ZstdDecompressingReader'
    BY <1>7, <2>1, <2>2, <2>3, <2>4, <2>6, <2>7, <2>8 DEF ZstdDecompressingReader
  <2> QED BY <1>2, <2>1, <2>3, <2>4, <2>9 DEF ReaderIInv, ReaderOfKind
<1>9. CASE r.ret # "error" /\ r.z.given = input.declared
  <2>1. Eaten(r) /\ Return(got + r.gave) /\ input' = input
    BY <1>1, <1>6, <1>9 DEF Return
  <2>2. InputCoding' = InputCoding /\ Whole' = Whole /\ (Honest' <=> Honest)
    BY <2>1, SameInput
  <2>3. CodecInv' /\ coder' = r.z BY <1>2, <1>3, <1>5, <2>1, Eats
  <2>4. CallInv' /\ ~failed' /\ delivered' = r.z.given
    BY <1>2, <1>6, <2>1, <2>3, Returns
  <2>5. Honest => delivered' = Whole BY <1>2, <1>9, <2>4, DecompressorIs
  <2>6. ZstdDecompressingReader' BY <1>7, <2>2, <2>3, <2>4, <2>5 DEF ZstdDecompressingReader
  <2> QED BY <1>2, <2>1, <2>3, <2>4, <2>6 DEF ReaderIInv, ReaderOfKind
<1>10. CASE r.ret # "error" /\ r.z.given # input.declared
  <2> DEFINE most == IF r.z.hint = 0 THEN 0 ELSE Block
  <2>1. Honest => ~r.z.ended
    <3> SUFFICES ASSUME Honest, r.z.ended PROVE FALSE OBVIOUS
    <3>1. r.z.given = Whole /\ input.declared = Whole
      BY <1>2, <1>7, DecompressorIs
    <3> QED BY <1>10, <3>1
  <2>2. Honest => most = Block /\ ~coder.ended
    <3>1. Honest => ~coder.ended BY <1>5, <2>1
    <3>2. Honest => r.z.hint > 0 BY <1>5, <2>1, <3>1
    <3> QED BY <3>1, <3>2
  <2>3. /\ CallInv' /\ CodecInv' /\ coder' = r.z /\ input' = input /\ ~Short'
        /\ Honest => ~failed'
    <3>1. CASE NeedsMore(r)
      <4>1. Refill(r, most) BY <1>1, <1>6, <1>10, <3>1
      <4>2. most \in Nat BY <1>2
      <4> HIDE DEF most
      <4>3. /\ CallInv' /\ CodecInv' /\ coder' = r.z /\ input' = input /\ ~Short'
            /\ failed' => left = 0 \/ most = 0
        BY <1>2, <1>5, <3>1, <4>1, <4>2, RefillIs
      <4>4. Honest => ~(left = 0 \/ most = 0)
        <5> SUFFICES ASSUME Honest, left = 0 \/ most = 0 PROVE FALSE OBVIOUS
        <5>1. left = 0 /\ ~r.z.ended BY <1>2, <2>1, <2>2
        <5>2. unread = r.ate BY <3>1 DEF NeedsMore
        <5>3. r.z.eaten = input.supply
          BY <1>2, <1>6, <5>1, <5>2, InputIs DEF CodecInv
        <5>4. input.supply >= InputCoding.size BY <1>2, DecompressorIs
        <5>5. r.z.eaten = InputCoding.size BY <1>4, <1>6, <1>7, <5>3, <5>4
        <5> QED BY <1>7, <5>1, <5>5
      <4> QED BY <4>3, <4>4
    <3>2. CASE ~NeedsMore(r)
      <4>1. Turned(r) BY <1>1, <1>6, <1>10, <3>2
      <4>2. /\ CallInv' /\ CodecInv' /\ coder' = r.z /\ input' = input /\ ~Short'
            /\ failed' = failed
        BY <1>2, <1>5, <4>1, TurnedIs
      <4> QED BY <1>3, <4>2
    <3> QED BY <3>1, <3>2
  <2>4. InputCoding' = InputCoding /\ Whole' = Whole /\ (Honest' <=> Honest)
    BY <2>3, SameInput
  <2>5. ZstdDecompressingReader' BY <1>7, <2>1, <2>3, <2>4 DEF ZstdDecompressingReader
  <2> QED BY <1>2, <2>3, <2>5 DEF ReaderIInv, ReaderOfKind
<1> QED BY <1>8, <1>9, <1>10

-----------------------------------------------------------------------------
LEMMA ReaderQuiescent == ASSUME ReaderIInv, UNCHANGED readerVars PROVE ReaderIInv'
<1>1. UNCHANGED <<input, left, coder, unread, m_read_offset, step, asked, got, last_ret,
                  retry, failed, delivered>>
  BY DEF readerVars, codec, call
<1>2. InputCoding' = InputCoding /\ Whole' = Whole /\ (Honest' <=> Honest)
      /\ (Short' <=> Short)
  BY <1>1, SameInput DEF Short
<1>3. CodecInv' BY <1>1 DEF ReaderIInv, CodecInv
<1>4. CallInv' BY <1>1 DEF ReaderIInv, CallInv
<1>5. ReaderOfKind'
  BY <1>1, <1>2 DEF ReaderIInv, ReaderOfKind, ZlibCompressingReader,
                    ZstdCompressingReader, ZlibDecompressingReader,
     ZstdDecompressingReader, Within, Complete
<1> QED BY <1>1, <1>3, <1>4, <1>5 DEF ReaderIInv

\* The codec, the loop and the inner reader stay in step, for every stream, every
\* cut of it into portions, and every buffer, also when the inner reader has more
\* or less than was announced.
THEOREM ReaderInvariance == CodecReadersAssumption => (ReaderSpec => []ReaderIInv)
<1> SUFFICES ASSUME CodecReadersAssumption PROVE ReaderSpec => []ReaderIInv OBVIOUS
<1>1. ReaderInit => ReaderIInv BY ReaderInitially
<1>2. ReaderIInv /\ [ReaderNext]_readerVars => ReaderIInv'
  <2> SUFFICES ASSUME ReaderIInv, [ReaderNext]_readerVars PROVE ReaderIInv' OBVIOUS
  <2>1. ASSUME NEW n \in Buffers, ReadSome(n) PROVE ReaderIInv' BY <2>1, ReadSomeStep
  <2>2. CASE RefillDeflate BY <2>2, RefillDeflateStep
  <2>3. CASE DeflateTurn BY <2>3, DeflateStep
  <2>4. CASE ZstdCompressLast BY <2>4, ZstdCompressLastStep
  <2>5. CASE ZstdCompressTurn BY <2>5, ZstdCompressStep
  <2>6. CASE InflateTurn BY <2>6, InflateStep
  <2>7. CASE ZstdDecompressTurn BY <2>7, ZstdDecompressStep
  <2>8. CASE UNCHANGED readerVars BY <2>8, ReaderQuiescent
  <2> QED BY <2>1, <2>2, <2>3, <2>4, <2>5, <2>6, <2>7, <2>8 DEF ReaderNext, ReaderTurn
<1> QED BY <1>1, <1>2, PTL DEF ReaderSpec

\* A client is given the stream, each byte once and in order, and less than it
\* asked for only at the end; a reader of what was announced throws only past it,
\* or when the last of zstd's stream does not fit.
THEOREM StreamIsRead == CodecReadersAssumption => (ReaderSpec => []ReadsTheStream)
<1> SUFFICES ASSUME CodecReadersAssumption PROVE ReaderSpec => []ReadsTheStream OBVIOUS
<1>1. ReaderIInv => ReadsTheStream
  <2> SUFFICES ASSUME ReaderIInv PROVE ReadsTheStream OBVIOUS
  <2>1. /\ input.kind \in Kinds /\ CallInv /\ CodecInv
        /\ coder.given \in Nat /\ coder.eaten \in Nat /\ delivered \in Nat
        /\ got \in Nat /\ asked \in Nat
    BY InputIs DEF ReaderIInv, CallInv, CodecInv, States
  <2>2. HandsOnTheStream
    <3> SUFFICES ASSUME step = "idle", ~failed, Honest
                 PROVE  /\ m_read_offset = delivered
                        /\ \/ /\ delivered = coder.given /\ delivered <= Whole
                              /\ got < asked => delivered = Whole
                           \/ input.kind = "zstd_compression" /\ coder.ended
      BY DEF HandsOnTheStream
    <3>1. m_read_offset = delivered /\ coder.given = delivered BY <2>1 DEF CallInv
    <3>2. CASE Compresses(input.kind)
      <4>1. /\ Whole = InputCoding.made[input.declared] + InputCoding.rest
            /\ coder.eaten + unread <= input.declared /\ unread \in Nat
            /\ input.declared \in 0 .. InputCoding.size /\ IsCoding(InputCoding)
            /\ InputCoding.rest \in Nat /\ InputCoding.made[input.declared] \in Nat
            /\ Whole \in Nat
        BY <3>2, CompressorIs DEF ReaderIInv, CodecInv
      <4>2. /\ InputCoding.made[coder.eaten] \in Nat
            /\ InputCoding.made[coder.eaten] <= InputCoding.made[input.declared]
        <5>1. coder.eaten \in 0 .. InputCoding.size /\ coder.eaten <= input.declared
          BY <2>1, <4>1, MadeIs
        <5> QED BY <4>1, <5>1, MadeIs
      <4>3. CASE input.kind = "zlib_compression"
        <5>1. ZlibCompressingReader BY <4>3 DEF ReaderIInv, ReaderOfKind
        <5>2. coder.given <= Whole BY <2>1, <4>1, <4>2, <5>1 DEF ZlibCompressingReader
        <5> QED BY <3>1, <5>1, <5>2 DEF ZlibCompressingReader, Short
      <4>4. CASE input.kind = "zstd_compression"
        <5>1. ZstdCompressingReader BY <4>4 DEF ReaderIInv, ReaderOfKind
        <5>2. CASE ~coder.ended
          <6>1. coder.given <= Whole BY <2>1, <4>1, <4>2, <5>1, <5>2 DEF ZstdCompressingReader
          <6> QED BY <3>1, <5>1, <5>2, <6>1 DEF ZstdCompressingReader, Short
        <5> QED BY <3>1, <4>4, <5>2
      <4> QED BY <3>2, <4>3, <4>4 DEF Compresses
    <3>3. CASE input.kind = "zlib_decompression"
      <4>1. ZlibDecompressingReader /\ ~Compresses(input.kind)
        BY <3>3 DEF ReaderIInv, ReaderOfKind, Compresses
      <4>2. coder.given <= Whole
        <5>1. CASE coder.ended BY <2>1, <4>1, <5>1 DEF ZlibDecompressingReader
        <5>2. CASE ~coder.ended
          <6>1. Within(InputCoding, coder) BY <4>1, <5>2 DEF ZlibDecompressingReader
          <6>2. coder.eaten \in 0 .. InputCoding.size /\ Whole \in Nat
            BY <2>1, <4>1, <6>1, DecompressorIs DEF Within
          <6>3. /\ InputCoding.made[coder.eaten] \in Nat
                /\ InputCoding.made[coder.eaten] <= Whole
            BY <4>1, <6>2, DecompressorIs
          <6> QED BY <2>1, <6>1, <6>2, <6>3 DEF Within
        <5> QED BY <5>1, <5>2
      <4> QED BY <3>1, <4>1, <4>2 DEF ZlibDecompressingReader, Short
    <3>4. CASE input.kind = "zstd_decompression"
      <4>1. ZstdDecompressingReader BY <3>4 DEF ReaderIInv, ReaderOfKind
      <4> QED BY <3>1, <4>1 DEF ZstdDecompressingReader, Short
    <3> QED BY <2>1, <3>2, <3>3, <3>4 DEF Kinds, Compresses
  <2>3. ThrowsPastTheEnd
    BY <2>1 DEF ThrowsPastTheEnd, ReaderIInv, ReaderOfKind, Kinds, ZlibCompressingReader,
                ZstdCompressingReader,
       ZlibDecompressingReader, ZstdDecompressingReader
  <2> QED BY <2>2, <2>3 DEF ReadsTheStream
<1> QED BY <1>1, ReaderInvariance, PTL

-----------------------------------------------------------------------------
(* Writers.  The invariant, by kind of stream.                             *)

WriterTypeOK ==
    /\ stream \in Streams
    /\ z \in States
    /\ avail_in \in Nat /\ piece \in Nat /\ m_processed_bytes \in Nat
    /\ handled \in Nat /\ inner \in Nat /\ intact \in BOOLEAN
    /\ pc \in {"idle", "write", "finish", "gone"}
    /\ destroying \in BOOLEAN /\ ended \in BOOLEAN
    /\ thrown \in {"no", "codec", "writer"}

\* A piece has a length, and nothing is written after an exception.
WritingInv == pc = "write" => piece > 0 /\ thrown = "no"

\* What the codec gave was passed on.
HandedOn == thrown # "writer" => intact /\ inner = handled /\ handled = z.given

\* Input that was handed over, the piece being written included.
Entered == m_processed_bytes + (IF pc = "write" THEN piece ELSE 0)

\* While nothing has thrown, what was not eaten is what is left of the piece.
EatenInv ==
    /\ z.eaten + avail_in = Entered
    /\ pc # "write" => avail_in = 0

ZlibCompressingWriter ==
    /\ pc = "finish" => thrown # "no" \/ avail_in = 0
    /\ thrown = "writer" => ~(z.ended /\ avail_in > 0)
    /\ thrown = "codec" => ended
    /\ thrown # "writer" => (z.ended <=> ended)
    /\ thrown = "no" =>
          /\ Entered <= stream.supply
          /\ EatenInv
          /\ pc = "gone" => ended
          /\ ended => z.given = Coding.made[z.eaten] + Coding.rest
          /\ ~ended => IF pc = "finish"
                       THEN z.given <= Coding.made[z.eaten] + Coding.rest
                       ELSE z.given <= Coding.made[z.eaten]
          /\ ~ended /\ pc = "idle" => z.given = Owed

ZstdCompressingWriter ==
    /\ pc # "finish"
    /\ thrown = "codec" => m_processed_bytes < stream.supply
    /\ thrown = "no" =>
          /\ Entered <= stream.supply /\ Entered <= stream.declared
          /\ EatenInv
          /\ z.ended <=> /\ pc # "write" /\ m_processed_bytes > 0
                         /\ m_processed_bytes = stream.declared
          /\ z.ended => z.given = Coding.made[z.eaten] + Coding.rest
          /\ ~z.ended => z.given <= Coding.made[z.eaten]
                            + (IF pc = "write" /\ Entered = stream.declared /\ avail_in = 0
                               THEN Coding.rest ELSE 0)

ZlibDecompressingWriter ==
    /\ pc # "finish"
    /\ z.ended => thrown = "writer" \/ m_processed_bytes >= Coding.size
    /\ thrown = "codec" => z.ended
    /\ thrown = "no" /\ z.ended => z.given = Coding.made[Coding.size]
    /\ thrown = "no" /\ ~z.ended =>
          /\ EatenInv
          /\ Within(Coding, z) /\ ~Complete(Coding, z)
          /\ pc # "write" => z.given = Owed

ZstdDecompressingWriter ==
    /\ pc # "finish"
    /\ thrown = "codec" => m_processed_bytes + piece > Coding.size
    /\ thrown = "no" =>
          /\ EatenInv
          /\ z.eaten <= Coding.size
          /\ z.ended <=> z.eaten = Coding.size
          /\ z.ended => z.given = Coding.made[Coding.size]
          /\ \/ z.given <= Coding.made[z.eaten]
             \/ /\ z.eaten + 1 = Coding.size /\ avail_in > 0
                /\ z.given <= Coding.made[Coding.size]

WriterOfKind ==
    /\ stream.kind = "zlib_compression"   => ZlibCompressingWriter
    /\ stream.kind = "zstd_compression"   => ZstdCompressingWriter
    /\ stream.kind = "zlib_decompression" => ZlibDecompressingWriter
    /\ stream.kind = "zstd_decompression" => ZstdDecompressingWriter

WriterIInv == WriterTypeOK /\ WritingInv /\ HandedOn /\ WriterOfKind

\* What the assumption says of the stream that is written.
LEMMA StreamIs ==
  ASSUME CodecWritersAssumption, stream \in Streams
  PROVE  /\ Capacity \in Nat \ {0} /\ Pieces \subseteq Nat \ {0}
         /\ stream.kind \in Kinds /\ IsCoding(Coding)
         /\ stream.supply \in Nat /\ stream.declared \in Nat
         /\ Compresses(stream.kind) => stream.supply <= Coding.size
BY DEF CodecWritersAssumption, Coding

LEMMA WriterInitially == ASSUME CodecWritersAssumption, WriterInit PROVE WriterIInv
<1>1. z \in States /\ z.eaten = 0 /\ z.given = 0 /\ ~z.ended
  BY DEF WriterInit, Fresh, States
<1>2. WriterTypeOK /\ WritingInv /\ HandedOn
  BY <1>1 DEF WriterInit, WriterTypeOK, WritingInv, HandedOn
<1>3. /\ IsCoding(Coding) /\ stream.supply \in Nat /\ stream.declared \in Nat
  BY StreamIs DEF WriterInit
<1>4. Coding.made[0] \in Nat /\ Coding.size \in Nat \ {0} /\ Coding.rest \in Nat
  BY <1>3 DEF IsCoding
<1>5. Entered = 0 /\ EatenInv /\ Owed = 0
  BY <1>1 DEF WriterInit, Entered, EatenInv, Owed
<1>6. ZlibCompressingWriter BY <1>1, <1>3, <1>4, <1>5 DEF WriterInit, ZlibCompressingWriter
<1>7. ZstdCompressingWriter BY <1>1, <1>3, <1>4, <1>5 DEF WriterInit, ZstdCompressingWriter
<1>8. ZlibDecompressingWriter
  BY <1>1, <1>4, <1>5 DEF WriterInit, ZlibDecompressingWriter, Within, Complete
<1>9. ZstdDecompressingWriter BY <1>1, <1>4, <1>5 DEF WriterInit, ZstdDecompressingWriter
<1> QED BY <1>2, <1>6, <1>7, <1>8, <1>9 DEF WriterIInv, WriterOfKind

\* handle_output() passes on exactly what the codec gave.
LEMMA OutputHandled ==
  ASSUME WriterTypeOK, HandedOn, Capacity \in Nat, NEW r, IsAnswer(r, z, avail_in, Capacity),
         Consumed(r), HandleOutput(r), thrown' = thrown
  PROVE  /\ z' \in States /\ avail_in' \in Nat
         /\ handled' \in Nat /\ inner' \in Nat /\ intact' \in BOOLEAN
         /\ HandedOn'
<1>1. /\ z' = r.z /\ z' \in States /\ avail_in' \in Nat
      /\ r.z.given = z.given + r.gave /\ z.given \in Nat /\ r.gave \in Nat
  BY DEF Consumed, IsAnswer, WriterTypeOK, States
<1>2. CASE handled < r.z.given
  <2>1. /\ handled' = handled + (r.z.given - handled)
        /\ inner' = inner + (r.z.given - handled)
        /\ intact' = (intact /\ r.gave = r.z.given - handled)
    BY <1>2 DEF HandleOutput, PassOn
  <2>2. intact' \in BOOLEAN BY <2>1
  <2>3. handled' = r.z.given /\ handled' \in Nat /\ inner' \in Nat
    BY <1>1, <1>2, <2>1 DEF WriterTypeOK
  <2>4. thrown # "writer" => inner' = handled' /\ r.gave = r.z.given - handled
    BY <1>1, <2>1, <2>3 DEF HandedOn, WriterTypeOK
  <2>5. thrown # "writer" => intact' BY <2>1, <2>4 DEF HandedOn
  <2> QED BY <1>1, <2>2, <2>3, <2>4, <2>5 DEF HandedOn
<1>3. CASE ~(handled < r.z.given)
  <2>1. handled' = handled /\ inner' = inner /\ intact' = intact
    BY <1>3 DEF HandleOutput, given
  <2>2. thrown # "writer" => handled = r.z.given BY <1>1, <1>3 DEF HandedOn, WriterTypeOK
  <2> QED BY <1>1, <2>1, <2>2 DEF HandedOn, WriterTypeOK
<1> QED BY <1>2, <1>3

\* A turn that gives nothing, and one that throws, leave nothing unpassed.
LEMMA NothingGiven ==
  ASSUME WriterTypeOK, HandedOn, Capacity \in Nat, NEW r, IsAnswer(r, z, avail_in, Capacity),
         Consumed(r), UNCHANGED given,
         thrown' = "writer" \/ (r.gave = 0 /\ thrown # "writer")
  PROVE  /\ z' \in States /\ avail_in' \in Nat
         /\ handled' \in Nat /\ inner' \in Nat /\ intact' \in BOOLEAN
         /\ HandedOn'
<1>1. /\ z' = r.z /\ z' \in States /\ avail_in' \in Nat
      /\ r.z.given = z.given + r.gave /\ z.given \in Nat /\ r.gave \in Nat
  BY DEF Consumed, IsAnswer, WriterTypeOK, States
<1>2. handled' = handled /\ inner' = inner /\ intact' = intact BY DEF given
<1> QED BY <1>1, <1>2 DEF HandedOn, WriterTypeOK

\* The zstd writers pass on what the call gave, if it gave something.
LEMMA OutputPassed ==
  ASSUME WriterTypeOK, HandedOn, Capacity \in Nat, NEW r, IsAnswer(r, z, avail_in, Capacity),
         Consumed(r), IF r.gave > 0 THEN PassOn(r.gave, r.gave) ELSE UNCHANGED given,
         thrown' = thrown
  PROVE  /\ z' \in States /\ avail_in' \in Nat
         /\ handled' \in Nat /\ inner' \in Nat /\ intact' \in BOOLEAN
         /\ HandedOn'
<1>1. /\ z' = r.z /\ z' \in States /\ avail_in' \in Nat
      /\ r.z.given = z.given + r.gave /\ z.given \in Nat /\ r.gave \in Nat
  BY DEF Consumed, IsAnswer, WriterTypeOK, States
<1>2. handled' = handled + r.gave /\ inner' = inner + r.gave
  BY <1>1 DEF PassOn, given, WriterTypeOK
<1>3. intact' <=> intact BY <1>1 DEF PassOn, given
<1>4. intact' \in BOOLEAN BY DEF PassOn, given, WriterTypeOK
<1> QED BY <1>1, <1>2, <1>3, <1>4 DEF HandedOn, WriterTypeOK

LEMMA FlushStep == ASSUME CodecWritersAssumption, WriterIInv, Flush PROVE WriterIInv'
<1>1. WriterTypeOK' /\ WritingInv' /\ HandedOn'
  BY DEF WriterIInv, Flush, WriterTypeOK, WritingInv, HandedOn, given
<1>2. /\ stream.kind = "zlib_compression" /\ ZlibCompressingWriter /\ pc = "idle"
      /\ thrown = "no" /\ pc' = "finish"
      /\ UNCHANGED <<stream, z, avail_in, m_processed_bytes, ended, thrown>>
  BY DEF WriterIInv, WriterOfKind, Flush
<1>3. /\ Coding' = Coding /\ Entered' = Entered
      /\ EatenInv => EatenInv' /\ avail_in = 0
  BY <1>2 DEF Coding, Entered, EatenInv
<1>4. ~ended => z.given <= Coding.made[z.eaten] + Coding.rest
  <2>1. EatenInv /\ Entered <= stream.supply BY <1>2 DEF ZlibCompressingWriter
  <2>2. z.eaten \in 0 .. Coding.size
    BY <1>2, <2>1, StreamIs, MadeIs DEF WriterIInv, WriterTypeOK, States, EatenInv, Compresses
  <2>3. Coding.made[z.eaten] \in Nat /\ Coding.rest \in Nat
    BY <2>2, StreamIs, MadeIs DEF WriterIInv, WriterTypeOK
  <2> QED BY <1>2, <2>3 DEF ZlibCompressingWriter, WriterIInv, WriterTypeOK, States
<1>5. ZlibCompressingWriter' BY <1>2, <1>3, <1>4 DEF ZlibCompressingWriter
<1> QED BY <1>1, <1>2, <1>5 DEF WriterIInv, WriterOfKind

LEMMA DestroyStep == ASSUME CodecWritersAssumption, WriterIInv, Destroy PROVE WriterIInv'
<1>1. WriterTypeOK' /\ WritingInv' /\ HandedOn'
  BY DEF WriterIInv, Destroy, WriterTypeOK, WritingInv, HandedOn, given
<1>2. /\ pc = "idle" /\ stream.kind \in Kinds
      /\ pc' = IF stream.kind = "zlib_compression" THEN "finish" ELSE "gone"
      /\ UNCHANGED <<stream, z, avail_in, piece, m_processed_bytes, ended, thrown>>
  BY StreamIs DEF WriterIInv, WriterTypeOK, Destroy
<1>3. /\ Coding' = Coding /\ Entered' = Entered /\ (EatenInv => EatenInv')
      /\ Owed' = Owed
  BY <1>2 DEF Coding, Entered, EatenInv, Owed, Processed
<1>4. CASE stream.kind = "zlib_compression"
  <2>1. ZlibCompressingWriter /\ pc' = "finish" BY <1>2, <1>4 DEF WriterIInv, WriterOfKind
  <2>2. thrown = "no" /\ ~ended => z.given <= Coding.made[z.eaten] + Coding.rest
    <3>1. SUFFICES ASSUME thrown = "no", ~ended
                   PROVE  z.given <= Coding.made[z.eaten] + Coding.rest
      OBVIOUS
    <3>2. EatenInv /\ Entered <= stream.supply BY <2>1, <3>1 DEF ZlibCompressingWriter
    <3>3. z.eaten \in 0 .. Coding.size
      BY <1>2, <1>4, <3>2, StreamIs, MadeIs
         DEF WriterIInv, WriterTypeOK, States, EatenInv, Entered, Compresses
    <3>4. Coding.made[z.eaten] \in Nat /\ Coding.rest \in Nat
      BY <3>3, StreamIs, MadeIs DEF WriterIInv, WriterTypeOK
    <3> QED BY <1>2, <2>1, <3>1, <3>4 DEF ZlibCompressingWriter, WriterIInv,
                                          WriterTypeOK, States
  <2>3. ZlibCompressingWriter' BY <1>2, <1>3, <2>1, <2>2 DEF ZlibCompressingWriter, EatenInv
  <2> QED BY <1>1, <1>2, <1>4, <2>3 DEF WriterIInv, WriterOfKind
<1>5. CASE stream.kind = "zstd_compression"
  <2>1. ZstdCompressingWriter /\ pc' = "gone" BY <1>2, <1>5 DEF WriterIInv, WriterOfKind
  <2>2. ZstdCompressingWriter' BY <1>2, <1>3, <2>1 DEF ZstdCompressingWriter
  <2> QED BY <1>1, <1>2, <1>5, <2>2 DEF WriterIInv, WriterOfKind
<1>6. CASE stream.kind = "zlib_decompression"
  <2>1. ZlibDecompressingWriter /\ pc' = "gone" BY <1>2, <1>6 DEF WriterIInv, WriterOfKind
  <2>2. ZlibDecompressingWriter' BY <1>2, <1>3, <2>1 DEF ZlibDecompressingWriter, Within,
       Complete
  <2> QED BY <1>1, <1>2, <1>6, <2>2 DEF WriterIInv, WriterOfKind
<1>7. CASE stream.kind = "zstd_decompression"
  <2>1. ZstdDecompressingWriter /\ pc' = "gone" BY <1>2, <1>7 DEF WriterIInv, WriterOfKind
  <2>2. ZstdDecompressingWriter' BY <1>2, <1>3, <2>1 DEF ZstdDecompressingWriter
  <2> QED BY <1>1, <1>2, <1>7, <2>2 DEF WriterIInv, WriterOfKind
<1> QED BY <1>2, <1>4, <1>5, <1>6, <1>7 DEF Kinds

LEMMA WriteStep ==
  ASSUME CodecWritersAssumption, WriterIInv, NEW n \in Pieces, Write(n) PROVE WriterIInv'
<1>1. /\ n \in Nat \ {0} /\ pc = "idle" /\ thrown = "no" /\ stream' = stream
      /\ m_processed_bytes' = m_processed_bytes /\ z' = z /\ ended' = ended
      /\ m_processed_bytes + n <= stream.supply
      /\ UNCHANGED given
      /\ Coding' = Coding
  BY StreamIs DEF WriterIInv, WriterTypeOK, Write, ThrowFrom, Coding
<1>2. CASE stream.kind = "zstd_compression" /\ m_processed_bytes + n > stream.declared
  <2>1. /\ thrown' = "codec" /\ pc' \in {"idle", "gone"}
        /\ avail_in' = avail_in /\ piece' = piece /\ destroying' = destroying
    BY <1>2 DEF Write, ThrowFrom
  <2>2. WriterTypeOK' /\ WritingInv' /\ HandedOn'
    BY <1>1, <2>1 DEF WriterIInv, WriterTypeOK, WritingInv, HandedOn, given
  <2>3. m_processed_bytes < stream.supply
    BY <1>1, StreamIs DEF WriterIInv, WriterTypeOK
  <2>4. ZstdCompressingWriter' BY <1>1, <2>1, <2>3 DEF ZstdCompressingWriter
  <2> QED BY <1>1, <1>2, <2>2, <2>4 DEF WriterIInv, WriterOfKind
<1>3. CASE ~(stream.kind = "zstd_compression" /\ m_processed_bytes + n > stream.declared)
  <2>1. /\ pc' = "write" /\ avail_in' = n /\ piece' = n /\ destroying' = destroying
        /\ thrown' = "no"
    BY <1>1, <1>3 DEF Write
  <2>2. WriterTypeOK' /\ WritingInv' /\ HandedOn'
    BY <1>1, <2>1 DEF WriterIInv, WriterTypeOK, WritingInv, HandedOn, given
  <2>3. Entered' = Entered + n /\ (EatenInv => EatenInv')
    BY <1>1, <2>1 DEF Entered, EatenInv, WriterIInv, WriterTypeOK, States
  <2>4. Entered = m_processed_bytes BY <1>1 DEF Entered, WriterIInv, WriterTypeOK
  <2>5. stream.kind = "zlib_compression" => ZlibCompressingWriter'
    <3> SUFFICES ASSUME stream.kind = "zlib_compression" PROVE ZlibCompressingWriter'
      OBVIOUS
    <3>1. ZlibCompressingWriter BY DEF WriterIInv, WriterOfKind
    <3>2. ~ended => z.given <= Coding.made[z.eaten] BY <1>1, <3>1 DEF ZlibCompressingWriter
    <3> QED BY <1>1, <2>1, <2>3, <2>4, <3>1, <3>2 DEF ZlibCompressingWriter
  <2>6. stream.kind = "zstd_compression" => ZstdCompressingWriter'
    <3> SUFFICES ASSUME stream.kind = "zstd_compression" PROVE ZstdCompressingWriter'
      OBVIOUS
    <3>1. ZstdCompressingWriter BY DEF WriterIInv, WriterOfKind
    <3>2. m_processed_bytes + n <= stream.declared
      BY <1>1, <1>3, StreamIs DEF WriterIInv, WriterTypeOK
    <3>3. ~z.ended /\ z.given <= Coding.made[z.eaten]
      BY <1>1, <2>4, <3>1, <3>2, StreamIs, MadeIs
         DEF ZstdCompressingWriter, EatenInv, Compresses, WriterIInv, WriterTypeOK, States
    <3>4. Coding.made[z.eaten] \in Nat /\ Coding.rest \in Nat
      BY <1>1, <2>4, <3>1, StreamIs, MadeIs
         DEF ZstdCompressingWriter, EatenInv, Compresses, WriterIInv, WriterTypeOK, States
    <3> QED BY <1>1, <2>1, <2>3, <2>4, <3>1, <3>2, <3>3, <3>4 DEF ZstdCompressingWriter
  <2>7. stream.kind = "zlib_decompression" => ZlibDecompressingWriter'
    <3> SUFFICES ASSUME stream.kind = "zlib_decompression" PROVE ZlibDecompressingWriter'
      OBVIOUS
    <3>1. ZlibDecompressingWriter BY DEF WriterIInv, WriterOfKind
    <3> QED BY <1>1, <2>1, <2>3, <3>1 DEF ZlibDecompressingWriter, Within, Complete
  <2>8. stream.kind = "zstd_decompression" => ZstdDecompressingWriter'
    <3> SUFFICES ASSUME stream.kind = "zstd_decompression" PROVE ZstdDecompressingWriter'
      OBVIOUS
    <3>1. ZstdDecompressingWriter BY DEF WriterIInv, WriterOfKind
    <3>2. avail_in = 0 BY <1>1, <3>1 DEF ZstdDecompressingWriter, EatenInv
    <3> QED BY <1>1, <2>1, <2>3, <3>1, <3>2 DEF ZstdDecompressingWriter
  <2> QED BY <1>1, <2>2, <2>5, <2>6, <2>7, <2>8 DEF WriterIInv, WriterOfKind
<1> QED BY <1>2, <1>3

LEMMA DeflateWriteStep == ASSUME CodecWritersAssumption, WriterIInv, DeflateWrites PROVE WriterIInv'
<1>1. /\ stream.kind = "zlib_compression" /\ pc = "write" /\ piece > 0 /\ thrown = "no"
      /\ WriterTypeOK /\ HandedOn /\ ZlibCompressingWriter
      /\ piece \in Nat /\ m_processed_bytes \in Nat /\ avail_in \in Nat /\ z \in States
  BY DEF DeflateWrites, Writing, WriterIInv, WritingInv, WriterOfKind, WriterTypeOK
<1>2. /\ Capacity \in Nat \ {0} /\ IsCoding(Coding) /\ stream.supply <= Coding.size
      /\ stream.supply \in Nat
  BY <1>1, StreamIs DEF WriterTypeOK, Compresses
<1>3. /\ Entered = m_processed_bytes + piece /\ z.eaten + avail_in = Entered
      /\ Entered <= stream.supply /\ Entered \in Nat \ {0}
  BY <1>1 DEF ZlibCompressingWriter, EatenInv, Entered
<1>4. PICK r \in Deflate(Coding, z, avail_in, Capacity, FALSE) :
          \/ /\ r.ret = "buf_error" /\ avail_in = 0
             /\ Consumed(r) /\ Written /\ Stays /\ UNCHANGED <<given, ended>>
          \/ /\ r.ret = "ok"
             /\ Consumed(r) /\ HandleOutput(r) /\ Stays
             /\ UNCHANGED <<pc, m_processed_bytes, ended>>
          \/ r.ret = "ok" /\ InnerThrows(r)
          \/ r.ret = "stream_error" /\ Consumed(r) /\ ThrowFrom("codec")
  BY DEF DeflateWrites
<1>5. r \in DeflateOn(Coding, z, avail_in, Capacity) BY DEF Deflate
<1>6. z.eaten + avail_in <= Coding.size BY <1>2, <1>3, MadeIs
<1>7. /\ IsAnswer(r, z, avail_in, Capacity) /\ (r.z.ended <=> z.ended)
      /\ z.ended => r.ret = "stream_error" /\ r.ate = 0 /\ r.gave = 0
      /\ ~z.ended => /\ r.ret \in {"ok", "buf_error"}
                     /\ r.ret = "buf_error" =>
                          r.ate = 0 /\ r.gave = 0 /\ z.given = Coding.made[z.eaten]
                     /\ r.z.given <= Coding.made[r.z.eaten]
  BY <1>1, <1>2, <1>5, <1>6, DeflateOnIs
<1>8. /\ Consumed(r) => z' = r.z /\ avail_in' = avail_in - r.ate
      /\ r.z.eaten = z.eaten + r.ate /\ r.z.given = z.given + r.gave
      /\ r.ate \in 0 .. avail_in /\ r.gave \in Nat /\ z.eaten \in Nat /\ z.given \in Nat
  BY <1>1, <1>2, <1>7 DEF Consumed, IsAnswer, States
<1>9. CASE /\ r.ret = "buf_error" /\ avail_in = 0
           /\ Consumed(r) /\ Written /\ Stays /\ UNCHANGED <<given, ended>>
  <2>1. /\ pc' = "idle" /\ m_processed_bytes' = m_processed_bytes + piece
        /\ UNCHANGED <<stream, piece, destroying, thrown, given, ended>>
    BY <1>9 DEF Written, Stays
  <2>2. ~z.ended /\ r.gave = 0 /\ r.ate = 0 BY <1>7, <1>9
  <2>3. WriterTypeOK' /\ WritingInv' /\ HandedOn'
    BY <1>1, <1>2, <1>7, <1>9, <2>1, <2>2, NothingGiven DEF WriterTypeOK, WritingInv
  <2>4. z'.eaten = z.eaten /\ z'.given = z.given /\ ~z'.ended /\ avail_in' = 0
    BY <1>7, <1>8, <1>9, <2>2
  <2>5. Entered' = Entered /\ EatenInv' /\ Coding' = Coding
    BY <1>1, <1>3, <1>9, <2>1, <2>4 DEF Entered, EatenInv, Coding
  <2>6. Owed' = Coding.made[z.eaten] /\ z.given = Coding.made[z.eaten]
    <3>1. m_processed_bytes' = z.eaten /\ z.eaten # 0 /\ z.eaten <= Coding.size
      BY <1>3, <1>6, <1>8, <1>9, <2>1
    <3>2. Processed' = z.eaten BY <2>5, <3>1 DEF Processed, Lesser
    <3> QED BY <1>7, <1>9, <2>2, <2>5, <3>1, <3>2 DEF Owed
  <2>7. z.given <= Coding.made[z.eaten] BY <1>8, <2>6
  <2>8. ZlibCompressingWriter'
    BY <1>1, <1>3, <2>1, <2>2, <2>4, <2>5, <2>6, <2>7 DEF ZlibCompressingWriter
  <2> QED BY <1>1, <2>1, <2>3, <2>8 DEF WriterIInv, WriterOfKind
<1>10. CASE /\ r.ret = "ok"
            /\ Consumed(r) /\ HandleOutput(r) /\ Stays
            /\ UNCHANGED <<pc, m_processed_bytes, ended>>
  <2>1. UNCHANGED <<stream, piece, destroying, thrown, pc, m_processed_bytes, ended>>
    BY <1>10 DEF Stays
  <2>2. WriterTypeOK' /\ WritingInv' /\ HandedOn'
    BY <1>1, <1>2, <1>7, <1>10, <2>1, OutputHandled DEF WriterTypeOK, WritingInv
  <2>3. ~z.ended BY <1>7, <1>10
  <2>4. /\ ~z'.ended /\ z'.given <= Coding.made[z'.eaten]
        /\ z'.eaten + avail_in' = z.eaten + avail_in
    BY <1>1, <1>7, <1>8, <1>10, <2>3
  <2>5. Entered' = Entered /\ EatenInv' /\ Coding' = Coding
    BY <1>1, <1>3, <2>1, <2>4 DEF Entered, EatenInv, Coding
  <2>6. ZlibCompressingWriter'
    BY <1>1, <1>3, <2>1, <2>3, <2>4, <2>5 DEF ZlibCompressingWriter
  <2> QED BY <1>1, <2>1, <2>2, <2>6 DEF WriterIInv, WriterOfKind
<1>11. CASE r.ret = "ok" /\ InnerThrows(r)
  <2>1. /\ Consumed(r) /\ thrown' = "writer" /\ pc' \in {"idle", "gone"}
        /\ UNCHANGED <<stream, piece, m_processed_bytes, given, destroying, ended>>
    BY <1>11 DEF InnerThrows, ThrowFrom
  <2>2. WriterTypeOK' /\ WritingInv' /\ HandedOn'
    BY <1>1, <1>2, <1>7, <2>1, NothingGiven DEF WriterTypeOK, WritingInv
  <2>3. ~z'.ended BY <1>7, <1>8, <1>11, <2>1
  <2>4. ZlibCompressingWriter' BY <2>1, <2>3 DEF ZlibCompressingWriter
  <2> QED BY <1>1, <2>1, <2>2, <2>4 DEF WriterIInv, WriterOfKind
<1>12. CASE r.ret = "stream_error" /\ Consumed(r) /\ ThrowFrom("codec")
  <2>1. /\ thrown' = "codec" /\ pc' \in {"idle", "gone"}
        /\ UNCHANGED <<stream, piece, m_processed_bytes, given, destroying, ended>>
    BY <1>12 DEF ThrowFrom
  <2>2. z.ended /\ r.gave = 0 /\ ended BY <1>1, <1>7, <1>12 DEF ZlibCompressingWriter
  <2>3. WriterTypeOK' /\ WritingInv' /\ HandedOn'
    BY <1>1, <1>2, <1>7, <1>12, <2>1, <2>2, NothingGiven DEF WriterTypeOK, WritingInv
  <2>4. z'.ended BY <1>7, <1>8, <1>12, <2>2
  <2>5. ZlibCompressingWriter' BY <2>1, <2>2, <2>4 DEF ZlibCompressingWriter
  <2> QED BY <1>1, <2>1, <2>3, <2>5 DEF WriterIInv, WriterOfKind
<1> QED BY <1>4, <1>9, <1>10, <1>11, <1>12

\* Also after an exception: the destructor ends the stream then too.
LEMMA FinishStep == ASSUME CodecWritersAssumption, WriterIInv, FinishWrites PROVE WriterIInv'
<1>1. /\ stream.kind = "zlib_compression" /\ pc = "finish"
      /\ WriterTypeOK /\ HandedOn /\ ZlibCompressingWriter
      /\ m_processed_bytes \in Nat /\ avail_in \in Nat /\ z \in States
  BY StreamIs DEF FinishWrites, WriterIInv, WriterOfKind, WriterTypeOK, Kinds,
                  ZstdCompressingWriter,
                  ZlibDecompressingWriter, ZstdDecompressingWriter
<1>2. /\ Capacity \in Nat \ {0} /\ IsCoding(Coding) /\ stream.supply <= Coding.size
      /\ stream.supply \in Nat
  BY <1>1, StreamIs DEF WriterTypeOK, Compresses
<1>3. thrown = "no" => /\ Entered = m_processed_bytes /\ z.eaten = m_processed_bytes
                       /\ avail_in = 0 /\ m_processed_bytes <= stream.supply
  BY <1>1 DEF ZlibCompressingWriter, EatenInv, Entered, States
<1>4. PICK r \in Deflate(Coding, z, avail_in, Capacity, TRUE) :
          \/ /\ r.ret \in {"ok", "end"}
             /\ Consumed(r) /\ HandleOutput(r) /\ Stays
             /\ UNCHANGED m_processed_bytes
             /\ IF r.ret = "end"
                THEN ended' = TRUE /\ pc' = (IF destroying THEN "gone" ELSE "idle")
                ELSE UNCHANGED <<pc, ended>>
          \/ r.ret \in {"ok", "end"} /\ InnerThrows(r)
          \/ r.ret = "buf_error" /\ Consumed(r) /\ ThrowFrom("codec")
  BY DEF FinishWrites
<1>5. r \in DeflateToEnd(Coding, z, avail_in, Capacity) BY DEF Deflate
<1>6. thrown = "no" => z.eaten + avail_in <= Coding.size
  BY <1>1, <1>2, <1>3, MadeIs
<1>7. /\ IsAnswer(r, z, avail_in, Capacity)
      /\ r.z.ended <=> z.ended \/ r.ret = "end"
      /\ r.ret = "buf_error" <=> z.ended /\ avail_in > 0
      /\ z.ended => r.ate = 0 /\ r.gave = 0 /\ r.ret # "ok"
      /\ ~z.ended /\ r.ret = "end" => r.ate = avail_in
      /\ ~z.ended /\ thrown = "no" =>
           /\ r.z.given <= Coding.made[r.z.eaten] + Coding.rest
           /\ r.ret = "end" => r.z.given = Coding.made[r.z.eaten] + Coding.rest
  BY <1>1, <1>2, <1>5, <1>6, DeflateToEndIs
<1>8. /\ Consumed(r) => z' = r.z /\ avail_in' = avail_in - r.ate
      /\ r.z.eaten = z.eaten + r.ate /\ r.z.given = z.given + r.gave
      /\ r.ate \in 0 .. avail_in /\ r.gave \in Nat /\ z.eaten \in Nat /\ z.given \in Nat
  BY <1>1, <1>2, <1>7 DEF Consumed, IsAnswer, States
<1>9. CASE /\ r.ret \in {"ok", "end"}
           /\ Consumed(r) /\ HandleOutput(r) /\ Stays
           /\ UNCHANGED m_processed_bytes
           /\ IF r.ret = "end"
              THEN ended' = TRUE /\ pc' = (IF destroying THEN "gone" ELSE "idle")
              ELSE UNCHANGED <<pc, ended>>
  <2>1. /\ UNCHANGED <<stream, piece, destroying, thrown, m_processed_bytes>>
        /\ r.ret = "end" => ended' /\ pc' \in {"idle", "gone"}
        /\ r.ret # "end" => ended' = ended /\ pc' = "finish"
        /\ ended' \in BOOLEAN
    BY <1>1, <1>9 DEF Stays, WriterTypeOK
  <2>2. WriterTypeOK' /\ WritingInv' /\ HandedOn'
    BY <1>1, <1>2, <1>7, <1>9, <2>1, OutputHandled DEF WriterTypeOK, WritingInv
  <2>3. /\ z' = r.z /\ avail_in' = avail_in - r.ate /\ Coding' = Coding
        /\ r.ret = "end" => ~(z'.ended /\ avail_in' > 0)
        /\ thrown # "writer" => (z'.ended <=> ended')
        /\ r.ret # "end" => ~z'.ended
    <3>1. z' = r.z /\ avail_in' = avail_in - r.ate /\ Coding' = Coding
      BY <1>8, <1>9, <2>1 DEF Coding
    <3>2. r.ret = "end" => avail_in' = 0
      BY <1>1, <1>7, <1>8, <3>1
    <3>3. thrown # "writer" => (z.ended <=> ended) BY <1>1 DEF ZlibCompressingWriter
    <3> QED BY <1>7, <1>9, <2>1, <3>1, <3>2, <3>3
  <2>4. ASSUME thrown = "no"
        PROVE  /\ Entered' <= stream.supply /\ EatenInv'
               /\ ended' => z'.given = Coding.made[z'.eaten] + Coding.rest
               /\ ~ended' => z'.given <= Coding.made[z'.eaten] + Coding.rest
    <3>1. /\ avail_in' = 0 /\ z'.eaten = z.eaten /\ Entered' = m_processed_bytes
      BY <1>1, <1>3, <1>8, <2>1, <2>3, <2>4 DEF Entered
    <3>2. EatenInv' BY <1>1, <1>3, <2>4, <3>1 DEF EatenInv
    <3>3. CASE z.ended
      <4>1. z.given = Coding.made[z.eaten] + Coding.rest /\ r.ret = "end" /\ r.gave = 0
        BY <1>1, <1>7, <1>9, <2>4, <3>3 DEF ZlibCompressingWriter
      <4>2. z'.given = z.given BY <1>8, <2>3, <4>1
      <4>3. z'.given = Coding.made[z'.eaten] + Coding.rest BY <3>1, <4>1, <4>2
      <4>4. ended' BY <2>1, <4>1
      <4> QED BY <1>3, <2>4, <3>1, <3>2, <4>3, <4>4
    <3>4. CASE ~z.ended
      <4>1. /\ r.z.given <= Coding.made[r.z.eaten] + Coding.rest
            /\ r.ret = "end" => r.z.given = Coding.made[r.z.eaten] + Coding.rest
        BY <1>7, <2>4, <3>4
      <4>2. ended' => r.ret = "end" BY <1>1, <2>1, <2>4, <3>4 DEF ZlibCompressingWriter
      <4> QED BY <1>3, <2>3, <2>4, <3>1, <3>2, <4>1, <4>2
    <3> QED BY <3>3, <3>4
  <2>5. ZlibCompressingWriter'
    BY <1>1, <2>1, <2>3, <2>4 DEF ZlibCompressingWriter, EatenInv
  <2> QED BY <1>1, <2>1, <2>2, <2>5 DEF WriterIInv, WriterOfKind
<1>10. CASE r.ret \in {"ok", "end"} /\ InnerThrows(r)
  <2>1. /\ Consumed(r) /\ thrown' = "writer" /\ pc' \in {"idle", "gone"}
        /\ UNCHANGED <<stream, piece, m_processed_bytes, given, destroying, ended>>
    BY <1>10 DEF InnerThrows, ThrowFrom
  <2>2. WriterTypeOK' /\ WritingInv' /\ HandedOn'
    BY <1>1, <1>2, <1>7, <2>1, NothingGiven DEF WriterTypeOK, WritingInv
  <2>3. ~(z'.ended /\ avail_in' > 0)
    <3>1. CASE z.ended BY <1>1, <1>7, <1>8, <1>10, <2>1, <3>1
    <3>2. CASE ~z.ended BY <1>1, <1>7, <1>8, <1>10, <2>1, <3>2
    <3> QED BY <3>1, <3>2
  <2>4. ZlibCompressingWriter' BY <2>1, <2>3 DEF ZlibCompressingWriter
  <2> QED BY <1>1, <2>1, <2>2, <2>4 DEF WriterIInv, WriterOfKind
<1>11. CASE r.ret = "buf_error" /\ Consumed(r) /\ ThrowFrom("codec")
  <2>1. /\ thrown' = "codec" /\ pc' \in {"idle", "gone"}
        /\ UNCHANGED <<stream, piece, m_processed_bytes, given, destroying, ended>>
    BY <1>11 DEF ThrowFrom
  <2>2. z.ended /\ avail_in > 0 /\ r.gave = 0 BY <1>7, <1>11
  <2>3. thrown # "writer" BY <1>1, <2>2 DEF ZlibCompressingWriter
  <2>4. ended BY <1>1, <2>2, <2>3 DEF ZlibCompressingWriter
  <2>5. WriterTypeOK' /\ WritingInv' /\ HandedOn'
    BY <1>1, <1>2, <1>7, <1>11, <2>1, <2>2, <2>3, NothingGiven DEF WriterTypeOK, WritingInv
  <2>6. z'.ended BY <1>7, <1>8, <1>11, <2>2
  <2>7. ZlibCompressingWriter' BY <2>1, <2>4, <2>6 DEF ZlibCompressingWriter
  <2> QED BY <1>1, <2>1, <2>5, <2>7 DEF WriterIInv, WriterOfKind
<1> QED BY <1>4, <1>9, <1>10, <1>11

LEMMA InflateWriteStep == ASSUME CodecWritersAssumption, WriterIInv, InflateWrites PROVE WriterIInv'
<1>1. /\ stream.kind = "zlib_decompression" /\ pc = "write" /\ piece > 0 /\ thrown = "no"
      /\ WriterTypeOK /\ HandedOn /\ ZlibDecompressingWriter
      /\ piece \in Nat /\ m_processed_bytes \in Nat /\ avail_in \in Nat /\ z \in States
  BY DEF InflateWrites, Writing, WriterIInv, WritingInv, WriterOfKind, WriterTypeOK
<1>2. /\ Capacity \in Nat \ {0} /\ IsCoding(Coding) /\ Coding.size \in Nat \ {0}
  BY <1>1, StreamIs, MadeIs DEF WriterTypeOK
<1>3. /\ z.ended => m_processed_bytes >= Coding.size /\ z.given = Coding.made[Coding.size]
      /\ ~z.ended => /\ z.eaten + avail_in = m_processed_bytes + piece
                     /\ z.eaten <= Coding.size /\ ~Complete(Coding, z)
  BY <1>1 DEF ZlibDecompressingWriter, EatenInv, Entered, Within
<1>4. PICK r \in Inflate(Coding, z, avail_in, Capacity) :
          \/ /\ r.ret = "buf_error" /\ avail_in = 0
             /\ Consumed(r) /\ Written /\ Stays /\ UNCHANGED <<given, ended>>
          \/ /\ r.ret \in {"ok", "end"}
             /\ Consumed(r) /\ HandleOutput(r) /\ Stays /\ UNCHANGED ended
             /\ IF r.ret = "end" THEN Written ELSE UNCHANGED <<pc, m_processed_bytes>>
          \/ r.ret \in {"ok", "end"} /\ InnerThrows(r)
          \/ /\ r.ret = "stream_error" \/ (r.ret = "buf_error" /\ avail_in > 0)
             /\ Consumed(r) /\ ThrowFrom("codec")
  BY DEF InflateWrites
<1>5. /\ IsAnswer(r, z, avail_in, Capacity)
      /\ r.z.ended <=> z.ended \/ r.ret = "end"
      /\ z.ended => r.ret = "stream_error" /\ r.ate = 0 /\ r.gave = 0
      /\ ~z.ended =>
           /\ r.ret \in {"ok", "end", "buf_error"}
           /\ Within(Coding, r.z)
           /\ r.ret = "end" <=> Complete(Coding, r.z)
           /\ r.ret = "buf_error" =>
                 r.ate = 0 /\ r.gave = 0 /\ avail_in = 0 /\ z.given = Coding.made[z.eaten]
  BY <1>1, <1>2, <1>3, InflateIs
<1>6. /\ Consumed(r) => z' = r.z /\ avail_in' = avail_in - r.ate
      /\ r.z.eaten = z.eaten + r.ate /\ r.z.given = z.given + r.gave
      /\ r.ate \in 0 .. avail_in /\ r.gave \in Nat /\ z.eaten \in Nat /\ z.given \in Nat
  BY <1>1, <1>2, <1>5 DEF Consumed, IsAnswer, States
<1>7. CASE /\ r.ret = "buf_error" /\ avail_in = 0
           /\ Consumed(r) /\ Written /\ Stays /\ UNCHANGED <<given, ended>>
  <2>1. /\ pc' = "idle" /\ m_processed_bytes' = m_processed_bytes + piece
        /\ UNCHANGED <<stream, piece, destroying, thrown, given, ended>>
    BY <1>7 DEF Written, Stays
  <2>2. ~z.ended /\ r.gave = 0 /\ r.ate = 0 BY <1>5, <1>7
  <2>3. WriterTypeOK' /\ WritingInv' /\ HandedOn'
    BY <1>1, <1>2, <1>5, <1>7, <2>1, <2>2, NothingGiven DEF WriterTypeOK, WritingInv
  <2>4. z'.eaten = z.eaten /\ z'.given = z.given /\ ~z'.ended /\ avail_in' = 0
    BY <1>5, <1>6, <1>7, <2>2
  <2>5. EatenInv' /\ Coding' = Coding
    BY <1>1, <1>3, <1>7, <2>1, <2>2, <2>4 DEF Entered, EatenInv, Coding
  <2>6. z'.given = Owed'
    <3>1. m_processed_bytes' = z.eaten /\ z.eaten # 0 /\ z.eaten <= Coding.size
      BY <1>1, <1>3, <1>6, <1>7, <2>1, <2>2
    <3>2. Processed' = z.eaten BY <2>5, <3>1 DEF Processed, Lesser
    <3> QED BY <1>5, <1>7, <2>2, <2>4, <2>5, <3>1, <3>2 DEF Owed
  <2>7. Within(Coding, z') /\ ~Complete(Coding, z') BY <1>5, <1>6, <1>7, <2>2
  <2>8. ZlibDecompressingWriter'
    BY <1>1, <2>1, <2>4, <2>5, <2>6, <2>7 DEF ZlibDecompressingWriter
  <2> QED BY <1>1, <2>1, <2>3, <2>8 DEF WriterIInv, WriterOfKind
<1>8. CASE /\ r.ret \in {"ok", "end"}
           /\ Consumed(r) /\ HandleOutput(r) /\ Stays /\ UNCHANGED ended
           /\ IF r.ret = "end" THEN Written ELSE UNCHANGED <<pc, m_processed_bytes>>
  <2>1. /\ UNCHANGED <<stream, piece, destroying, thrown, ended>> /\ Coding' = Coding
        /\ r.ret = "end" => pc' = "idle" /\ m_processed_bytes' = m_processed_bytes + piece
        /\ r.ret # "end" => pc' = "write" /\ m_processed_bytes' = m_processed_bytes
    BY <1>1, <1>8 DEF Stays, Written, Coding
  <2>2. WriterTypeOK' /\ WritingInv' /\ HandedOn'
    BY <1>1, <1>2, <1>5, <1>8, <2>1, OutputHandled DEF WriterTypeOK, WritingInv
  <2>3. ~z.ended BY <1>5, <1>8
  <2>4. z' = r.z /\ (z'.ended <=> r.ret = "end") BY <1>5, <1>6, <1>8, <2>3
  <2>5. r.ret = "end" => /\ z'.given = Coding.made[Coding.size]
                         /\ m_processed_bytes' >= Coding.size
    BY <1>1, <1>2, <1>3, <1>5, <1>6, <2>1, <2>3, <2>4 DEF Complete
  <2>6. r.ret # "end" => /\ Within(Coding, z') /\ ~Complete(Coding, z') /\ EatenInv'
    BY <1>1, <1>3, <1>5, <1>6, <1>8, <2>1, <2>3, <2>4 DEF EatenInv, Entered
  <2>7. ZlibDecompressingWriter'
    BY <1>1, <2>1, <2>4, <2>5, <2>6 DEF ZlibDecompressingWriter, Within, Complete
  <2> QED BY <1>1, <2>1, <2>2, <2>7 DEF WriterIInv, WriterOfKind
<1>9. CASE r.ret \in {"ok", "end"} /\ InnerThrows(r)
  <2>1. /\ Consumed(r) /\ thrown' = "writer" /\ pc' \in {"idle", "gone"}
        /\ UNCHANGED <<stream, piece, m_processed_bytes, given, destroying, ended>>
    BY <1>9 DEF InnerThrows, ThrowFrom
  <2>2. WriterTypeOK' /\ WritingInv' /\ HandedOn'
    BY <1>1, <1>2, <1>5, <2>1, NothingGiven DEF WriterTypeOK, WritingInv
  <2>3. ZlibDecompressingWriter' BY <2>1 DEF ZlibDecompressingWriter
  <2> QED BY <1>1, <2>1, <2>2, <2>3 DEF WriterIInv, WriterOfKind
<1>10. CASE /\ r.ret = "stream_error" \/ (r.ret = "buf_error" /\ avail_in > 0)
            /\ Consumed(r) /\ ThrowFrom("codec")
  <2>1. /\ thrown' = "codec" /\ pc' \in {"idle", "gone"} /\ Coding' = Coding
        /\ UNCHANGED <<stream, piece, m_processed_bytes, given, destroying, ended>>
    BY <1>10 DEF ThrowFrom, Coding
  <2>2. z.ended /\ r.gave = 0 BY <1>5, <1>10
  <2>3. WriterTypeOK' /\ WritingInv' /\ HandedOn'
    BY <1>1, <1>2, <1>5, <1>10, <2>1, <2>2, NothingGiven DEF WriterTypeOK, WritingInv
  <2>4. z'.ended BY <1>5, <1>6, <1>10, <2>2
  <2>5. ZlibDecompressingWriter' BY <1>3, <2>1, <2>2, <2>4 DEF ZlibDecompressingWriter
  <2> QED BY <1>1, <2>1, <2>3, <2>5 DEF WriterIInv, WriterOfKind
<1> QED BY <1>4, <1>7, <1>8, <1>9, <1>10

\* The frame is completed by the last piece that was declared, and by no other.
LEMMA ZstdCompressWriteStep ==
  ASSUME CodecWritersAssumption, WriterIInv, ZstdCompressWrites PROVE WriterIInv'
<1>1. /\ stream.kind = "zstd_compression" /\ pc = "write" /\ piece > 0 /\ thrown = "no"
      /\ WriterTypeOK /\ HandedOn /\ ZstdCompressingWriter
      /\ piece \in Nat /\ m_processed_bytes \in Nat /\ avail_in \in Nat /\ z \in States
  BY DEF ZstdCompressWrites, Writing, WriterIInv, WritingInv, WriterOfKind, WriterTypeOK
<1>2. /\ Capacity \in Nat \ {0} /\ IsCoding(Coding) /\ stream.supply <= Coding.size
      /\ stream.supply \in Nat /\ stream.declared \in Nat
  BY <1>1, StreamIs DEF WriterTypeOK, Compresses
<1>3. /\ Entered = m_processed_bytes + piece /\ z.eaten + avail_in = Entered
      /\ Entered <= stream.supply /\ Entered <= stream.declared /\ Entered \in Nat \ {0}
      /\ ~z.ended
  BY <1>1 DEF ZstdCompressingWriter, EatenInv, Entered
<1>4. PICK r \in CompressStream(Coding, z, avail_in, Capacity, LastPiece) :
        ZstdTurn(r, IF LastPiece THEN r.z.hint = 0 ELSE avail_in = r.ate)
  BY DEF ZstdCompressWrites
<1> DEFINE done == IF LastPiece THEN r.z.hint = 0 ELSE avail_in = r.ate
<1>5. LastPiece <=> Entered = stream.declared BY <1>3 DEF LastPiece
<1>6. z.eaten + avail_in <= Coding.size BY <1>2, <1>3, MadeIs
<1>7. /\ IsAnswer(r, z, avail_in, Capacity)
      /\ r.z.ended <=> LastPiece /\ done
      /\ r.z.ended => r.ate = avail_in /\ r.z.given = Coding.made[r.z.eaten] + Coding.rest
      /\ r.z.given <= Coding.made[r.z.eaten]
                      + (IF LastPiece /\ r.ate = avail_in THEN Coding.rest ELSE 0)
      /\ done => r.ate = avail_in
  <2>1. CASE LastPiece
    <3>1. r \in CompressToEnd(Coding, z, avail_in, Capacity)
      BY <1>4, <2>1 DEF CompressStream
    <3> QED BY <1>1, <1>2, <1>3, <1>6, <2>1, <3>1, CompressToEndIs
  <2>2. CASE ~LastPiece
    <3>1. r \in CompressOn(Coding, z, avail_in, Capacity)
      BY <1>4, <2>2 DEF CompressStream
    <3>2. /\ IsAnswer(r, z, avail_in, Capacity) /\ ~r.z.ended
          /\ r.z.given <= Coding.made[r.z.eaten]
      BY <1>1, <1>2, <1>6, <3>1, CompressOnIs
    <3>3. r.z.eaten \in 0 .. Coding.size
      BY <1>1, <1>2, <1>6, <3>2, MadeIs DEF IsAnswer, States
    <3>4. Coding.made[r.z.eaten] \in Nat /\ r.z.given \in Nat
      BY <1>2, <3>2, <3>3, MadeIs DEF IsAnswer, States
    <3> QED BY <2>2, <3>2, <3>4
  <2> QED BY <2>1, <2>2
<1>8. /\ Consumed(r) => z' = r.z /\ avail_in' = avail_in - r.ate
      /\ r.z.eaten = z.eaten + r.ate /\ r.z.given = z.given + r.gave
      /\ r.ate \in 0 .. avail_in /\ r.gave \in Nat /\ z.eaten \in Nat /\ z.given \in Nat
  BY <1>1, <1>2, <1>7 DEF Consumed, IsAnswer, States
<1> HIDE DEF done
<1>9. CASE /\ Consumed(r) /\ Stays /\ UNCHANGED ended
           /\ IF r.gave > 0 THEN PassOn(r.gave, r.gave) ELSE UNCHANGED given
           /\ IF done THEN Written ELSE UNCHANGED <<pc, m_processed_bytes>>
  <2>1. /\ UNCHANGED <<stream, piece, destroying, thrown, ended>> /\ Coding' = Coding
        /\ done => pc' = "idle" /\ m_processed_bytes' = m_processed_bytes + piece
        /\ ~done => pc' = "write" /\ m_processed_bytes' = m_processed_bytes
    BY <1>1, <1>9 DEF Stays, Written, Coding
  <2>2. WriterTypeOK' /\ WritingInv' /\ HandedOn'
    BY <1>1, <1>2, <1>7, <1>9, <2>1, OutputPassed DEF WriterTypeOK, WritingInv
  <2>3. Entered' = Entered BY <1>1, <1>3, <2>1 DEF Entered
  <2>4. z' = r.z /\ avail_in' = avail_in - r.ate BY <1>8, <1>9
  <2>5. z'.eaten + avail_in' = Entered' BY <1>1, <1>3, <1>8, <2>3, <2>4
  <2>6. avail_in' = 0 <=> r.ate = avail_in
    <3>1. avail_in \in Nat /\ r.ate \in Nat BY <1>1, <1>8
    <3> QED BY <2>4, <3>1
  <2>7. EatenInv' BY <1>7, <2>1, <2>5, <2>6 DEF EatenInv
  <2>8. z'.ended <=> /\ pc' # "write" /\ m_processed_bytes' > 0
                     /\ m_processed_bytes' = stream.declared
    BY <1>1, <1>2, <1>3, <1>5, <1>7, <2>1, <2>4
  <2>9. z'.ended => z'.given = Coding.made[z'.eaten] + Coding.rest BY <1>7, <2>4
  <2>10. ~z'.ended =>
           z'.given <= Coding.made[z'.eaten]
             + (IF pc' = "write" /\ Entered' = stream.declared /\ avail_in' = 0
                THEN Coding.rest ELSE 0)
    <3> SUFFICES ASSUME ~z'.ended
                 PROVE  z'.given <= Coding.made[z'.eaten]
                          + (IF pc' = "write" /\ Entered' = stream.declared
                                /\ avail_in' = 0 THEN Coding.rest ELSE 0)
      OBVIOUS
    <3>1. LastPiece => pc' = "write" BY <1>7, <2>1, <2>4
    <3>2. (LastPiece /\ r.ate = avail_in)
            <=> (pc' = "write" /\ Entered' = stream.declared /\ avail_in' = 0)
      BY <1>5, <2>3, <2>6, <3>1
    <3> QED BY <1>7, <2>4, <3>2
  <2>11. ZstdCompressingWriter'
    BY <1>1, <1>3, <2>1, <2>3, <2>7, <2>8, <2>9, <2>10 DEF ZstdCompressingWriter
  <2> QED BY <1>1, <2>1, <2>2, <2>11 DEF WriterIInv, WriterOfKind
<1>10. CASE InnerThrows(r)
  <2>1. /\ Consumed(r) /\ thrown' = "writer" /\ pc' \in {"idle", "gone"}
        /\ UNCHANGED <<stream, piece, m_processed_bytes, given, destroying, ended>>
    BY <1>10 DEF InnerThrows, ThrowFrom
  <2>2. WriterTypeOK' /\ WritingInv' /\ HandedOn'
    BY <1>1, <1>2, <1>7, <2>1, NothingGiven DEF WriterTypeOK, WritingInv
  <2>3. ZstdCompressingWriter' BY <2>1 DEF ZstdCompressingWriter
  <2> QED BY <1>1, <2>1, <2>2, <2>3 DEF WriterIInv, WriterOfKind
<1> QED BY <1>4, <1>9, <1>10 DEF ZstdTurn, done

LEMMA ZstdDecompressWriteStep ==
  ASSUME CodecWritersAssumption, WriterIInv, ZstdDecompressWrites PROVE WriterIInv'
<1>1. /\ stream.kind = "zstd_decompression" /\ pc = "write" /\ piece > 0 /\ thrown = "no"
      /\ WriterTypeOK /\ HandedOn /\ ZstdDecompressingWriter
      /\ piece \in Nat /\ m_processed_bytes \in Nat /\ avail_in \in Nat /\ z \in States
  BY DEF ZstdDecompressWrites, Writing, WriterIInv, WritingInv, WriterOfKind, WriterTypeOK
<1>2. /\ Capacity \in Nat \ {0} /\ IsCoding(Coding) /\ Coding.size \in Nat \ {0}
  BY <1>1, StreamIs, MadeIs DEF WriterTypeOK
<1>3. /\ Entered = m_processed_bytes + piece /\ z.eaten + avail_in = Entered
      /\ z.eaten <= Coding.size
      /\ z.ended => z.eaten = Coding.size /\ z.given = Coding.made[Coding.size]
      /\ ~z.ended => z.eaten # Coding.size
  BY <1>1 DEF ZstdDecompressingWriter, EatenInv, Entered
<1>4. PICK r \in DecompressStream(Coding, z, avail_in, Capacity) :
        IF r.ret = "error" THEN Consumed(r) /\ ThrowFrom("codec")
        ELSE ZstdTurn(r, avail_in = r.ate)
  BY DEF ZstdDecompressWrites
<1>5. /\ IsAnswer(r, z, avail_in, Capacity)
      /\ r.ret = "error" <=> z.ended /\ avail_in > 0
      /\ z.ended => r.z.ended /\ r.ate = 0 /\ r.gave = 0
      /\ ~z.ended =>
           /\ r.z.eaten <= Coding.size
           /\ r.z.ended <=> r.z.eaten = Coding.size
           /\ r.z.ended => r.z.given = Coding.made[Coding.size]
           /\ \/ r.z.given <= Coding.made[r.z.eaten]
              \/ /\ r.z.eaten + 1 = Coding.size /\ r.ate < avail_in
                 /\ r.z.given <= Coding.made[Coding.size]
  BY <1>1, <1>2, <1>3, DecompressStreamIs
<1>6. /\ Consumed(r) => z' = r.z /\ avail_in' = avail_in - r.ate
      /\ r.z.eaten = z.eaten + r.ate /\ r.z.given = z.given + r.gave
      /\ r.ate \in 0 .. avail_in /\ r.gave \in Nat /\ z.eaten \in Nat /\ z.given \in Nat
  BY <1>1, <1>2, <1>5 DEF Consumed, IsAnswer, States
<1>7. CASE r.ret = "error" /\ Consumed(r) /\ ThrowFrom("codec")
  <2>1. /\ thrown' = "codec" /\ pc' \in {"idle", "gone"} /\ Coding' = Coding
        /\ UNCHANGED <<stream, piece, m_processed_bytes, given, destroying, ended>>
    BY <1>7 DEF ThrowFrom, Coding
  <2>2. z.ended /\ avail_in > 0 /\ r.gave = 0 BY <1>5, <1>7
  <2>3. WriterTypeOK' /\ WritingInv' /\ HandedOn'
    BY <1>1, <1>2, <1>5, <1>7, <2>1, <2>2, NothingGiven DEF WriterTypeOK, WritingInv
  <2>4. m_processed_bytes + piece > Coding.size BY <1>1, <1>2, <1>3, <2>2
  <2>5. ZstdDecompressingWriter' BY <2>1, <2>4 DEF ZstdDecompressingWriter
  <2> QED BY <1>1, <2>1, <2>3, <2>5 DEF WriterIInv, WriterOfKind
<1>8. CASE /\ r.ret # "error"
           /\ Consumed(r) /\ Stays /\ UNCHANGED ended
           /\ IF r.gave > 0 THEN PassOn(r.gave, r.gave) ELSE UNCHANGED given
           /\ IF avail_in = r.ate THEN Written ELSE UNCHANGED <<pc, m_processed_bytes>>
  <2>1. /\ UNCHANGED <<stream, piece, destroying, thrown, ended>> /\ Coding' = Coding
        /\ avail_in = r.ate =>
             pc' = "idle" /\ m_processed_bytes' = m_processed_bytes + piece
        /\ avail_in # r.ate => pc' = "write" /\ m_processed_bytes' = m_processed_bytes
    BY <1>1, <1>8 DEF Stays, Written, Coding
  <2>2. WriterTypeOK' /\ WritingInv' /\ HandedOn'
    BY <1>1, <1>2, <1>5, <1>8, <2>1, OutputPassed DEF WriterTypeOK, WritingInv
  <2>3. z' = r.z /\ avail_in' = avail_in - r.ate BY <1>6, <1>8
  <2>4. EatenInv'
    BY <1>1, <1>3, <1>6, <2>1, <2>3 DEF EatenInv, Entered
  <2>5. /\ z'.eaten <= Coding.size
        /\ z'.ended <=> z'.eaten = Coding.size
        /\ z'.ended => z'.given = Coding.made[Coding.size]
        /\ \/ z'.given <= Coding.made[z'.eaten]
           \/ /\ z'.eaten + 1 = Coding.size /\ avail_in' > 0
              /\ z'.given <= Coding.made[Coding.size]
    <3>1. CASE z.ended
      <4>1. z'.eaten = z.eaten /\ z'.given = z.given /\ z'.ended
        BY <1>5, <1>6, <2>3, <3>1
      <4>2. z.given <= Coding.made[z.eaten] BY <1>3, <1>6, <3>1
      <4> QED BY <1>3, <3>1, <4>1, <4>2
    <3>2. CASE ~z.ended
      <4>1. r.ate < avail_in => avail_in' > 0 BY <1>1, <1>6, <2>3
      <4> QED BY <1>5, <2>3, <3>2, <4>1
    <3> QED BY <3>1, <3>2
  <2>6. ZstdDecompressingWriter' BY <1>1, <2>1, <2>4, <2>5 DEF ZstdDecompressingWriter
  <2> QED BY <1>1, <2>1, <2>2, <2>6 DEF WriterIInv, WriterOfKind
<1>9. CASE r.ret # "error" /\ InnerThrows(r)
  <2>1. /\ Consumed(r) /\ thrown' = "writer" /\ pc' \in {"idle", "gone"}
        /\ UNCHANGED <<stream, piece, m_processed_bytes, given, destroying, ended>>
    BY <1>9 DEF InnerThrows, ThrowFrom
  <2>2. WriterTypeOK' /\ WritingInv' /\ HandedOn'
    BY <1>1, <1>2, <1>5, <2>1, NothingGiven DEF WriterTypeOK, WritingInv
  <2>3. ZstdDecompressingWriter' BY <2>1 DEF ZstdDecompressingWriter
  <2> QED BY <1>1, <2>1, <2>2, <2>3 DEF WriterIInv, WriterOfKind
<1> QED BY <1>4, <1>7, <1>8, <1>9 DEF ZstdTurn

-----------------------------------------------------------------------------
LEMMA WriterQuiescent == ASSUME WriterIInv, UNCHANGED writerVars PROVE WriterIInv'
<1>1. /\ UNCHANGED <<stream, z, avail_in, piece, m_processed_bytes, given, pc,
                     destroying, ended, thrown>>
      /\ UNCHANGED <<handled, inner, intact>>
  BY DEF writerVars, given
<1> QED BY <1>1 DEF WriterIInv, WriterTypeOK, WritingInv, HandedOn, WriterOfKind,
                    ZlibCompressingWriter,
     ZstdCompressingWriter, ZlibDecompressingWriter, ZstdDecompressingWriter, EatenInv,
     Entered, Owed,
     Processed, Coding, Within, Complete

\* The codec, the loop and the inner writer stay in step, for every stream, every
\* cut of it into pieces and every size of the buffer.
THEOREM WriterInvariance == CodecWritersAssumption => (WriterSpec => []WriterIInv)
<1> SUFFICES ASSUME CodecWritersAssumption PROVE WriterSpec => []WriterIInv OBVIOUS
<1>1. WriterInit => WriterIInv BY WriterInitially
<1>2. WriterIInv /\ [WriterNext]_writerVars => WriterIInv'
  <2> SUFFICES ASSUME WriterIInv, [WriterNext]_writerVars PROVE WriterIInv' OBVIOUS
  <2>1. ASSUME NEW n \in Pieces, Write(n) PROVE WriterIInv' BY <2>1, WriteStep
  <2>2. CASE Flush BY <2>2, FlushStep
  <2>3. CASE Destroy BY <2>3, DestroyStep
  <2>4. CASE DeflateWrites BY <2>4, DeflateWriteStep
  <2>5. CASE FinishWrites BY <2>5, FinishStep
  <2>6. CASE InflateWrites BY <2>6, InflateWriteStep
  <2>7. CASE ZstdCompressWrites BY <2>7, ZstdCompressWriteStep
  <2>8. CASE ZstdDecompressWrites BY <2>8, ZstdDecompressWriteStep
  <2>9. CASE UNCHANGED writerVars BY <2>9, WriterQuiescent
  <2> QED BY <2>1, <2>2, <2>3, <2>4, <2>5, <2>6, <2>7, <2>8, <2>9 DEF WriterNext, WriterTurn
<1> QED BY <1>1, <1>2, PTL DEF WriterSpec

\* What the inner writer has is what it is due when a call has returned.
LEMMA IsDue ==
  ASSUME CodecWritersAssumption, WriterIInv, pc = "idle", thrown = "no" PROVE Due
<1>1. /\ WriterTypeOK /\ stream.kind \in Kinds /\ inner = z.given /\ Entered = m_processed_bytes
      /\ z.eaten \in Nat /\ z.given \in Nat /\ m_processed_bytes \in Nat
  BY StreamIs DEF WriterIInv, WriterTypeOK, HandedOn, Entered, States
<1>2. /\ IsCoding(Coding) /\ Coding.size \in Nat \ {0}
      /\ stream.supply \in Nat /\ stream.declared \in Nat
      /\ Compresses(stream.kind) => stream.supply <= Coding.size
  BY StreamIs, MadeIs DEF WriterIInv, WriterTypeOK
<1>3. CASE stream.kind = "zlib_compression"
  <2>1. ZlibCompressingWriter BY <1>3 DEF WriterIInv, WriterOfKind
  <2>2. z.eaten = m_processed_bytes /\ m_processed_bytes <= Coding.size
    BY <1>1, <1>2, <1>3, <2>1 DEF ZlibCompressingWriter, EatenInv, Compresses
  <2>3. Processed = z.eaten BY <1>1, <1>2, <2>2 DEF Processed, Lesser
  <2> QED BY <1>1, <1>3, <2>1, <2>3 DEF Due, ZlibCompressingWriter
<1>4. CASE stream.kind = "zstd_compression"
  <2>1. ZstdCompressingWriter BY <1>4 DEF WriterIInv, WriterOfKind
  <2>2. z.eaten = m_processed_bytes /\ m_processed_bytes <= Coding.size
    BY <1>1, <1>2, <1>4, <2>1 DEF ZstdCompressingWriter, EatenInv, Compresses
  <2>3. Processed = z.eaten BY <1>1, <1>2, <2>2 DEF Processed, Lesser
  <2>4. Coding.made[z.eaten] \in Nat BY <1>1, <1>2, <2>2, MadeIs
  <2>5. ~z.ended => z.given <= Coding.made[z.eaten]
    BY <1>1, <2>1, <2>4 DEF ZstdCompressingWriter
  <2> QED BY <1>1, <1>4, <2>1, <2>3, <2>5 DEF Due, ZstdCompressingWriter
<1>5. CASE stream.kind = "zlib_decompression"
  <2>1. ZlibDecompressingWriter BY <1>5 DEF WriterIInv, WriterOfKind
  <2>2. ~z.ended => inner = Owed BY <1>1, <2>1 DEF ZlibDecompressingWriter
  <2>3. z.ended => inner = Owed
    <3> SUFFICES ASSUME z.ended PROVE inner = Owed OBVIOUS
    <3>1. m_processed_bytes >= Coding.size /\ z.given = Coding.made[Coding.size]
      BY <2>1 DEF ZlibDecompressingWriter
    <3>2. Processed = Coding.size /\ m_processed_bytes # 0
      BY <1>1, <1>2, <3>1 DEF Processed, Lesser
    <3> QED BY <1>1, <3>1, <3>2 DEF Owed
  <2> QED BY <1>5, <2>2, <2>3 DEF Due
<1>6. CASE stream.kind = "zstd_decompression"
  <2>1. ZstdDecompressingWriter BY <1>6 DEF WriterIInv, WriterOfKind
  <2>2. /\ z.eaten = m_processed_bytes /\ m_processed_bytes <= Coding.size
        /\ z.given <= Coding.made[z.eaten]
        /\ z.eaten = Coding.size => z.given = Coding.made[Coding.size]
    BY <1>1, <2>1 DEF ZstdDecompressingWriter, EatenInv
  <2>3. Processed = z.eaten BY <1>1, <1>2, <2>2 DEF Processed, Lesser
  <2> QED BY <1>1, <1>6, <2>2, <2>3 DEF Due
<1> QED BY <1>1, <1>3, <1>4, <1>5, <1>6 DEF Kinds

\* The inner writer gets the stream, each byte once and in order, and all that is
\* due when a call returns; a compressor that lived without an exception has
\* ended its stream; nothing is thrown without a reason.
THEOREM StreamIsWritten == CodecWritersAssumption => (WriterSpec => []WritesTheStream)
<1> SUFFICES ASSUME CodecWritersAssumption PROVE WriterSpec => []WritesTheStream OBVIOUS
<1>1. WriterIInv => WritesTheStream
  <2> SUFFICES ASSUME WriterIInv PROVE WritesTheStream OBVIOUS
  <2>1. PassesOnTheStream BY IsDue DEF PassesOnTheStream, WriterIInv, HandedOn
  <2>2. EndsTheStream
    <3> SUFFICES ASSUME pc = "gone", thrown = "no", stream.kind = "zlib_compression"
                 PROVE  inner = Coding.made[m_processed_bytes] + Coding.rest
      BY DEF EndsTheStream
    <3>1. ZlibCompressingWriter /\ inner = z.given /\ Entered = m_processed_bytes
      BY DEF WriterIInv, WriterOfKind, HandedOn, Entered, WriterTypeOK
    <3>2. z.eaten = m_processed_bytes /\ z.given = Coding.made[z.eaten] + Coding.rest
      BY <3>1 DEF ZlibCompressingWriter, EatenInv, WriterIInv, WriterTypeOK, States
    <3> QED BY <3>1, <3>2
  <2>3. ThrowsForAReason
    BY StreamIs DEF ThrowsForAReason, WriterIInv, WriterTypeOK, WriterOfKind, Kinds,
                    ZlibCompressingWriter,
       ZstdCompressingWriter, ZlibDecompressingWriter, ZstdDecompressingWriter
  <2> QED BY <2>1, <2>2, <2>3 DEF WritesTheStream
<1> QED BY <1>1, WriterInvariance, PTL
=============================================================================

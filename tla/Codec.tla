------------------------------- MODULE Codec -------------------------------
(***************************************************************************)
(* What the stream calls of zlib and zstd promise their callers: deflate(),*)
(* inflate(), ZSTD_compressStream2() and ZSTD_decompressStream().  None of  *)
(* their code is here; this is what src/ relies on.  A call is given a     *)
(* number of input bytes and room for output, eats some of the one, gives  *)
(* some of the other, and says how it stands.                              *)
(*                                                                         *)
(* A coding says what becomes of an input: made[k] bytes can be given when *)
(* k of its `size` bytes were eaten, and ending a compressed stream adds   *)
(* `rest`; a compressed input has its end in itself.                       *)
(***************************************************************************)
EXTENDS Naturals

Kinds == {"zlib_compression", "zstd_compression",
          "zlib_decompression", "zstd_decompression"}

Compresses(kind) == kind \in {"zlib_compression", "zstd_compression"}

Lesser(a, b) == IF a <= b THEN a ELSE b

IsCoding(c) ==
    /\ c.size \in Nat \ {0} /\ c.rest \in Nat \ {0}
    /\ c.made \in [0 .. c.size -> Nat]
    /\ \A k, m \in 0 .. c.size : k <= m => c.made[k] <= c.made[m]

Hints == {1, 2}

\* A stream: bytes eaten and given, whether it has ended, whether the last call
\* left no room (as none has, before the first), and what zstd said last.
Fresh == [eaten |-> 0, given |-> 0, ended |-> FALSE, full |-> TRUE, hint |-> 0]

\* A call works until its input or the room for its output is used up; `made`
\* is what it can have given for each number of bytes it may eat.
Work(z, in, out, made) ==
    {w \in [ate : 0 .. in, gave : 0 .. out] :
        /\ w.gave = Lesser(out, made[w.ate] - z.given)
        /\ w.ate = in \/ w.gave = out}

Idle == [ate |-> 0, gave |-> 0]

Result(z, w, out, ended, hint, ret) ==
    [z |-> [eaten |-> z.eaten + w.ate, given |-> z.given + w.gave,
            ended |-> ended, full |-> (w.gave = out), hint |-> hint],
     ate |-> w.ate, gave |-> w.gave, ret |-> ret]

-----------------------------------------------------------------------------
(* zlib.                                                                   *)

Kept(z, ret) == Result(z, Idle, 0, z.ended, 0, ret)

\* With nothing to eat and nothing left to give deflate() cannot go on; it may
\* say so only at the second such call.
CannotGoOn(c, z) ==
    {Result(z, Idle, 1, FALSE, 0, ret) :
        ret \in IF z.full THEN {"ok", "buf_error"} ELSE {"buf_error"}}

DeflateOn(c, z, in, out) ==
    IF z.ended THEN {Kept(z, "stream_error")}
    ELSE IF out = 0 THEN {Kept(z, "buf_error")}
    ELSE IF in = 0 /\ z.given = c.made[z.eaten] THEN CannotGoOn(c, z)
    ELSE {Result(z, w, out, FALSE, 0, "ok") :
            w \in Work(z, in, out, [e \in 0 .. in |-> c.made[z.eaten + e]])}

\* Z_FINISH: the end may be reported by the call after the one that gave it.
Finishes(c, z, in, w) ==
    w.ate = in /\ z.given + w.gave = c.made[z.eaten + in] + c.rest

DeflateToEnd(c, z, in, out) ==
    IF out = 0 \/ (z.ended /\ in > 0) THEN {Kept(z, "buf_error")}
    ELSE IF z.ended THEN {Kept(z, "end")}
    ELSE LET works == Work(z, in, out,
                           [e \in 0 .. in |-> c.made[z.eaten + e]
                                              + (IF e = in THEN c.rest ELSE 0)])
         IN {Result(z, w, out, TRUE, 0, "end") :
                w \in {v \in works : Finishes(c, z, in, v)}}
            \union {Result(z, w, out, FALSE, 0, "ok") :
                w \in {v \in works : Finishes(c, z, in, v) => v.gave = out}}

Deflate(c, z, in, out, finish) ==
    IF finish THEN DeflateToEnd(c, z, in, out) ELSE DeflateOn(c, z, in, out)

\* Both callers close the stream when it has ended.
Inflate(c, z, in, out) ==
    LET own == Lesser(in, c.size - z.eaten) IN
    IF z.ended THEN {Kept(z, "stream_error")}
    ELSE {LET ends == z.eaten + w.ate = c.size /\ z.given + w.gave = c.made[c.size]
          IN Result(z, w, out, ends, 0,
                    IF ends THEN "end" ELSE IF w = Idle THEN "buf_error" ELSE "ok") :
            w \in Work(z, own, out, [e \in 0 .. own |-> c.made[z.eaten + e]])}

-----------------------------------------------------------------------------
(* zstd.  What a call returns is 0 when a frame is complete, else more; a   *)
(* call that achieves nothing repeats itself.                              *)

Said(z, w) == IF w = Idle /\ z.hint > 0 THEN {z.hint} ELSE Hints

CompressOn(c, z, in, out) ==
    UNION {{Result(z, w, out, FALSE, h, "ok") : h \in Said(z, w)} :
              w \in Work(z, in, out, [e \in 0 .. in |-> c.made[z.eaten + e]])}

\* ZSTD_e_end; after the end it makes another, empty, frame.
CompressToEnd(c, z, in, out) ==
    IF z.ended
    THEN LET gave == Lesser(out, c.rest)
         IN {Result(z, [ate |-> 0, gave |-> gave], out, TRUE,
                    IF gave = c.rest THEN 0 ELSE 1, "ok")}
    ELSE {LET ends == Finishes(c, z, in, w)
          IN Result(z, w, out, ends, IF ends THEN 0 ELSE 1, "ok") :
            w \in Work(z, in, out,
                       [e \in 0 .. in |-> c.made[z.eaten + e]
                                          + (IF e = in THEN c.rest ELSE 0)])}

CompressStream(c, z, in, out, end) ==
    IF end THEN CompressToEnd(c, z, in, out) ELSE CompressOn(c, z, in, out)

\* The last byte of a frame counts as eaten when all of it was given.
DecompressStream(c, z, in, out) ==
    IF z.ended
    THEN IF in > 0 THEN {Kept(z, "error")}
         ELSE {Result(z, Idle, out, TRUE, h, "ok") : h \in Said(z, Idle)}
    ELSE LET own  == Lesser(in, c.size - z.eaten)
             last == z.eaten + own = c.size
             made == [e \in 0 .. own |->
                        IF last /\ e + 1 = own THEN c.made[c.size]
                                               ELSE c.made[z.eaten + e]]
             ends(w) == z.eaten + w.ate = c.size /\ z.given + w.gave = c.made[c.size]
         IN UNION {{Result(z, w, out, ends(w), h, "ok") :
                       h \in IF ends(w) THEN {0} ELSE Said(z, w)} :
                     w \in {v \in Work(z, own, out, made) :
                              z.eaten + v.ate = c.size =>
                                z.given + v.gave = c.made[c.size]}}
=============================================================================

---------------------------- MODULE CodecReading ----------------------------
(***************************************************************************)
(* What a sequential reader that compresses or decompresses keeps, and     *)
(* what it promises its client (native/io/compressed).  Its loops are in   *)
(* CodecReaders.                                                           *)
(*                                                                         *)
(* Bytes are counted, not stored: the codec's are in Codec, and a reader   *)
(* hands them on in the caller's buffer as it gets them.                   *)
(***************************************************************************)
EXTENDS Codec

CONSTANTS Inputs     \* what is read: kind, coding, bytes that exist and size declared

VARIABLES input,              \* one of Inputs
          left,               \* what the inner reader still has
          coder,              \* m_zstr, m_zstd_cstream, m_zstd_dstream
          unread,             \* avail_in: input that was read and not eaten
          m_read_offset,
          step, asked, got,   \* the call: its buffer, and the bytes in it
          last_ret, retry,
          failed,             \* the last call threw
          delivered           \* bytes of all calls that returned

InputCoding == input.coding

\* The length of the stream that is read.
Whole ==
    IF Compresses(input.kind)
    THEN InputCoding.made[input.declared] + InputCoding.rest
    ELSE InputCoding.made[InputCoding.size]

-----------------------------------------------------------------------------
\* The bytes the inner reader has are those that were announced: what a
\* compressing reader is told to read, or a whole compressed stream.
Honest ==
    IF Compresses(input.kind)
    THEN input.supply = input.declared
    ELSE input.supply >= InputCoding.size /\ input.declared = Whole

\* What a client has been given is the beginning of the stream, each byte once
\* and in order, as tellg() says, and a call gives less than was asked for only
\* at the end of the stream: read(), which throws then, can rely on it.  (At its
\* end the zstd compressor would begin another frame.)
HandsOnTheStream ==
    step = "idle" /\ ~failed /\ Honest =>
       /\ m_read_offset = delivered
       /\ \/ delivered = coder.given /\ delivered <= Whole /\ (got < asked => delivered = Whole)
          \/ input.kind = "zstd_compression" /\ coder.ended

\* A reader of what was announced throws for two reasons only: it is asked for
\* more when it has given everything, and zlib, or zstd with input left over,
\* will not be called again; or the rest of a stream that zstd makes did not fit
\* in the buffer of the call that came after the last input.
ThrowsPastTheEnd ==
    failed /\ Honest =>
       \/ input.kind = "zlib_decompression" /\ delivered = Whole
       \/ /\ input.kind = "zstd_decompression" /\ delivered = Whole
          /\ input.supply > InputCoding.size
       \/ input.kind = "zstd_compression" /\ (coder.ended \/ delivered + asked < Whole)

\* A reader hands on the stream whole, and throws only when it cannot.
ReadsTheStream == HandsOnTheStream /\ ThrowsPastTheEnd
=============================================================================

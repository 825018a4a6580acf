---------------------------- MODULE CodecWriting ----------------------------
(***************************************************************************)
(* What a sequential writer that compresses or decompresses keeps, and     *)
(* what it promises the writer behind it and its client (native/io/compressed). *)
(* Its loops are in CodecWriters.                                          *)
(*                                                                         *)
(* Bytes are counted, as in CodecReaders; `intact` says that all that the  *)
(* inner writer was given were the next bytes of the stream.               *)
(***************************************************************************)
EXTENDS Codec

CONSTANTS Streams    \* what is written: kind, coding, bytes to write, size declared

VARIABLES stream,             \* one of Streams
          z,                  \* m_zstr, m_zstd_cstream, m_zstd_dstream
          avail_in,           \* next_in: what is left of the piece
          piece,              \* length of the piece being written
          m_processed_bytes,  \* input of all calls that returned
          handled,            \* output passed on: m_compressed_output_size, ...
          pc,                 \* "idle", "write", "finish", "gone"
          destroying,
          ended,              \* stream_end() has returned
          thrown,             \* "no", or who threw: "codec", "writer"
          inner, intact       \* what the inner writer was given

Coding == stream.coding

-----------------------------------------------------------------------------
\* Input that was handed over and can have an effect.
Processed == Lesser(m_processed_bytes, Coding.size)

\* Before the first piece a codec is not called.
Owed == IF m_processed_bytes = 0 THEN 0 ELSE Coding.made[Processed]

\* What the inner writer must have been given when `Processed` bytes were
\* written, nothing has thrown and no call is running.
Due ==
    CASE stream.kind = "zlib_compression" ->
           inner = IF ended THEN Coding.made[Processed] + Coding.rest ELSE Owed
      [] stream.kind = "zstd_compression" ->
           IF m_processed_bytes > 0 /\ m_processed_bytes = stream.declared
           THEN inner = Coding.made[Processed] + Coding.rest
           ELSE inner <= Coding.made[Processed]
      [] stream.kind = "zlib_decompression" -> inner = Owed
      [] stream.kind = "zstd_decompression" ->
           IF Processed = Coding.size
           THEN inner = Coding.made[Processed]
           ELSE inner <= Coding.made[Processed]

\* The inner writer is given the stream, each byte once and in order, unless it
\* throws; between calls it has all that the codec owes for the input so far:
\* nothing stays in a buffer that no later call would empty, and flushing twice
\* ends the stream once.
PassesOnTheStream ==
    thrown # "writer" =>
       /\ intact
       /\ pc = "idle" /\ thrown = "no" => Due

\* A zlib compressor that lived without an exception has written a whole stream
\* when it is gone, flushed or not: that is what recompress() relies on.
EndsTheStream ==
    pc = "gone" /\ thrown = "no" /\ stream.kind = "zlib_compression" =>
       inner = Coding.made[m_processed_bytes] + Coding.rest

\* A writer throws of its own for these reasons only: the compressor was flushed
\* before it was written to, zstd is given more than was declared, or a piece
\* begins after the end of the compressed input.  (zstd also minds what follows
\* the end in the same piece; zlib drops it.)
ThrowsForAReason ==
    thrown = "codec" =>
       CASE stream.kind = "zlib_compression"   -> ended
         [] stream.kind = "zstd_compression"   -> m_processed_bytes < stream.supply
         [] stream.kind = "zlib_decompression" -> m_processed_bytes >= Coding.size
         [] stream.kind = "zstd_decompression" ->
              m_processed_bytes + piece > Coding.size

\* A writer passes on the stream whole, and throws only when it cannot.
WritesTheStream == PassesOnTheStream /\ EndsTheStream /\ ThrowsForAReason
=============================================================================

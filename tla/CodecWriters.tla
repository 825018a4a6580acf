---------------------------- MODULE CodecWriters ----------------------------
(***************************************************************************)
(* The loops of the four sequential writers that compress or decompress    *)
(* what they are given and pass it on to another writer                    *)
(* (native/io/compressed).  A client calls write() with pieces of any      *)
(* size, flush(), and in the end the destructor; the inner writer may      *)
(* throw.  A step is one turn of a loop.                                   *)
(***************************************************************************)
EXTENDS CodecWriting

CONSTANTS Capacity,   \* of m_output_data
          Pieces      \* pieces of the client

CodecWritersAssumption ==
    /\ Capacity \in Nat \ {0} /\ Pieces \subseteq Nat \ {0}
    /\ \A s \in Streams :
          /\ s.kind \in Kinds /\ IsCoding(s.coding)
          /\ s.supply \in Nat /\ s.declared \in Nat
          /\ Compresses(s.kind) => s.supply <= s.coding.size

given == <<handled, inner, intact>>
writerVars == <<stream, z, avail_in, piece, m_processed_bytes, given, pc, destroying,
               ended, thrown>>

WriterInit ==
    /\ stream \in Streams
    /\ z = Fresh
    /\ avail_in = 0 /\ piece = 0 /\ m_processed_bytes = 0
    /\ handled = 0 /\ inner = 0 /\ intact = TRUE
    /\ pc = "idle" /\ destroying = FALSE /\ ended = FALSE /\ thrown = "no"

\* A slip: the count is set instead of advanced.
PassOnForgetting(new, told) ==
    /\ handled' = told
    /\ inner' = inner + told
    /\ intact' = (intact /\ new = told)

\* m_writer->write(): `new` bytes are in m_output_data, of which it is told that
\* there are `told`.
PassOn(new, told) ==
    /\ handled' = handled + told
    /\ inner' = inner + told
    /\ intact' = (intact /\ new = told)

ThrowFrom(who) ==
    /\ thrown' = who
    /\ pc' = IF destroying THEN "gone" ELSE "idle"
    /\ UNCHANGED <<stream, piece, m_processed_bytes, given, destroying, ended>>

\* The piece is written.
Written ==
    /\ pc' = "idle"
    /\ m_processed_bytes' = m_processed_bytes + piece

Consumed(r) == z' = r.z /\ avail_in' = avail_in - r.ate

\* zstd_compression_writer counts before it compresses.
Write(n) ==
    /\ pc = "idle" /\ thrown = "no"
    /\ m_processed_bytes + n <= stream.supply
    /\ IF stream.kind = "zstd_compression" /\ m_processed_bytes + n > stream.declared
       THEN ThrowFrom("codec") /\ UNCHANGED <<z, avail_in>>
       ELSE /\ pc' = "write" /\ avail_in' = n /\ piece' = n
            /\ UNCHANGED <<stream, z, m_processed_bytes, given, destroying, ended,
                           thrown>>

\* flush() of the zlib compressor; that of the others only flushes the inner
\* writer.
Flush ==
    /\ pc = "idle" /\ thrown = "no" /\ stream.kind = "zlib_compression"
    /\ pc' = "finish"
    /\ UNCHANGED <<stream, z, avail_in, piece, m_processed_bytes, given, destroying,
                   ended, thrown>>

\* After a call that threw too: the stack is unwound.
Destroy ==
    /\ pc = "idle"
    /\ destroying' = TRUE
    /\ pc' = IF stream.kind = "zlib_compression" THEN "finish" ELSE "gone"
    /\ UNCHANGED <<stream, z, avail_in, piece, m_processed_bytes, given, ended, thrown>>

-----------------------------------------------------------------------------
Writing(kind) == pc = "write" /\ stream.kind = kind

\* handle_output() passes on what total_out has grown by since it last did.
HandleOutput(r) ==
    IF handled < r.z.given
    THEN PassOn(r.gave, r.z.given - handled)
    ELSE UNCHANGED given

\* The inner writer throws: what it should have got is not counted as passed.
InnerThrows(r) == r.gave > 0 /\ Consumed(r) /\ ThrowFrom("writer")

Stays == UNCHANGED <<stream, piece, destroying, thrown>>

DeflateWrites ==
    /\ Writing("zlib_compression")
    /\ \E r \in Deflate(Coding, z, avail_in, Capacity, FALSE) :
          \/ /\ r.ret = "buf_error" /\ avail_in = 0
             /\ Consumed(r) /\ Written /\ Stays /\ UNCHANGED <<given, ended>>
          \/ /\ r.ret = "ok"
             /\ Consumed(r) /\ HandleOutput(r) /\ Stays
             /\ UNCHANGED <<pc, m_processed_bytes, ended>>
          \/ r.ret = "ok" /\ InnerThrows(r)
          \/ r.ret = "stream_error" /\ Consumed(r) /\ ThrowFrom("codec")

\* stream_end()
FinishWrites ==
    /\ pc = "finish"
    /\ \E r \in Deflate(Coding, z, avail_in, Capacity, TRUE) :
          \/ /\ r.ret \in {"ok", "end"}
             /\ Consumed(r) /\ HandleOutput(r) /\ Stays
             /\ UNCHANGED m_processed_bytes
             /\ IF r.ret = "end"
                THEN ended' = TRUE /\ pc' = (IF destroying THEN "gone" ELSE "idle")
                ELSE UNCHANGED <<pc, ended>>
          \/ r.ret \in {"ok", "end"} /\ InnerThrows(r)
          \/ r.ret = "buf_error" /\ Consumed(r) /\ ThrowFrom("codec")

\* What follows the end of the stream in the same piece is dropped.
InflateWrites ==
    /\ Writing("zlib_decompression")
    /\ \E r \in Inflate(Coding, z, avail_in, Capacity) :
          \/ /\ r.ret = "buf_error" /\ avail_in = 0
             /\ Consumed(r) /\ Written /\ Stays /\ UNCHANGED <<given, ended>>
          \/ /\ r.ret \in {"ok", "end"}
             /\ Consumed(r) /\ HandleOutput(r) /\ Stays /\ UNCHANGED ended
             /\ IF r.ret = "end" THEN Written ELSE UNCHANGED <<pc, m_processed_bytes>>
          \/ r.ret \in {"ok", "end"} /\ InnerThrows(r)
          \/ /\ r.ret = "stream_error" \/ (r.ret = "buf_error" /\ avail_in > 0)
             /\ Consumed(r) /\ ThrowFrom("codec")

\* zstd: a piece is written when it was eaten; the last one when the frame is
\* complete.
ZstdTurn(r, done) ==
    \/ /\ Consumed(r) /\ Stays /\ UNCHANGED ended
       /\ IF r.gave > 0 THEN PassOn(r.gave, r.gave) ELSE UNCHANGED given
       /\ IF done THEN Written ELSE UNCHANGED <<pc, m_processed_bytes>>
    \/ InnerThrows(r)

LastPiece == m_processed_bytes + piece = stream.declared

ZstdCompressWrites ==
    /\ Writing("zstd_compression")
    /\ \E r \in CompressStream(Coding, z, avail_in, Capacity, LastPiece) :
          ZstdTurn(r, IF LastPiece THEN r.z.hint = 0 ELSE avail_in = r.ate)

ZstdDecompressWrites ==
    /\ Writing("zstd_decompression")
    /\ \E r \in DecompressStream(Coding, z, avail_in, Capacity) :
          IF r.ret = "error" THEN Consumed(r) /\ ThrowFrom("codec")
          ELSE ZstdTurn(r, avail_in = r.ate)

WriterTurn ==
    \/ DeflateWrites \/ FinishWrites \/ InflateWrites
    \/ ZstdCompressWrites \/ ZstdDecompressWrites

WriterNext == (\E n \in Pieces : Write(n)) \/ Flush \/ Destroy \/ WriterTurn

WriterSpec == WriterInit /\ [][WriterNext]_writerVars /\ WF_writerVars(WriterTurn)

-----------------------------------------------------------------------------
\* A call returns or throws.
EveryCallReturns == pc \in {"write", "finish"} ~> pc \in {"idle", "gone"}
=============================================================================

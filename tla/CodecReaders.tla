---------------------------- MODULE CodecReaders ----------------------------
(***************************************************************************)
(* The loops of the four sequential readers that compress or decompress    *)
(* what another reader gives (native/io/compressed).  A client calls       *)
(* read_some() with buffers of any size, also past the end; the inner      *)
(* reader gives what it has in pieces of its own choice, and nothing at    *)
(* its end.  A step is one turn of a loop.                                 *)
(***************************************************************************)
EXTENDS CodecReading

CONSTANTS Block,     \* capacity of m_input_data and m_in_vector
          Buffers,   \* buffers of the client
          ReadLimit  \* bound: where the client stops reading

CodecReadersAssumption ==
    /\ Block \in Nat \ {0} /\ ReadLimit \in Nat /\ Buffers \subseteq Nat \ {0}
    /\ \A s \in Inputs :
          /\ s.kind \in Kinds /\ IsCoding(s.coding)
          /\ s.supply \in Nat /\ s.declared \in Nat
          /\ Compresses(s.kind) => s.supply <= s.coding.size /\ s.declared <= s.coding.size

codec == <<left, coder, unread>>
call  == <<step, asked, got, last_ret, retry>>
readerVars == <<input, codec, m_read_offset, call, failed, delivered>>

ReaderInit ==
    /\ input \in Inputs
    /\ left = input.supply
    /\ coder = Fresh
    /\ unread = 0 /\ m_read_offset = 0
    /\ step = "idle" /\ asked = 0 /\ got = 0 /\ last_ret = 0 /\ retry = FALSE
    /\ failed = FALSE
    /\ delivered = 0

\* m_reader->read_some(): at most `most` bytes, none only at the end.
Portions(most) ==
    IF left = 0 \/ most = 0 THEN {0} ELSE 1 .. Lesser(left, most)

ReadSome(n) ==
    /\ step = "idle" /\ ~failed /\ delivered <= ReadLimit
    /\ step' = "loop" /\ asked' = n /\ got' = 0 /\ last_ret' = 0 /\ retry' = FALSE
    /\ UNCHANGED <<input, codec, m_read_offset, failed, delivered>>

\* A slip: only the last call is counted.
ReturnCountingLast(n) ==
    /\ step' = "idle" /\ got' = n
    /\ m_read_offset' = n
    /\ delivered' = delivered + n
    /\ UNCHANGED <<input, asked, last_ret, retry, failed>>

Return(n) ==
    /\ step' = "idle" /\ got' = n
    /\ m_read_offset' = m_read_offset + n
    /\ delivered' = delivered + n
    /\ UNCHANGED <<input, asked, last_ret, retry, failed>>

Throw ==
    /\ step' = "idle" /\ failed' = TRUE
    /\ UNCHANGED <<input, asked, got, last_ret, retry, m_read_offset, delivered>>

Again(n) ==
    /\ got' = n
    /\ UNCHANGED <<input, step, asked, last_ret, retry, m_read_offset, failed, delivered>>

Running(kind) == step = "loop" /\ input.kind = kind

Room == asked - got

-----------------------------------------------------------------------------
\* What a turn has eaten is gone from the input; the turn reads no more.
Eaten(r) ==
    /\ coder' = r.z
    /\ unread' = unread - r.ate
    /\ UNCHANGED left

BytesRead == input.supply - left

LastChunk == BytesRead = input.declared

ReadsMore(n) ==
    /\ left' = left - n
    /\ unread' = n

\* deflate() had nothing to eat.
RefillDeflate ==
    /\ Running("zlib_compression")
    /\ \E r \in Deflate(InputCoding, coder, unread, Room, LastChunk), n \in Portions(Block) :
          /\ r.ret = "buf_error" /\ unread = 0
          /\ coder' = r.z
          /\ ReadsMore(n)
    /\ Again(got)

DeflateTurn ==
    /\ Running("zlib_compression")
    /\ \E r \in Deflate(InputCoding, coder, unread, Room, LastChunk) :
          LET actual_read == r.z.given - m_read_offset
              done == \/ r.ret = "end"
                      \/ r.ret = "ok" /\ LastChunk
                      \/ r.ret \in {"ok", "buf_error"} /\ actual_read = asked
          IN /\ ~(r.ret = "buf_error" /\ unread = 0)
             /\ Eaten(r)
             /\ IF done THEN Return(actual_read)
                ELSE IF r.ret # "ok" THEN Throw ELSE Again(actual_read)

\* A slip: nobody asks whether the codec can finish.
RefillForEver(r, most) ==
    \E n \in Portions(most) :
       /\ coder' = r.z
       /\ ReadsMore(n)
       /\ last_ret' = r.z.hint /\ got' = got + r.gave
       /\ UNCHANGED <<input, step, asked, retry, m_read_offset, failed, delivered>>

\* zstd: a reader that gives nothing twice, with the same word from the codec,
\* "cannot finish".
Refill(r, most) ==
    \E n \in Portions(most) :
       LET maybe_incomplete == n = 0 /\ last_ret = r.z.hint IN
       /\ coder' = r.z
       /\ ReadsMore(n)
       /\ IF maybe_incomplete /\ retry
          THEN Throw
          ELSE /\ retry' = maybe_incomplete /\ last_ret' = r.z.hint
               /\ got' = got + r.gave
               /\ UNCHANGED <<input, step, asked, m_read_offset, failed, delivered>>

Turned(r) ==
    /\ Eaten(r)
    /\ IF got + r.gave = asked THEN Return(asked)
       ELSE /\ got' = got + r.gave /\ last_ret' = r.z.hint
            /\ UNCHANGED <<input, step, asked, retry, m_read_offset, failed, delivered>>

NeedsMore(r) == got + r.gave # asked /\ unread = r.ate

ZstdCompressLast ==
    /\ Running("zstd_compression")
    /\ LastChunk
    /\ \E r \in CompressStream(InputCoding, coder, unread, Room, TRUE) :
          /\ Eaten(r)
          /\ IF r.z.hint > 0 THEN Throw ELSE Return(got + r.gave)

ZstdCompressTurn ==
    /\ Running("zstd_compression")
    /\ ~LastChunk
    /\ \E r \in CompressStream(InputCoding, coder, unread, Room, FALSE) :
          IF NeedsMore(r) THEN Refill(r, Block) ELSE Turned(r)

\* Input is read when there is none, before inflate() is called.
InflateTurn ==
    /\ Running("zlib_decompression")
    /\ \E n \in IF unread = 0 THEN Portions(Block) ELSE {0} :
       \E r \in Inflate(InputCoding, coder, unread + n, Room) :
          /\ coder' = r.z
          /\ left' = left - n
          /\ unread' = unread + n - r.ate
          /\ IF r.ret = "end" THEN Return(got + r.gave)
             ELSE IF r.ret # "ok" THEN Throw
             ELSE IF got + r.gave = asked THEN Return(asked)
             ELSE Again(got + r.gave)

ZstdDecompressTurn ==
    /\ Running("zstd_decompression")
    /\ \E r \in DecompressStream(InputCoding, coder, unread, Room) :
          IF r.ret = "error" THEN Eaten(r) /\ Throw
          ELSE IF got + r.gave + m_read_offset = input.declared
               THEN Eaten(r) /\ Return(got + r.gave)
          ELSE IF NeedsMore(r) THEN Refill(r, IF r.z.hint = 0 THEN 0 ELSE Block)
          ELSE Turned(r)

ReaderTurn ==
    \/ RefillDeflate \/ DeflateTurn
    \/ ZstdCompressLast \/ ZstdCompressTurn
    \/ InflateTurn
    \/ ZstdDecompressTurn

ReaderNext == (\E n \in Buffers : ReadSome(n)) \/ ReaderTurn

ReaderSpec == ReaderInit /\ [][ReaderNext]_readerVars /\ WF_readerVars(ReaderTurn)

-----------------------------------------------------------------------------
\* A call returns or throws, however the inner reader cuts what it has and
\* also when it has less than was announced; but the zlib compressor asks for
\* ever for input that was announced and does not come.
EveryReadReturns ==
    (step = "loop" /\ (input.kind = "zlib_compression" => Honest)) ~> step = "idle"
=============================================================================

------------------------------ MODULE MCNative ------------------------------
(* Machines of the native code, for TLC: prepared items that are read,       *)
(* readers and writers of compressed streams, the recompress tool, and the   *)
(* channel of a patched item whose offsets are seen apart.  They share no    *)
(* state; Init chooses one, and the others stay as they are.                 *)
EXTENDS MCReaders, CodecReading, CodecWriting, MCRecompress

VARIABLE machine

VARIABLES
    m_buffer, m_start_offset, m_end_offset, m_total_read, m_total_written, m_canceled,
    m_buffer_mutex, wpc, produced, next_byte, remaining,
    rpc, remaining_to_read, available, loaded_end, in_order

readerVars == <<input, left, coder, unread, m_read_offset, step, asked, got, last_ret,
                retry, failed, delivered>>
writerVars == <<stream, z, avail_in, piece, m_processed_bytes, handled, pc, destroying,
                ended, thrown, inner, intact>>

channelVars == <<m_buffer, m_start_offset, m_end_offset, m_total_read, m_total_written,
                 m_canceled, m_buffer_mutex, wpc, produced, next_byte, remaining,
                 rpc, remaining_to_read, available, loaded_end, in_order>>

nativeVars == <<machine, vars, readerVars, writerVars, toolVars, channelVars>>

-----------------------------------------------------------------------------
(* Inputs of two and three bytes: from which nothing comes before the end,  *)
(* from which much comes at once, and one with a header.                    *)

Compressing   == {kind \in Kinds : Compresses(kind)}
Decompressing == Kinds \ Compressing

Makes(made, rest) ==
    [size |-> Len(made) - 1, made |-> [k \in 0 .. Len(made) - 1 |-> made[k + 1]], rest |-> rest]

Late   == Makes(<<0, 1, 1>>, 2)
Sudden == Makes(<<0, 1, 1, 4>>, 1)
Header == Makes(<<1, 1, 3>>, 1)

\* Streams announced as they are, as more and as less; compressed ones with
\* something behind them.
ReadStreams ==
    [kind : Kinds, coding : {Late},
     supply : 1 .. 2, declared : 1 .. 2]
      \union [kind : Kinds, coding : {Sudden},
              supply : 2 .. 3, declared : {3}]
      \union [kind : Compressing, coding : {Header}, supply : {2}, declared : {2}]
      \union [kind : Decompressing, coding : {Sudden}, supply : 3 .. 4, declared : 4 .. 5]

WrittenStreams ==
    [kind : Kinds,
     coding : {Makes(<<0, 1, 1, 1>>, 2), Makes(<<0, 0, 1, 4>>, 3)},
     supply : {3}, declared : 2 .. 3]
      \union [kind : Compressing, coding : {Makes(<<1, 1, 3, 3>>, 1)},
              supply : {3}, declared : {3}]
      \union [kind : Decompressing, coding : {Makes(<<0, 1, 1, 1>>, 2), Makes(<<0, 0, 1, 4>>, 3)},
              supply : {5}, declared : {0}]

CR == INSTANCE CodecReaders
        WITH Inputs <- ReadStreams, Block <- 2, Buffers <- {1, 2, 4}, ReadLimit <- 6

CW == INSTANCE CodecWriters
        WITH Streams <- WrittenStreams, Capacity <- 2, Pieces <- {1, 2, 3}

\* More is made than expected, and reads are of one byte: what the buffer does
\* after a torn read of more bytes is undefined.
CH == INSTANCE TornChannel
        WITH Capacity <- 2, Expected <- 4, Produced <- 7, WriteSizes <- {1, 3},
             ReadSizes <- {1}, MayFail <- FALSE, MayFlush <- FALSE,
             SpuriousWakes <- FALSE, intact <- in_order

ASSUME CodecsAssumption == CR!CodecReadersAssumption /\ CW!CodecWritersAssumption

-----------------------------------------------------------------------------
\* The item that is not read while another machine runs.
ItemAside == ReaderItem(<<0>>)

NoItemRead ==
    /\ item = ItemAside /\ random = MakeReader(item) /\ sequential = MakeSequentialReader(item)
    /\ place = 0 /\ broken = FALSE /\ call = NoCall

NoReader ==
    /\ input = "none" /\ left = 0 /\ coder = "none" /\ unread = 0 /\ m_read_offset = 0
    /\ step = "none" /\ asked = 0 /\ got = 0 /\ last_ret = 0 /\ retry = FALSE
    /\ failed = FALSE /\ delivered = 0

NoWriter ==
    /\ stream = "none" /\ z = "none" /\ avail_in = 0 /\ piece = 0
    /\ m_processed_bytes = 0 /\ handled = 0 /\ inner = 0 /\ intact = TRUE
    /\ pc = "none" /\ destroying = FALSE /\ ended = FALSE /\ thrown = "none"

NoTool ==
    /\ source = "none" /\ signing = "none" /\ phase = "none" /\ archive = "none"
    /\ config = "none" /\ at = 0 /\ file_to_hash_map = "none" /\ dest = "none"

NativeInit ==
    /\ CH!TornInit
    /\ \/ machine = "item"   /\ Init          /\ NoReader   /\ NoWriter /\ NoTool
       \/ machine = "reader" /\ CR!ReaderInit /\ NoItemRead /\ NoWriter /\ NoTool
       \/ machine = "writer" /\ CW!WriterInit /\ NoItemRead /\ NoReader /\ NoTool
       \/ machine = "tool"   /\ ToolInit      /\ NoItemRead /\ NoReader /\ NoWriter
       \/ machine = "patch"  /\ NoItemRead    /\ NoReader   /\ NoWriter /\ NoTool

OfItem ==
    machine = "item" /\ UNCHANGED <<machine, readerVars, writerVars, toolVars, channelVars>>
OfReader ==
    machine = "reader" /\ UNCHANGED <<machine, vars, writerVars, toolVars, channelVars>>
OfWriter ==
    machine = "writer" /\ UNCHANGED <<machine, vars, readerVars, toolVars, channelVars>>
OfTool ==
    machine = "tool" /\ UNCHANGED <<machine, vars, readerVars, writerVars, channelVars>>
OfPatch ==
    machine = "patch" /\ UNCHANGED <<machine, vars, readerVars, writerVars, toolVars>>

ReaderTurn == OfReader /\ CR!ReaderTurn
WriterTurn == OfWriter /\ CW!WriterTurn
PatchTurn  == OfPatch /\ CH!TornWorker
ClientTurn == OfPatch /\ CH!TornReader

NativeNext ==
    \/ OfItem /\ Next
    \/ OfReader /\ CR!ReaderNext
    \/ OfWriter /\ CW!WriterNext
    \/ OfTool /\ ToolNext
    \/ OfPatch /\ CH!TornNext

NativeSpec ==
    /\ NativeInit /\ [][NativeNext]_nativeVars
    /\ WF_readerVars(ReaderTurn) /\ WF_writerVars(WriterTurn)
    /\ WF_channelVars(PatchTurn) /\ WF_channelVars(ClientTurn)

-----------------------------------------------------------------------------
\* A call of either returns or throws, however the streams around it cut their
\* data (CodecReaders, CodecWriters).
CallsReturn == CR!EveryReadReturns /\ CW!EveryCallReturns

\* A read_some() call of a patched item comes to an end (TornChannel).
EveryReadReturns == CH!EveryReadReturns

\* Once everything was read, the destructor of the reader of a patched item
\* joins its worker, also when more was made than expected (TornChannel).
DestructorEndsAfterLastByte == CH!DestructorEndsAfterLastByte
=============================================================================

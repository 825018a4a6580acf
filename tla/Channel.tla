------------------------------- MODULE Channel -------------------------------
(***************************************************************************)
(* io/compressed/writer_to_reader_channel.{h,cpp} between the two threads  *)
(* of io/compressed/bspatch_decompression_reader.{h,cpp}: the worker runs  *)
(* bspatch and write()s its output, the client read_some()s it and at last *)
(* destroys the reader, which cancels the channel and joins the worker.    *)
(*                                                                         *)
(* The k-th byte of the output is the number k; 0 is a byte of memory that *)
(* holds nothing of it.  A mutex is held over the steps between its        *)
(* acquisition and its release; a step that acquires and releases is one   *)
(* action.  The two offsets are loaded together and stored together;       *)
(* TornChannel takes them apart.                                           *)
(***************************************************************************)
EXTENDS Integers

CONSTANTS Capacity,       \* m_buffer.capacity()
          Expected,       \* m_expected_total_read
          Produced,       \* bytes that bspatch makes of its inputs
          WriteSizes,     \* sizes bspatch writes
          ReadSizes,      \* sizes the client reads
          MayFail,        \* bspatch may fail before its end
          MayFlush,       \* bspatch may flush its output
          SpuriousWakes   \* waits may end without a signal

ChannelAssumption ==
    /\ Capacity \in Nat \ {0}
    /\ Expected \in Nat
    /\ Produced \in Nat
    /\ WriteSizes \subseteq Nat \ {0}
    /\ ReadSizes \subseteq Nat \ {0}
    /\ {MayFail, MayFlush, SpuriousWakes} \subseteq BOOLEAN

ASSUME ChannelAssumption

VARIABLES
    m_buffer, m_start_offset, m_end_offset, m_total_read, m_total_written,
    m_canceled,
    m_buffer_mutex,        \* "worker", or "free": the reader never keeps it
    \* the worker thread
    wpc, produced,
    next_byte,             \* the byte at buffer[read_offset]
    remaining,             \* bytes of this write() not yet in m_buffer
    \* the client thread
    rpc,
    remaining_to_read,
    available,
    intact                 \* every byte handed to the client was the next one

offsets == <<m_start_offset, m_end_offset>>
totals == <<m_total_read, m_total_written>>
channel == <<m_buffer, offsets, totals, m_canceled>>
chunk == <<produced, next_byte, remaining>>
request == <<remaining_to_read, available>>
worker == <<wpc, chunk>>
reader == <<rpc, request>>
vars == <<channel, m_buffer_mutex, worker, reader, intact>>

Init ==
    /\ m_buffer = [i \in 0 .. Capacity - 1 |-> 0]
    /\ m_start_offset = 0
    /\ m_end_offset = 0
    /\ m_total_read = 0
    /\ m_total_written = 0
    /\ m_canceled = FALSE
    /\ m_buffer_mutex = "free"
    /\ wpc = "patch"
    /\ produced = 0
    /\ next_byte = 1
    /\ remaining = 0
    /\ rpc = "client"
    /\ remaining_to_read = 0
    /\ available = 0
    /\ intact = TRUE

DoneReading == m_total_read >= Expected
BufferIsFull == m_start_offset = 0 /\ m_end_offset = Capacity
Smaller(a, b) == IF a <= b THEN a ELSE b

\* notify_all_writers() and notify_all_readers(): whoever sleeps tests again.
WakeWriter == wpc' = IF wpc = "asleep" THEN "retest" ELSE wpc
WakeReaderAfterChunk ==   \* a slip: only when all of the chunk is written
    rpc' = IF rpc = "asleep" /\ remaining = 0 THEN "retest" ELSE rpc
WakeReader == rpc' = IF rpc = "asleep" THEN "retest" ELSE rpc

-----------------------------------------------------------------------------
(* The worker: apply_patch() and the write() calls of bspatch.             *)

Write(n) ==
    /\ wpc = "patch"
    /\ produced + n <= Produced
    /\ produced' = produced + n
    /\ next_byte' = produced + 1
    /\ remaining' = n
    /\ wpc' = "check"
    /\ UNCHANGED <<channel, m_buffer_mutex, reader, intact>>

\* The end of the patch, or an exception; the worker only logs it.
PatchEnds ==
    /\ wpc = "patch"
    /\ produced = Produced \/ MayFail
    /\ wpc' = "done"
    /\ UNCHANGED <<channel, m_buffer_mutex, chunk, reader, intact>>

WriteWhenDone ==
    /\ wpc = "check"
    /\ DoneReading
    /\ wpc' = "done"
    /\ UNCHANGED <<channel, m_buffer_mutex, chunk, reader, intact>>

WriteOn ==
    /\ wpc = "check"
    /\ ~DoneReading
    /\ wpc' = "lock"
    /\ UNCHANGED <<channel, m_buffer_mutex, chunk, reader, intact>>

Lock == m_buffer_mutex = "free" /\ m_buffer_mutex' = "worker"

LockToWrite ==
    /\ wpc = "lock"
    /\ Lock
    /\ wpc' = "shift"
    /\ UNCHANGED <<channel, chunk, reader, intact>>

\* A slip: shift_buffer() sets the offsets and forgets the bytes.
NothingMoved == m_buffer

\* shift_buffer(): what is not yet read moves to the start.
Moved == [i \in DOMAIN m_buffer |->
             IF i < m_end_offset - m_start_offset THEN m_buffer[i + m_start_offset]
                                                  ELSE m_buffer[i]]

Shift ==
    /\ wpc = "shift"
    /\ m_buffer' = Moved
    /\ m_end_offset' = m_end_offset - m_start_offset
    /\ m_start_offset' = 0
    /\ wpc' = "fill"
    /\ UNCHANGED <<totals, m_canceled, m_buffer_mutex, chunk, reader, intact>>

\* flush() shifts without the mutex; here it is seen at once.
Flush ==
    /\ wpc = "patch"
    /\ MayFlush
    /\ m_buffer' = Moved
    /\ m_end_offset' = m_end_offset - m_start_offset
    /\ m_start_offset' = 0
    /\ UNCHANGED <<totals, m_canceled, m_buffer_mutex, worker, reader, intact>>

Fill ==
    /\ wpc = "fill"
    /\ LET to_write == Smaller(remaining, Capacity - m_end_offset)
       IN /\ m_buffer' = [i \in DOMAIN m_buffer |->
                             IF i \in m_end_offset .. m_end_offset + to_write - 1
                             THEN next_byte + (i - m_end_offset)
                             ELSE m_buffer[i]]
          /\ m_end_offset' = m_end_offset + to_write
          /\ m_total_written' = m_total_written + to_write
          /\ next_byte' = next_byte + to_write
          /\ remaining' = remaining - to_write
    /\ m_buffer_mutex' = "free"
    /\ wpc' = "notify"
    /\ UNCHANGED <<m_start_offset, m_total_read, m_canceled, produced, reader,
                   intact>>

NotifyReaders ==
    /\ wpc = "notify"
    /\ WakeReader
    /\ wpc' = IF remaining = 0 THEN "patch" ELSE "test"
    /\ UNCHANGED <<channel, m_buffer_mutex, chunk, request, intact>>

\* A slip: a writer that waits does not look for the end of reading.
WritePossibleBeforeEnd == ~BufferIsFull \/ m_canceled

\* wait_until_write_possible(): the predicate is tested with the mutex held,
\* which is released only by going to sleep.
WritePossible == ~BufferIsFull \/ DoneReading \/ m_canceled

TestForRoom ==
    /\ wpc \in {"test", "retest"}
    /\ m_buffer_mutex = "free"
    /\ IF WritePossible
       THEN wpc' = "waited" /\ UNCHANGED m_buffer_mutex
       ELSE wpc' = "falling asleep" /\ m_buffer_mutex' = "worker"
    /\ UNCHANGED <<channel, chunk, reader, intact>>

Sleep ==
    /\ wpc = "falling asleep"
    /\ wpc' = "asleep"
    /\ m_buffer_mutex' = "free"
    /\ UNCHANGED <<channel, chunk, reader, intact>>

\* After a cancellation the rest of the chunk is dropped.
Waited ==
    /\ wpc = "waited"
    /\ wpc' = IF m_canceled THEN "patch" ELSE "check"
    /\ UNCHANGED <<channel, m_buffer_mutex, chunk, reader, intact>>

WriterWakes ==
    /\ SpuriousWakes
    /\ wpc = "asleep"
    /\ wpc' = "retest"
    /\ UNCHANGED <<channel, m_buffer_mutex, chunk, reader, intact>>

-----------------------------------------------------------------------------
(* The client: read_some(), and the destructor.                            *)

ReadSome(n) ==
    /\ rpc = "client"
    /\ remaining_to_read' = n
    /\ rpc' = "head"
    /\ UNCHANGED <<channel, m_buffer_mutex, worker, available, intact>>

\* The locals of a call are forgotten when it ends.
ReturnToClient ==
    /\ rpc' = "client"
    /\ remaining_to_read' = 0
    /\ available' = 0

\* The end of the loop, and the early return once all has been read.
ReadReturns ==
    /\ rpc = "head"
    /\ remaining_to_read = 0 \/ DoneReading
    /\ ReturnToClient
    /\ UNCHANGED <<channel, m_buffer_mutex, worker, intact>>

\* get_available_read() holds no mutex.
GetAvailable ==
    \/ /\ rpc = "head" /\ remaining_to_read > 0 /\ ~DoneReading
    \/ rpc = "again"

Found(a) ==
    /\ available' = a
    /\ rpc' = IF a = 0 THEN "test" ELSE "copy"

LoadBoth ==
    /\ GetAvailable
    /\ Found(m_end_offset - m_start_offset)
    /\ UNCHANGED <<channel, m_buffer_mutex, worker, remaining_to_read, intact>>

\* wait_for_available_content(): going to sleep releases the mutex, and
\* content comes only with the mutex held.  The client has not cancelled yet.
TestForContent ==
    /\ rpc \in {"test", "retest"}
    /\ m_buffer_mutex = "free"
    /\ rpc' = IF m_start_offset # m_end_offset THEN "again" ELSE "asleep"
    /\ UNCHANGED <<channel, m_buffer_mutex, worker, request, intact>>

ReaderWakes ==
    /\ SpuriousWakes
    /\ rpc = "asleep"
    /\ rpc' = "retest"
    /\ UNCHANGED <<channel, m_buffer_mutex, worker, request, intact>>

\* A slip: the copy takes what was asked for.
ToReadAsAsked == remaining_to_read

\* A difference below 0 is a huge size_t.
ToRead == IF available < 0 THEN remaining_to_read
                           ELSE Smaller(available, remaining_to_read)

ByteAt(i) == IF i \in DOMAIN m_buffer THEN m_buffer[i] ELSE 0

Copy ==
    /\ rpc = "copy"
    /\ m_buffer_mutex = "free"
    /\ ToRead <= Expected - m_total_read
    /\ intact' = (intact /\ \A i \in 0 .. ToRead - 1 :
                               ByteAt(m_start_offset + i) = m_total_read + i + 1)
    /\ m_start_offset' = m_start_offset + ToRead
    /\ m_total_read' = m_total_read + ToRead
    /\ remaining_to_read' = remaining_to_read - ToRead
    /\ rpc' = "notify"
    /\ UNCHANGED <<m_buffer, m_end_offset, m_total_written, m_canceled,
                   m_buffer_mutex, worker, available>>

\* "More data is available than we expect."
CopyThrows ==
    /\ rpc = "copy"
    /\ m_buffer_mutex = "free"
    /\ ToRead > Expected - m_total_read
    /\ ReturnToClient
    /\ UNCHANGED <<channel, m_buffer_mutex, worker, intact>>

NotifyWriters ==
    /\ rpc = "notify"
    /\ WakeWriter
    /\ rpc' = "head"
    /\ UNCHANGED <<channel, m_buffer_mutex, chunk, request, intact>>

\* ~bspatch_decompression_reader(): cancel() stores and notifies, holding no
\* mutex, then the worker is joined.
Cancel ==
    /\ rpc = "client"
    /\ m_canceled' = TRUE
    /\ rpc' = "canceling"
    /\ UNCHANGED <<m_buffer, offsets, totals, m_buffer_mutex, worker, request,
                   intact>>

CancelNotifies ==
    /\ rpc = "canceling"
    /\ WakeWriter
    /\ rpc' = "join"
    /\ UNCHANGED <<channel, m_buffer_mutex, chunk, request, intact>>

Join ==
    /\ rpc = "join"
    /\ wpc = "done"
    /\ rpc' = "destroyed"
    /\ UNCHANGED <<channel, m_buffer_mutex, worker, request, intact>>

-----------------------------------------------------------------------------
InWrite ==
    \/ WriteWhenDone \/ WriteOn \/ LockToWrite \/ Fill \/ NotifyReaders
    \/ TestForRoom \/ Sleep \/ Waited \/ PatchEnds
    \/ \E n \in WriteSizes : Write(n)

Worker == Shift \/ InWrite

InRead ==
    \/ ReadReturns \/ TestForContent \/ Copy \/ CopyThrows \/ NotifyWriters

Destructor == CancelNotifies \/ Join

Reader == LoadBoth \/ InRead \/ Destructor

\* What nobody is made to do.
AtWill ==
    \/ Flush \/ WriterWakes \/ ReaderWakes \/ Cancel
    \/ \E n \in ReadSizes : ReadSome(n)

Next == Worker \/ Reader \/ AtWill

\* Both threads run; the client need not read on, nor destroy the reader, and
\* nothing makes bspatch flush or a wait end without a signal.
Spec == Init /\ [][Next]_vars /\ WF_vars(Worker) /\ WF_vars(Reader)

-----------------------------------------------------------------------------
(* Correctness.                                                            *)

WorkerSteps ==
    {"patch", "check", "lock", "shift", "fill", "notify", "test",
     "falling asleep", "asleep", "retest", "waited", "done"}

ReaderSteps ==
    {"client", "head", "again", "test", "asleep", "retest", "copy",
     "notify", "canceling", "join", "destroyed"}

TypeOK ==
    /\ m_buffer \in [0 .. Capacity - 1 -> Nat]
    /\ m_start_offset \in Nat /\ m_end_offset \in Nat
    /\ m_total_read \in Nat /\ m_total_written \in Nat
    /\ m_canceled \in BOOLEAN
    /\ m_buffer_mutex \in {"worker", "free"}
    /\ wpc \in WorkerSteps
    /\ produced \in Nat /\ next_byte \in Nat /\ remaining \in Nat
    /\ rpc \in ReaderSteps
    /\ remaining_to_read \in Int /\ available \in Int
    /\ intact \in BOOLEAN

\* The client gets the output of bspatch, byte for byte: "we shouldn't read
\* more than we think is available" (writer_to_reader_channel.cpp:49).  It
\* holds here, where both offsets are seen together; in TornChannel a read of
\* two bytes or more is given bytes that are not there.
DeliversInOrder == intact

\* A thread sleeps only while it has nothing to do, or its signal is under
\* way (wait_for_available_content, wait_until_write_possible).
NoMissedSignal ==
    /\ rpc = "asleep" /\ m_start_offset # m_end_offset => wpc = "notify"
    /\ wpc = "asleep" /\ (~BufferIsFull \/ DoneReading) => rpc = "notify"

S == INSTANCE Stream WITH sent <- m_total_written, received <- m_total_read

\* Bytes arrive in order, and the worker is never more than the buffer ahead.
ImplementsStream == S!Spec

\* A read_some() call comes to an end: with the bytes, with fewer at the end
\* of the output, or with an exception.
EveryReadReturns == rpc = "head" ~> rpc = "client"

\* Once everything was read, the destructor does not wait for ever, also
\* when bspatch makes more than was expected.
DestructorEndsAfterLastByte ==
    rpc = "canceling" /\ DoneReading ~> rpc = "destroyed"

\* cancel() gives the signal that wait_until_write_possible() waits for, so
\* the destructor can join the worker at any time.
DestructorEnds == rpc = "canceling" ~> rpc = "destroyed"

-----------------------------------------------------------------------------
(* The inductive invariant.                                                *)

MutexInv ==
    m_buffer_mutex = "worker" <=> wpc \in {"shift", "fill", "falling asleep"}

OffsetsInv ==
    /\ m_start_offset <= m_end_offset
    /\ m_end_offset <= Capacity
    /\ m_end_offset - m_start_offset = m_total_written - m_total_read
    /\ wpc = "fill" => m_start_offset = 0

\* The buffer holds the next bytes in order, until a cancellation drops some.
ContentInv ==
    ~m_canceled =>
        /\ \A i \in m_start_offset .. m_end_offset - 1 :
              m_buffer[i] = m_total_read + (i - m_start_offset) + 1
        /\ wpc # "done" => produced = m_total_written + remaining
        /\ wpc = "patch" => remaining = 0
        /\ wpc \notin {"patch", "done"} => next_byte = m_total_written + 1

ReaderInv ==
    /\ m_canceled <=> rpc \in {"canceling", "join", "destroyed"}
    /\ rpc \in {"copy", "again", "test", "retest", "asleep"} => 0 < remaining_to_read

\* Only the reader takes bytes out, so what it found is still there.
FoundInv ==
    rpc = "copy" => 0 < available /\ available <= m_end_offset - m_start_offset

SleepInv ==
    wpc = "falling asleep" => BufferIsFull /\ ~DoneReading

IInv ==
    /\ TypeOK
    /\ MutexInv
    /\ OffsetsInv
    /\ ContentInv
    /\ ReaderInv
    /\ FoundInv
    /\ SleepInv
    /\ NoMissedSignal
    /\ DeliversInOrder
=============================================================================

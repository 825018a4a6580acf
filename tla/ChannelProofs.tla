---------------------------- MODULE ChannelProofs ----------------------------
(***************************************************************************)
(* What the channel keeps for every capacity, size and number of bytes, as *)
(* long as the two offsets are never seen apart: the inductive invariant   *)
(* IInv, hence the order of the bytes, and that the channel implements the *)
(* bounded Stream.                                                         *)
(***************************************************************************)
EXTENDS Channel, TLAPS

\* shift_buffer() moves the unread bytes to the start.
LEMMA MovedProperties ==
  ASSUME ChannelAssumption, TypeOK, OffsetsInv
  PROVE  /\ Moved \in [0 .. Capacity - 1 -> Nat]
         /\ \A i \in 0 .. m_end_offset - m_start_offset - 1 :
               Moved[i] = m_buffer[i + m_start_offset]
<1>1. /\ Capacity \in Nat /\ m_start_offset \in Nat /\ m_end_offset \in Nat
      /\ m_start_offset <= m_end_offset /\ m_end_offset <= Capacity
      /\ m_buffer \in [0 .. Capacity - 1 -> Nat]
  BY DEF ChannelAssumption, TypeOK, OffsetsInv
<1>2. ASSUME NEW i \in 0 .. Capacity - 1, i < m_end_offset - m_start_offset
      PROVE  i + m_start_offset \in 0 .. Capacity - 1
  BY <1>1, <1>2
<1>3. \A i \in 0 .. Capacity - 1 :
         (IF i < m_end_offset - m_start_offset THEN m_buffer[i + m_start_offset]
                                               ELSE m_buffer[i]) \in Nat
  BY <1>1, <1>2
<1>4. DOMAIN m_buffer = 0 .. Capacity - 1 BY <1>1
<1>5. Moved \in [0 .. Capacity - 1 -> Nat] BY <1>3, <1>4 DEF Moved
<1>6. \A i \in 0 .. m_end_offset - m_start_offset - 1 :
         i \in 0 .. Capacity - 1 /\ i < m_end_offset - m_start_offset
  BY <1>1
<1>7. \A i \in 0 .. m_end_offset - m_start_offset - 1 :
         Moved[i] = m_buffer[i + m_start_offset]
  BY <1>4, <1>6 DEF Moved
<1> QED BY <1>5, <1>7

\* Shift and Flush alike: the offsets and the content agree as before.
LEMMA ShiftedProperties ==
  ASSUME ChannelAssumption, TypeOK, OffsetsInv,
         m_buffer' = Moved, m_end_offset' = m_end_offset - m_start_offset,
         m_start_offset' = 0, UNCHANGED totals
  PROVE  /\ m_buffer' \in [0 .. Capacity - 1 -> Nat]
         /\ m_end_offset' \in Nat /\ m_end_offset' <= Capacity
         /\ m_end_offset' - m_start_offset' = (m_total_written - m_total_read)'
         /\ (\A i \in m_start_offset .. m_end_offset - 1 :
                m_buffer[i] = m_total_read + (i - m_start_offset) + 1)
            => (\A i \in m_start_offset .. m_end_offset - 1 :
                   m_buffer[i] = m_total_read + (i - m_start_offset) + 1)'
<1>1. /\ Capacity \in Nat /\ m_start_offset \in Nat /\ m_end_offset \in Nat
      /\ m_total_read \in Nat /\ m_total_written \in Nat
      /\ m_start_offset <= m_end_offset /\ m_end_offset <= Capacity
      /\ m_end_offset - m_start_offset = m_total_written - m_total_read
      /\ UNCHANGED <<m_total_read, m_total_written>>
  BY DEF ChannelAssumption, TypeOK, OffsetsInv, totals
<1>2. ASSUME \A i \in m_start_offset .. m_end_offset - 1 :
                m_buffer[i] = m_total_read + (i - m_start_offset) + 1,
             NEW i \in 0 .. m_end_offset - m_start_offset - 1
      PROVE  m_buffer'[i] = m_total_read + (i - 0) + 1
  <2>1. i + m_start_offset \in m_start_offset .. m_end_offset - 1 BY <1>1
  <2>2. m_buffer[i + m_start_offset] = m_total_read + i + 1 BY <1>1, <1>2, <2>1
  <2> QED BY <1>1, <2>2, MovedProperties
<1> QED BY <1>1, <1>2, MovedProperties

\* Moving the unread bytes to the front keeps their places in the stream.
LEMMA ShiftStep ==
  ASSUME ChannelAssumption, IInv, Shift
  PROVE  IInv'
<1>1. /\ m_buffer' = Moved /\ m_end_offset' = m_end_offset - m_start_offset
      /\ m_start_offset' = 0 /\ wpc = "shift" /\ wpc' = "fill"
      /\ UNCHANGED <<totals, m_canceled, m_buffer_mutex, produced, next_byte,
                     remaining, reader, intact>>
  BY DEF Shift, chunk
<1>2. TypeOK'
  <2>1. wpc' \in WorkerSteps BY <1>1 DEF WorkerSteps
  <2> QED
    BY <1>1, <2>1, ShiftedProperties DEF IInv, TypeOK, totals, reader, request
<1>3. OffsetsInv'
  BY <1>1, ShiftedProperties DEF IInv, TypeOK, OffsetsInv, totals
<1>4. ContentInv'
  BY <1>1, ShiftedProperties DEF IInv, TypeOK, ContentInv, totals
<1>5. ReaderInv' BY <1>1 DEF IInv, ReaderInv, reader, request
<1>6. FoundInv' BY <1>1 DEF IInv, TypeOK, FoundInv, reader, request
<1>7. NoMissedSignal'
  BY <1>1 DEF IInv, TypeOK, OffsetsInv, NoMissedSignal, reader, request
<1> QED BY <1>1, <1>2, <1>3, <1>4, <1>5, <1>6, <1>7
     DEF IInv, MutexInv, SleepInv, DeliversInOrder

\* flush(), the worker's last shift, keeps the invariant as Shift does.
LEMMA FlushStep ==
  ASSUME ChannelAssumption, IInv, Flush
  PROVE  IInv'
<1>1. /\ m_buffer' = Moved /\ m_end_offset' = m_end_offset - m_start_offset
      /\ m_start_offset' = 0 /\ wpc = "patch"
      /\ UNCHANGED <<totals, m_canceled, m_buffer_mutex, worker, reader, intact>>
  BY DEF Flush
<1>2. TypeOK'
  BY <1>1, ShiftedProperties DEF IInv, TypeOK, totals, worker, chunk, reader,
     request
<1>3. OffsetsInv'
  BY <1>1, ShiftedProperties DEF IInv, TypeOK, OffsetsInv, totals, worker, chunk
<1>4. ContentInv'
  BY <1>1, ShiftedProperties DEF IInv, TypeOK, ContentInv, totals, worker, chunk
<1>5. ReaderInv' BY <1>1 DEF IInv, ReaderInv, reader, request
<1>6. FoundInv' BY <1>1 DEF IInv, TypeOK, FoundInv, reader, request
<1>7. NoMissedSignal'
  BY <1>1 DEF IInv, TypeOK, OffsetsInv, NoMissedSignal, worker, chunk, reader,
     request
<1> QED BY <1>1, <1>2, <1>3, <1>4, <1>5, <1>6, <1>7
     DEF IInv, MutexInv, SleepInv, DeliversInOrder, worker, chunk

\* What do_write copies into the free part continues the stream.
LEMMA FillStep ==
  ASSUME ChannelAssumption, IInv, Fill
  PROVE  IInv'
<1> DEFINE to_write == Smaller(remaining, Capacity - m_end_offset)
<1>1. /\ wpc = "fill" /\ wpc' = "notify" /\ m_buffer_mutex' = "free"
      /\ m_buffer' = [i \in DOMAIN m_buffer |->
                         IF i \in m_end_offset .. m_end_offset + to_write - 1
                         THEN next_byte + (i - m_end_offset)
                         ELSE m_buffer[i]]
      /\ m_end_offset' = m_end_offset + to_write
      /\ m_total_written' = m_total_written + to_write
      /\ next_byte' = next_byte + to_write
      /\ remaining' = remaining - to_write
      /\ UNCHANGED <<m_start_offset, m_total_read, m_canceled, produced, reader, intact>>
  BY DEF Fill, request
<1>2. /\ Capacity \in Nat /\ m_start_offset = 0 /\ m_end_offset \in Nat
      /\ m_total_read \in Nat /\ m_total_written \in Nat
      /\ next_byte \in Nat /\ remaining \in Nat
      /\ m_end_offset <= Capacity
      /\ m_end_offset = m_total_written - m_total_read
      /\ m_buffer \in [0 .. Capacity - 1 -> Nat]
  BY <1>1 DEF ChannelAssumption, IInv, TypeOK, OffsetsInv
<1>3. to_write \in Nat /\ to_write <= remaining /\ m_end_offset + to_write <= Capacity
  BY <1>2 DEF Smaller
<1> HIDE DEF to_write
<1>4. m_buffer' \in [0 .. Capacity - 1 -> Nat]
  <2>1. \A i \in 0 .. Capacity - 1 :
           (IF i \in m_end_offset .. m_end_offset + to_write - 1
            THEN next_byte + (i - m_end_offset) ELSE m_buffer[i]) \in Nat
    BY <1>2, <1>3
  <2> QED BY <1>1, <1>2, <2>1
<1>5. TypeOK'
  <2>1. wpc' \in WorkerSteps BY <1>1 DEF WorkerSteps
  <2> QED BY <1>1, <1>2, <1>3, <1>4, <2>1 DEF IInv, TypeOK, reader, request
<1>6. OffsetsInv' BY <1>1, <1>2, <1>3 DEF OffsetsInv
<1>7. ContentInv'
  <2>1. SUFFICES ASSUME ~m_canceled'
                 PROVE  /\ (\A i \in m_start_offset .. m_end_offset - 1 :
                               m_buffer[i] = m_total_read + (i - m_start_offset) + 1)'
                        /\ produced' = (m_total_written + remaining)'
                        /\ next_byte' = m_total_written' + 1
    BY <1>1 DEF ContentInv
  <2>2. /\ \A i \in m_start_offset .. m_end_offset - 1 :
              m_buffer[i] = m_total_read + (i - m_start_offset) + 1
        /\ produced = m_total_written + remaining
        /\ next_byte = m_total_written + 1
    BY <1>1, <2>1 DEF IInv, ContentInv
  <2>3. ASSUME NEW i \in 0 .. m_end_offset + to_write - 1
        PROVE  m_buffer'[i] = m_total_read + (i - 0) + 1
    <3>1. i \in 0 .. Capacity - 1 BY <1>2, <1>3
    <3>2. CASE i < m_end_offset
      <4>1. i \in 0 .. m_end_offset - 1 BY <1>2, <1>3, <3>2
      <4>2. m_buffer'[i] = m_buffer[i] BY <1>1, <1>2, <1>3, <3>1, <3>2
      <4> QED BY <1>2, <2>2, <4>1, <4>2
    <3>3. CASE i >= m_end_offset
      <4>1. i \in m_end_offset .. m_end_offset + to_write - 1
        BY <1>2, <1>3, <3>3
      <4>2. m_buffer'[i] = next_byte + (i - m_end_offset)
        BY <1>1, <1>2, <3>1, <4>1
      <4> QED BY <1>2, <2>2, <4>1, <4>2
    <3> QED BY <1>2, <1>3, <3>2, <3>3
  <2> QED BY <1>1, <1>2, <1>3, <2>2, <2>3 DEF IInv, TypeOK
<1>8. ReaderInv' BY <1>1 DEF IInv, ReaderInv, reader, request
<1>9. FoundInv'
  <2>1. available \in Int BY DEF IInv, TypeOK
  <2> QED BY <1>1, <1>2, <1>3, <2>1 DEF IInv, FoundInv, reader, request
<1>10. NoMissedSignal' BY <1>1 DEF NoMissedSignal
<1> QED BY <1>1, <1>5, <1>6, <1>7, <1>8, <1>9, <1>10
     DEF IInv, MutexInv, SleepInv, DeliversInOrder

\* What the reader found is there to be copied, and some of it is.
LEMMA ToReadProperties ==
  ASSUME ChannelAssumption, IInv, rpc = "copy"
  PROVE  /\ ToRead \in Nat /\ 0 < ToRead /\ ToRead <= remaining_to_read
         /\ ToRead <= m_end_offset - m_start_offset
<1>1. /\ m_start_offset \in Nat /\ m_end_offset \in Nat
      /\ remaining_to_read \in Int /\ available \in Int
  BY DEF IInv, TypeOK
<1>2. /\ 0 < available /\ available <= m_end_offset - m_start_offset
      /\ 0 < remaining_to_read
  BY DEF IInv, ReaderInv, FoundInv
<1> QED BY <1>1, <1>2 DEF ToRead, Smaller

\* The reader takes the bytes at m_start_offset, the next ones of the stream.
LEMMA CopyStep ==
  ASSUME ChannelAssumption, IInv, Copy
  PROVE  IInv'
<1>1. /\ rpc = "copy" /\ rpc' = "notify" /\ m_buffer_mutex = "free"
      /\ ToRead <= Expected - m_total_read
      /\ intact' = (intact /\ \A i \in 0 .. ToRead - 1 :
                                 ByteAt(m_start_offset + i) = m_total_read + i + 1)
      /\ m_start_offset' = m_start_offset + ToRead
      /\ m_total_read' = m_total_read + ToRead
      /\ remaining_to_read' = remaining_to_read - ToRead
      /\ UNCHANGED <<m_buffer, m_end_offset, m_total_written, m_canceled,
                     m_buffer_mutex, worker, available>>
  BY DEF Copy
<1>2. /\ Capacity \in Nat /\ m_start_offset \in Nat /\ m_end_offset \in Nat
      /\ m_total_read \in Nat /\ m_total_written \in Nat
      /\ remaining_to_read \in Int /\ available \in Int
      /\ m_start_offset <= m_end_offset /\ m_end_offset <= Capacity
      /\ m_end_offset - m_start_offset = m_total_written - m_total_read
      /\ m_buffer \in [0 .. Capacity - 1 -> Nat]
  BY DEF ChannelAssumption, IInv, TypeOK, OffsetsInv
<1>3. /\ ToRead \in Nat /\ 0 < ToRead /\ ToRead <= remaining_to_read
      /\ ToRead <= m_end_offset - m_start_offset
  BY <1>1, ToReadProperties
<1>4. /\ wpc \notin {"shift", "fill", "falling asleep"}
      /\ ~m_canceled
  BY <1>1 DEF IInv, MutexInv, ReaderInv
<1>5. \A i \in m_start_offset .. m_end_offset - 1 :
         m_buffer[i] = m_total_read + (i - m_start_offset) + 1
  BY <1>4 DEF IInv, ContentInv
<1>6. ASSUME NEW i \in 0 .. ToRead - 1
      PROVE  ByteAt(m_start_offset + i) = m_total_read + i + 1
  <2>1. /\ m_start_offset + i \in m_start_offset .. m_end_offset - 1
        /\ m_start_offset + i \in 0 .. Capacity - 1
    BY <1>2, <1>3
  <2>2. ByteAt(m_start_offset + i) = m_buffer[m_start_offset + i]
    BY <1>2, <2>1 DEF ByteAt
  <2>3. m_buffer[m_start_offset + i] = m_total_read + ((m_start_offset + i) - m_start_offset) + 1
    BY <1>5, <2>1
  <2> QED BY <1>2, <2>2, <2>3
<1>7. intact' = TRUE BY <1>1, <1>6 DEF IInv, DeliversInOrder
<1> HIDE DEF ToRead
<1>8. TypeOK'
  <2>1. rpc' \in ReaderSteps BY <1>1 DEF ReaderSteps
  <2> QED BY <1>1, <1>2, <1>3, <1>7, <2>1 DEF IInv, TypeOK, worker, chunk
<1>9. OffsetsInv'
  <2>1. wpc' # "fill" BY <1>1, <1>4 DEF worker, chunk
  <2> QED BY <1>1, <1>2, <1>3, <2>1 DEF OffsetsInv
<1>10. ContentInv'
  <2>1. \A i \in m_start_offset' .. m_end_offset' - 1 :
           m_buffer'[i] = m_total_read' + (i - m_start_offset') + 1
    BY <1>1, <1>2, <1>3, <1>5
  <2> QED BY <1>1, <2>1 DEF IInv, ContentInv, worker, chunk
<1>11. ReaderInv' /\ FoundInv' BY <1>1 DEF IInv, ReaderInv, FoundInv
<1>12. NoMissedSignal' BY <1>1 DEF NoMissedSignal
<1> QED BY <1>1, <1>4, <1>7, <1>8, <1>9, <1>10, <1>11, <1>12
     DEF IInv, MutexInv, SleepInv, DeliversInOrder, worker, chunk

\* A new write() call of the patch worker keeps the invariant.
LEMMA WriteStep ==
  ASSUME ChannelAssumption, IInv, NEW n \in WriteSizes, Write(n)
  PROVE  IInv'
<1>1. n \in Nat /\ n > 0 BY DEF ChannelAssumption
<1>2. TypeOK'
  <2>1. wpc' \in WorkerSteps BY DEF Write, WorkerSteps
  <2> QED
    BY <1>1, <2>1 DEF IInv, TypeOK, Write, channel, offsets, totals, reader,
       request
<1>3. ContentInv'
  BY <1>1 DEF IInv, TypeOK, ContentInv, Write, channel, offsets, totals
<1>4. MutexInv' /\ OffsetsInv' /\ SleepInv'
  BY DEF IInv, MutexInv, OffsetsInv, SleepInv, Write, channel, offsets, totals
<1>5. ReaderInv' /\ FoundInv'
  BY DEF IInv, ReaderInv, FoundInv, Write, channel, offsets, reader, request
<1>6. NoMissedSignal'
  BY DEF IInv, NoMissedSignal, Write, channel, offsets, reader, request
<1> QED BY <1>2, <1>3, <1>4, <1>5, <1>6 DEF IInv, DeliversInOrder, Write

\* A new call, and the two ends of one, change only the locals of read_some().
LEMMA CallStep ==
  ASSUME ChannelAssumption, IInv,
         (\E n \in ReadSizes : ReadSome(n)) \/ ReadReturns \/ CopyThrows
  PROVE  IInv'
<1>1. /\ UNCHANGED <<m_buffer, offsets, totals, m_canceled, m_buffer_mutex,
                     worker, intact>>
      /\ rpc \in {"client", "head", "copy"} /\ rpc' \in {"client", "head"}
      /\ remaining_to_read' \in Int /\ available' \in Int
  BY DEF ChannelAssumption, IInv, TypeOK, ReadSome, ReadReturns, CopyThrows,
     ReturnToClient, channel
<1>2. TypeOK'
  <2>1. rpc' \in ReaderSteps BY <1>1 DEF ReaderSteps
  <2> QED
    BY <1>1, <2>1 DEF IInv, TypeOK, channel, offsets, totals, worker, chunk
<1>3. OffsetsInv' /\ ContentInv'
  BY <1>1 DEF IInv, OffsetsInv, ContentInv, channel, offsets, totals, worker,
     chunk
<1>4. ReaderInv' /\ FoundInv' BY <1>1 DEF IInv, ReaderInv, FoundInv
<1>5. MutexInv' /\ SleepInv'
  BY <1>1 DEF IInv, MutexInv, SleepInv, BufferIsFull, DoneReading, channel,
     offsets, totals, worker, chunk
<1>6. NoMissedSignal'
  BY <1>1 DEF IInv, NoMissedSignal, BufferIsFull, DoneReading, channel, offsets,
     totals, worker, chunk
<1> QED BY <1>1, <1>2, <1>3, <1>4, <1>5, <1>6 DEF IInv, DeliversInOrder

\* The offsets are read in one piece, so they agree.
LEMMA LoadStep ==
  ASSUME ChannelAssumption, IInv, LoadBoth
  PROVE  IInv'
<1>1. /\ UNCHANGED <<m_buffer, offsets, totals, m_canceled, m_buffer_mutex,
                     worker, remaining_to_read, intact>>
      /\ rpc \in {"head", "again"} /\ 0 < remaining_to_read
      /\ available' = m_end_offset - m_start_offset
      /\ rpc' = IF available' = 0 THEN "test" ELSE "copy"
  BY DEF IInv, TypeOK, ReaderInv, LoadBoth, GetAvailable, Found, channel
<1>2. /\ m_start_offset \in Nat /\ m_end_offset \in Nat
      /\ m_start_offset <= m_end_offset
  BY DEF IInv, TypeOK, OffsetsInv
<1>3. TypeOK'
  <2>1. rpc' \in ReaderSteps BY <1>1 DEF ReaderSteps
  <2> QED
    BY <1>1, <1>2, <2>1 DEF IInv, TypeOK, channel, offsets, totals, worker,
       chunk
<1>4. OffsetsInv' /\ ContentInv'
  BY <1>1 DEF IInv, OffsetsInv, ContentInv, channel, offsets, totals, worker,
     chunk
<1>5. ReaderInv' BY <1>1 DEF IInv, ReaderInv
<1>6. FoundInv' BY <1>1, <1>2 DEF FoundInv, channel, offsets
<1>7. MutexInv' /\ SleepInv'
  BY <1>1 DEF IInv, MutexInv, SleepInv, BufferIsFull, DoneReading, channel,
     offsets, totals, worker, chunk
<1>8. NoMissedSignal'
  BY <1>1 DEF IInv, NoMissedSignal, BufferIsFull, DoneReading, channel, offsets,
     totals, worker, chunk
<1> QED BY <1>1, <1>3, <1>4, <1>5, <1>6, <1>7, <1>8 DEF IInv, DeliversInOrder

\* The steps that move no byte: control, the mutex and the signals.
LEMMA ControlStep ==
  ASSUME IInv,
         \/ PatchEnds \/ WriteWhenDone \/ WriteOn \/ LockToWrite \/ NotifyReaders
         \/ TestForRoom \/ Sleep \/ Waited \/ WriterWakes
         \/ TestForContent \/ NotifyWriters \/ Cancel \/ CancelNotifies \/ Join
         \/ ReaderWakes
  PROVE  IInv'
<1> USE DEF IInv, TypeOK, WorkerSteps, ReaderSteps, MutexInv, OffsetsInv,
            ContentInv, ReaderInv, FoundInv, SleepInv, NoMissedSignal,
            DeliversInOrder, BufferIsFull, DoneReading, channel, offsets,
            totals, worker, chunk, reader, request
<1>1. CASE PatchEnds BY <1>1 DEF PatchEnds
<1>2. CASE WriteWhenDone BY <1>2 DEF WriteWhenDone
<1>3. CASE WriteOn BY <1>3 DEF WriteOn
<1>4. CASE LockToWrite BY <1>4 DEF LockToWrite, Lock
<1>5. CASE NotifyReaders BY <1>5 DEF NotifyReaders, WakeReader
<1>6. CASE TestForRoom BY <1>6 DEF TestForRoom, WritePossible
<1>7. CASE Sleep BY <1>7 DEF Sleep
<1>8. CASE Waited BY <1>8 DEF Waited
<1>9. CASE WriterWakes BY <1>9 DEF WriterWakes
<1>10. CASE TestForContent BY <1>10 DEF TestForContent
<1>11. CASE NotifyWriters BY <1>11 DEF NotifyWriters, WakeWriter
<1>12. CASE Cancel BY <1>12 DEF Cancel
<1>13. CASE CancelNotifies BY <1>13 DEF CancelNotifies, WakeWriter
<1>14. CASE Join BY <1>14 DEF Join
<1>15. CASE ReaderWakes BY <1>15 DEF ReaderWakes
<1> QED BY <1>1, <1>2, <1>3, <1>4, <1>5, <1>6, <1>7, <1>8, <1>9, <1>10, <1>11,
           <1>12, <1>13, <1>14, <1>15

\* IInv is inductive.
LEMMA IInvStep ==
  ASSUME ChannelAssumption, IInv, [Next]_vars
  PROVE  IInv'
<1>1. CASE UNCHANGED vars
  BY <1>1 DEF IInv, TypeOK, MutexInv, OffsetsInv, ContentInv, ReaderInv,
     FoundInv, SleepInv, NoMissedSignal, DeliversInOrder, BufferIsFull,
     DoneReading, vars, channel, offsets, totals, worker, chunk, reader, request
<1>2. CASE Next
  BY <1>2, ShiftStep, FlushStep, FillStep, CopyStep, WriteStep, CallStep,
     LoadStep, ControlStep
     DEF Next, Worker, InWrite, Reader, InRead, Destructor, AtWill
<1> QED BY <1>1, <1>2

\* The channel starts in IInv.
LEMMA IInvInit ==
  ASSUME ChannelAssumption, Init
  PROVE  IInv
<1>1. m_buffer \in [0 .. Capacity - 1 -> Nat] BY DEF Init
<1>2. TypeOK
  <2>1. wpc \in WorkerSteps /\ rpc \in ReaderSteps
    BY DEF Init, WorkerSteps, ReaderSteps
  <2>2. m_buffer_mutex \in {"worker", "free"} /\ m_canceled \in BOOLEAN /\ intact \in BOOLEAN
    BY Zenon DEF Init
  <2>3. /\ m_start_offset \in Nat /\ m_end_offset \in Nat
        /\ m_total_read \in Nat /\ m_total_written \in Nat
        /\ produced \in Nat /\ next_byte \in Nat /\ remaining \in Nat
        /\ remaining_to_read \in Int /\ available \in Int
    BY DEF Init
  <2> QED BY <1>1, <2>1, <2>2, <2>3, Zenon DEF TypeOK
<1>3. OffsetsInv BY DEF ChannelAssumption, Init, OffsetsInv
<1>4. ContentInv BY DEF Init, ContentInv
<1> QED
  BY <1>2, <1>3, <1>4 DEF Init, IInv, MutexInv, ReaderInv, FoundInv, SleepInv,
     NoMissedSignal, DeliversInOrder

\* The invariant of both threads (writer_to_reader_channel.cpp:13-144), when
\* the offsets are loaded and stored together.
THEOREM Invariance == Spec => []IInv
<1>1. ChannelAssumption BY ChannelAssumption
<1>2. Init => IInv BY <1>1, IInvInit
<1>3. IInv /\ [Next]_vars => IInv' BY <1>1, IInvStep
<1> QED BY <1>2, <1>3, PTL DEF Spec

\* The client gets the bytes in order, whatever the sizes of the buffer, the
\* chunks and the reads (read_some() and write()).
THEOREM InOrder == Spec => []DeliversInOrder
<1>1. IInv => DeliversInOrder BY DEF IInv
<1> QED BY <1>1, Invariance, PTL

\* Neither thread sleeps through its signal, cancel() apart.
THEOREM Signals == Spec => []NoMissedSignal
<1>1. IInv => NoMissedSignal BY DEF IInv
<1> QED BY <1>1, Invariance, PTL

-----------------------------------------------------------------------------
(* The channel implements the bounded stream.                              *)

\* Every step of the channel is a step of Stream or leaves it alone.
LEMMA StreamStep ==
  ASSUME ChannelAssumption, IInv, IInv', Next
  PROVE  S!Next \/ UNCHANGED S!vars
<1>1. CASE Fill
  <2> DEFINE to_write == Smaller(remaining, Capacity - m_end_offset)
  <2>1. /\ wpc = "fill" /\ m_total_written' = m_total_written + to_write
        /\ m_end_offset' = m_end_offset + to_write
        /\ UNCHANGED <<m_total_read, m_start_offset, intact>>
    BY <1>1 DEF Fill
  <2>2. /\ Capacity \in Nat /\ m_start_offset = 0
        /\ m_end_offset \in Nat /\ m_end_offset <= Capacity
        /\ m_end_offset = m_total_written - m_total_read
        /\ m_total_read \in Nat /\ m_total_written \in Nat /\ remaining \in Nat
    BY <2>1 DEF ChannelAssumption, IInv, TypeOK, OffsetsInv
  <2>3. to_write \in 0 .. Capacity /\ m_end_offset + to_write <= Capacity
    BY <2>2 DEF Smaller
  <2> HIDE DEF to_write
  <2>4. CASE to_write = 0 BY <2>1, <2>2, <2>4 DEF S!vars
  <2>5. CASE to_write # 0
    <3>1. to_write \in 1 .. Capacity BY <2>2, <2>3, <2>5
    <3>2. S!Send(to_write) BY <2>1, <2>2, <2>3 DEF S!Send
    <3> QED BY <3>1, <3>2 DEF S!Next
  <2> QED BY <2>4, <2>5
<1>2. CASE Copy
  <2>1. /\ rpc = "copy" /\ m_total_read' = m_total_read + ToRead
        /\ UNCHANGED m_total_written
    BY <1>2 DEF Copy
  <2>2. /\ Capacity \in Nat /\ m_start_offset \in Nat /\ m_end_offset \in Nat
        /\ m_end_offset <= Capacity
        /\ m_end_offset - m_start_offset = m_total_written - m_total_read
        /\ m_total_read \in Nat /\ m_total_written \in Nat
        /\ remaining_to_read \in Int /\ available \in Int
    BY DEF ChannelAssumption, IInv, TypeOK, OffsetsInv
  <2>3. ToRead \in 1 .. Capacity /\ m_total_read + ToRead <= m_total_written
    BY <2>1, <2>2, ToReadProperties
  <2>4. intact' = intact BY DEF IInv, DeliversInOrder, TypeOK
  <2>5. S!Receive(ToRead) BY <2>1, <2>3, <2>4 DEF S!Receive
  <2> QED BY <2>3, <2>5 DEF S!Next
<1>3. CASE ~Fill /\ ~Copy
  BY <1>3 DEF Next, Worker, InWrite, Reader, InRead, Destructor, AtWill, S!vars, channel,
     offsets, totals, worker, chunk, reader, request, Write, PatchEnds,
     WriteWhenDone, WriteOn, LockToWrite, Shift, Flush,
     NotifyReaders, TestForRoom, Sleep, Waited, WriterWakes, ReadSome,
     ReadReturns, LoadBoth, TestForContent, ReaderWakes,
     CopyThrows, NotifyWriters, Cancel, CancelNotifies, Join
<1> QED BY <1>1, <1>2, <1>3

\* Every step of the two threads is a step of the stream or a stutter: bytes
\* are neither lost nor invented, and at most a buffer of them is under way.
THEOREM Implementation == Spec => ImplementsStream
<1>1. ChannelAssumption BY ChannelAssumption
<1>2. Init => S!Init BY DEF Init, S!Init
<1>3. IInv /\ IInv' /\ [Next]_vars => [S!Next]_(S!vars)
  <2>1. CASE Next
    BY <1>1, <2>1, StreamStep
  <2>2. CASE UNCHANGED vars BY <2>2 DEF vars, channel, totals, S!vars
  <2> QED BY <2>1, <2>2
<1> QED BY <1>2, <1>3, Invariance, PTL DEF Spec, ImplementsStream, S!Spec
=============================================================================

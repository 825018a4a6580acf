------------------------------ MODULE Readers ------------------------------
(***************************************************************************)
(* How the bytes of a prepared item are read (native/io, prepared_item.cpp). *)
(* A prepared item is a tree: readers and streams are its leaves, slices   *)
(* and chains are made from other items.  It is read at random through a   *)
(* reader, which is one view of a device or a flat chain of views, or from *)
(* start to end through a sequential reader, which is a tree again.  A     *)
(* client opens one of the two (they share no state) and makes any calls,  *)
(* also past the end.                                                      *)
(*                                                                         *)
(* Offsets count from 0 as in the code.  A device is the sequence of its   *)
(* bytes; zlib and zstd are modelled by when their readers stop.           *)
(***************************************************************************)
EXTENDS Naturals, Sequences, SequencesExt, FiniteSetsExt

CONSTANTS Items,     \* prepared items to read
          Depth,     \* how deep they are nested
          Chunk,     \* the buffer of a copy and of skip_by_reading()
          Sizes      \* how many bytes a call asks for

VARIABLES item,        \* what is read
          random,      \* make_reader()
          sequential,  \* make_sequential_reader()
          place,       \* how many bytes were read or skipped sequentially
          broken,      \* the sequential reader has thrown or never returns
          call         \* the last call and what came of it

vars == <<item, random, sequential, place, broken, call>>

LeastOf(a, b) == IF a <= b THEN a ELSE b

\* The n bytes of b from an offset, or as many as there are.
Bytes(b, offset, n) == SubSeq(b, offset + 1, LeastOf(offset + n, Len(b)))

-----------------------------------------------------------------------------
(* Random access: io_device_view and the two implementations of reader.    *)

View(device) == [device |-> device, offset |-> 0, length |-> Len(device)]

SliceOfView(v, offset, length) ==
    [v EXCEPT !.offset = @ + offset, !.length = length]

ReadView(v, offset, n) ==
    IF offset >= v.length
    THEN <<>>
    ELSE Bytes(v.device, v.offset + offset, LeastOf(n, v.length - offset))

\* m_offsets: how much is before each part, and behind the last.
Offsets(parts) ==
    LET before[k \in 0 .. Len(parts)] ==
          IF k = 0 THEN 0 ELSE before[k - 1] + parts[k].length
    IN before

OffsetOfPart(parts, k) == Offsets(parts)[k - 1]

SizeOfReader(r) == Offsets(r.parts)[Len(r.parts)]

\* A slip: an offset at the start of a part is looked up before it.
PartAtOneBefore(parts, offset) ==
    LET bound == {k \in DOMAIN parts : OffsetOfPart(parts, k) >= offset} IN
    IF bound = {} THEN Len(parts)
    ELSE IF Min(bound) > 1 /\ offset <= OffsetOfPart(parts, Min(bound))
         THEN Min(bound) - 1
         ELSE Min(bound)

\* The part that holds an offset: that of std::lower_bound, or the one before
\* it when the offset lies inside of that.
PartAt(parts, offset) ==
    LET bound == {k \in DOMAIN parts : OffsetOfPart(parts, k) >= offset} IN
    IF bound = {} THEN Len(parts)
    ELSE IF Min(bound) > 1 /\ offset < OffsetOfPart(parts, Min(bound))
         THEN Min(bound) - 1
         ELSE Min(bound)

\* The loop over the parts from part k on, the first of them from an offset
\* within it.
Within(k, j, within) == IF j = k THEN within ELSE 0

TakePart(t, v, within) ==
    LET length == LeastOf(v.length - within, t.left) IN
    IF t.left = 0 THEN t
    ELSE [views |-> Append(t.views, SliceOfView(v, within, length)),
          left  |-> t.left - length]

TakeParts(parts, k, within, n) ==
    LET taken[j \in 0 .. Len(parts)] ==
          IF j < k THEN [views |-> <<>>, left |-> n]
          ELSE TakePart(taken[j - 1], parts[j], Within(k, j, within))
    IN taken[Len(parts)].views

\* It ends at the first part that gives nothing.
ReadPart(t, v, within) ==
    LET got == ReadView(v, within, t.left) IN
    IF t.ended THEN t
    ELSE [got |-> t.got \o got, left |-> t.left - Len(got), ended |-> got = <<>>]

ReadParts(parts, k, within, n) ==
    LET read[j \in 0 .. Len(parts)] ==
          IF j < k THEN [got |-> <<>>, left |-> n, ended |-> FALSE]
          ELSE ReadPart(read[j - 1], parts[j], Within(k, j, within))
    IN read[Len(parts)].got

Simple(v) == [chained |-> FALSE, parts |-> <<v>>]

Chained(readers) ==
    [chained |-> TRUE,
     parts   |-> FlattenSeq([k \in DOMAIN readers |-> readers[k].parts])]

SliceOfReader(r, offset, length) ==
    IF ~r.chained
    THEN Simple(SliceOfView(r.parts[1], offset, length))
    ELSE LET k == PartAt(r.parts, offset) IN
         [chained |-> TRUE,
          parts   |-> TakeParts(r.parts, k, offset - OffsetOfPart(r.parts, k),
                                length)]

ReadReader(r, offset, n) ==
    IF ~r.chained THEN ReadView(r.parts[1], offset, n)
    ELSE IF n = 0 \/ SizeOfReader(r) = 0 THEN <<>>
    ELSE LET k == PartAt(r.parts, offset) IN
         ReadParts(r.parts, k, offset - OffsetOfPart(r.parts, k), n)

-----------------------------------------------------------------------------
(* Sequential readers.  A call gives the reader after it, the bytes, and   *)
(* how it ended: "ok", "thrown", or "hangs" when its loop never ends.      *)

Wrapper(r) == [kind |-> "wrapper", reader |-> r, offset |-> 0]

Decoder(i) ==
    [kind |-> "decoder", codec |-> i.codec, trailer |-> i.trailer,
     bytes |-> i.bytes, offset |-> 0, ended |-> FALSE]

SizeOf(s) ==
    CASE s.kind = "wrapper" -> SizeOfReader(s.reader)
      [] s.kind = "decoder" -> Len(s.bytes)
      [] s.kind = "chain"   -> s.size

SumOfSizes(readers) ==
    LET sum[k \in 0 .. Len(readers)] ==
          IF k = 0 THEN 0 ELSE sum[k - 1] + SizeOf(readers[k])
    IN sum[Len(readers)]

ChainReader(readers) ==
    [kind |-> "chain", readers |-> readers, current |-> 1, within |-> 0,
     offset |-> 0, size |-> SumOfSizes(readers)]

\* Readers that have chains in chains up to a depth.
Wrappers ==
    [kind : {"wrapper"}, offset : Nat,
     reader : [chained : BOOLEAN,
               parts : Seq([device : Seq(Nat), offset : Nat, length : Nat])]]

Decoders ==
    [kind : {"decoder"}, codec : {"zlib", "zstd"}, trailer : BOOLEAN,
     bytes : Seq(Nat), offset : Nat, ended : BOOLEAN]

ChainsOf(readers) ==
    [kind : {"chain"}, readers : Seq(readers), current : Nat, within : Nat,
     offset : Nat, size : Nat]

SequentialReaders[d \in 0 .. Depth] ==
    IF d = 0 THEN {} ELSE Wrappers \union Decoders \union ChainsOf(SequentialReaders[d - 1])

Tellg(s) == s.offset

Given(s, got) ==
    [reader |-> [s EXCEPT !.offset = @ + Len(got)], got |-> got, outcome |-> "ok"]

ReadWrapper(s, n) == Given(s, ReadReader(s.reader, s.offset, n))

Decoded(s, n) == Given(s, Bytes(s.bytes, s.offset, n))

\* inflate() reports the end of the stream with the last byte, unless the
\* trailer is in a later block of its input; a call after that fails.
ReadZlib(s, n) ==
    LET ends == \/ s.offset + n > Len(s.bytes)
                \/ s.offset + n = Len(s.bytes) /\ ~s.trailer
    IN IF s.ended
       THEN [reader |-> s, got |-> <<>>, outcome |-> "thrown"]
       ELSE [Decoded(s, n) EXCEPT !.reader.ended = ends]

\* The loop ends when the buffer is full or uncompressed_size is reached, also
\* when that was so before: there is nothing more, as often as it is asked for.
ReadZstd(s, n) == Decoded(s, n)

ReadDecoder(s, n) == IF s.codec = "zlib" THEN ReadZlib(s, n) ELSE ReadZstd(s, n)

\* The chain after its current part has become r and `more` bytes were used.
Advanced(s, r, more) ==
    [s EXCEPT !.readers[s.current] = r, !.within = @ + more, !.offset = @ + more]

Moved(s) == [s EXCEPT !.within = 0, !.current = @ + 1]

\* One turn of the loop; read says what parts give.  A part that gives nothing
\* "shouldn't be possible", as one that is past its end: the chain throws.
ReadFromPart(read, t) ==
    LET s    == t.reader
        part == read[<<s.readers[s.current], t.left>>]
        next == Advanced(s, part.reader, Len(part.got))
    IN IF t.left = 0 \/ s.current > Len(s.readers) \/ t.outcome # "ok" THEN t
       ELSE IF \/ part.outcome # "ok" \/ part.got = <<>>
               \/ Tellg(part.reader) > SizeOf(part.reader)
       THEN [t EXCEPT !.outcome = "thrown"]
       ELSE [t EXCEPT !.reader = IF Tellg(part.reader) = SizeOf(part.reader)
                                 THEN Moved(next) ELSE next,
                      !.got = @ \o part.got,
                      !.left = @ - Len(part.got)]

\* There are no more turns than bytes.
ReadChain(read, s, n) ==
    LET after[k \in 0 .. n] ==
          IF k = 0 THEN [reader |-> s, got |-> <<>>, left |-> n, outcome |-> "ok"]
          ELSE ReadFromPart(read, after[k - 1])
    IN [reader |-> after[n].reader, got |-> after[n].got, outcome |-> after[n].outcome]

ReadWith(read, s, n) ==
    CASE s.kind = "wrapper" -> ReadWrapper(s, n)
      [] s.kind = "decoder" -> ReadDecoder(s, n)
      [] s.kind = "chain"   -> ReadChain(read, s, n)

ReadTo[d \in 0 .. Depth] ==
    [x \in SequentialReaders[d] \X Nat |-> ReadWith(ReadTo[d - 1], x[1], x[2])]

ReadSome(s, n) == ReadTo[Depth][<<s, n>>]

\* A reader that has nothing more to give is asked again and again.
SkipBlock(t) ==
    LET part == ReadDecoder(t.reader, LeastOf(t.left, Chunk)) IN
    IF t.left = 0 \/ t.outcome # "ok" THEN t
    ELSE IF part.outcome # "ok" THEN [t EXCEPT !.outcome = part.outcome]
    ELSE IF part.reader = t.reader THEN [t EXCEPT !.outcome = "hangs"]
    ELSE [t EXCEPT !.reader = part.reader, !.left = @ - Len(part.got)]

\* At most one turn sees the end of the stream and gives nothing, and one more
\* fails.
SkipByReading(s, n) ==
    LET after[k \in 0 .. n + 2] ==
          IF k = 0 THEN [reader |-> s, left |-> n, outcome |-> "ok"]
          ELSE SkipBlock(after[k - 1])
    IN [reader |-> after[n + 2].reader, outcome |-> after[n + 2].outcome]

\* Whole parts are left without being read; the last one skips the rest.
SkipPart(skip, t) ==
    LET s    == t.reader
        part == s.readers[s.current]
        rest == SizeOf(part) - s.within
        last == skip[<<part, t.left>>]
        next == Advanced(s, last.reader, t.left)
    IN IF t.left = 0 \/ t.outcome # "ok" THEN t
       ELSE IF s.current > Len(s.readers) THEN [t EXCEPT !.outcome = "thrown"]
       ELSE IF rest <= t.left
       THEN [t EXCEPT !.reader = Moved(Advanced(s, part, rest)), !.left = @ - rest]
       ELSE [reader  |-> next,
             left    |-> 0,
             outcome |-> IF last.outcome = "ok" /\ next.within # Tellg(last.reader)
                         THEN "thrown" ELSE last.outcome]

SkipChain(skip, s, n) ==
    LET after[k \in 0 .. Len(s.readers) + 1] ==
          IF k = 0 THEN [reader |-> s, left |-> n, outcome |-> "ok"]
          ELSE SkipPart(skip, after[k - 1])
        end == after[Len(s.readers) + 1]
    IN [reader |-> end.reader, outcome |-> end.outcome]

SkipWith(skip, s, n) ==
    CASE s.kind = "wrapper" -> [reader |-> [s EXCEPT !.offset = @ + n], outcome |-> "ok"]
      [] s.kind = "decoder" -> SkipByReading(s, n)
      [] s.kind = "chain"   -> SkipChain(skip, s, n)

SkipTo[d \in 0 .. Depth] ==
    [x \in SequentialReaders[d] \X Nat |-> SkipWith(SkipTo[d - 1], x[1], x[2])]

Skipped(s, n) == SkipTo[Depth][<<s, n>>]

\* writer::write(): copies size() bytes in blocks, each of which read() must
\* fill.
CopyBlock(t) ==
    LET block == LeastOf(t.left, Chunk)
        part  == ReadSome(t.reader, block)
    IN IF t.left = 0 \/ t.outcome # "ok" THEN t
       ELSE IF part.outcome # "ok" \/ Len(part.got) # block
       THEN [t EXCEPT !.outcome = "thrown"]
       ELSE [t EXCEPT !.reader = part.reader, !.got = @ \o part.got, !.left = @ - block]

CopyOf(s) ==
    LET n == SizeOf(s)
        after[k \in 0 .. n] ==
          IF k = 0 THEN [reader |-> s, got |-> <<>>, left |-> n, outcome |-> "ok"]
          ELSE CopyBlock(after[k - 1])
    IN [got |-> after[n].got, outcome |-> after[n].outcome]

-----------------------------------------------------------------------------
(* Prepared items and the recipes that make them.                          *)

ReaderItem(bytes) == [kind |-> "reader", bytes |-> bytes]

StreamItem(codec, trailer, bytes) ==
    [kind |-> "stream", codec |-> codec, trailer |-> trailer, bytes |-> bytes]

\* Items that are made of others up to a depth.
Leaves ==
    [kind : {"reader"}, bytes : Seq(Nat)]
      \union [kind : {"stream"}, codec : {"zlib", "zstd"}, trailer : BOOLEAN, bytes : Seq(Nat)]

MadeOf(items) ==
    [kind : {"slice"}, item : items, offset : Nat, length : Nat]
      \union [kind : {"chain"}, items : Seq(items)]

ItemsTo[d \in 0 .. Depth] ==
    IF d = 0 THEN {} ELSE Leaves \union MadeOf(ItemsTo[d - 1])

CanMakeReaderTo[d \in 0 .. Depth] ==
    [i \in ItemsTo[d] |->
        CASE i.kind = "reader" -> TRUE
          [] i.kind = "stream" -> FALSE
          [] i.kind = "slice"  -> CanMakeReaderTo[d - 1][i.item]
          [] i.kind = "chain"  ->
                \A k \in DOMAIN i.items : CanMakeReaderTo[d - 1][i.items[k]]]

MakeReaderWith(make, i) ==
    CASE i.kind = "reader" -> Simple(View(i.bytes))
      [] i.kind = "stream" -> Simple(View(CopyOf(Decoder(i)).got))
      [] i.kind = "slice"  -> SliceOfReader(make[i.item], i.offset, i.length)
      [] i.kind = "chain"  -> Chained([k \in DOMAIN i.items |-> make[i.items[k]]])

MakeReaderTo[d \in 0 .. Depth] ==
    [i \in ItemsTo[d] |-> MakeReaderWith(MakeReaderTo[d - 1], i)]

MakeReader(i) == MakeReaderTo[Depth][i]

MakeSequentialReaderWith(make, reader, i) ==
    CASE i.kind = "stream" -> Decoder(i)
      [] i.kind \in {"reader", "slice"} -> Wrapper(reader)
      [] i.kind = "chain"  -> ChainReader([k \in DOMAIN i.items |-> make[i.items[k]]])

MakeSequentialReaderTo[d \in 0 .. Depth] ==
    [i \in ItemsTo[d] |->
        MakeSequentialReaderWith(MakeSequentialReaderTo[d - 1], MakeReaderTo[d][i], i)]

MakeSequentialReader(i) == MakeSequentialReaderTo[Depth][i]

\* kitchen::prepare_as_reader(): a temporary file or a buffer holds a copy of
\* what can only be read from start to end.  A copy that throws is taken for
\* an empty one, which ReadsTheContent tells from the whole.
PrepareAsReader(i) ==
    IF CanMakeReaderTo[Depth][i] THEN i ELSE ReaderItem(CopyOf(MakeSequentialReader(i)).got)

SliceRecipe(whole, offset, length) ==
    [kind |-> "slice", offset |-> offset, length |-> length,
     item |-> PrepareAsReader(whole)]

ChainRecipe(items) == [kind |-> "chain", items |-> items]

\* What an item is: the bytes of its leaves, cut and joined.
ContentWith(content, i) ==
    CASE i.kind \in {"reader", "stream"} -> i.bytes
      [] i.kind = "slice" -> Bytes(content[i.item], i.offset, i.length)
      [] i.kind = "chain" -> FlattenSeq([k \in DOMAIN i.items |-> content[i.items[k]]])

ContentTo[d \in 0 .. Depth] ==
    [i \in ItemsTo[d] |-> ContentWith(ContentTo[d - 1], i)]

Content(i) == ContentTo[Depth][i]

\* Items as recipes make them: slices are of what is there, and nothing is empty.
WholeWith(whole, content, i) ==
    CASE i.kind \in {"reader", "stream"} -> i.bytes # <<>>
      [] i.kind = "slice" ->
            whole[i.item] /\ i.length > 0 /\ i.offset + i.length <= Len(content[i.item])
      [] i.kind = "chain" ->
            i.items # <<>> /\ \A k \in DOMAIN i.items : whole[i.items[k]]

WholeTo[d \in 0 .. Depth] ==
    [i \in ItemsTo[d] |-> WholeWith(WholeTo[d - 1], ContentTo[d - 1], i)]

ASSUME ReadersAssumption ==
    /\ Chunk \in Nat \ {0} /\ Sizes \subseteq Nat \ {0} /\ Depth \in Nat
    /\ Items \subseteq ItemsTo[Depth] /\ \A i \in Items : WholeTo[Depth][i]

-----------------------------------------------------------------------------
(* The calls of a client.                                                  *)

NoCall == [op |-> "none", at |-> 0, asked |-> 0, got |-> <<>>, outcome |-> "ok"]

Init ==
    /\ item \in Items
    /\ random = MakeReader(item)
    /\ sequential = MakeSequentialReader(item)
    /\ place = 0
    /\ broken = FALSE
    /\ call = NoCall

Returned(op, at, n, result) ==
    call' = [op |-> op, at |-> at, asked |-> n,
             got |-> result.got, outcome |-> result.outcome]

\* read_some(), and read(), which throws when it got less than asked for; a
\* client of either sees how many bytes there were.
ReadSequentially(n) ==
    /\ ~broken /\ call.op \in {"none", "read", "skip"}
    /\ LET result == ReadSome(sequential, n) IN
       /\ Returned("read", place, n, result)
       /\ sequential' = result.reader
       /\ place' = place + Len(result.got)
       /\ broken' = (result.outcome # "ok")
    /\ UNCHANGED <<item, random>>

\* Calls past the end are made once.
Skip(n) ==
    /\ ~broken /\ call.op \in {"none", "read", "skip"}
    /\ place <= SizeOf(sequential)
    /\ LET result == Skipped(sequential, n) IN
       /\ Returned("skip", place, n, [got |-> <<>>, outcome |-> result.outcome])
       /\ sequential' = result.reader
       /\ place' = place + n
       /\ broken' = (result.outcome # "ok")
    /\ UNCHANGED <<item, random>>

ReadAt(offset, n) ==
    /\ call.op \in {"none", "random", "write"}
    /\ Returned("random", offset, n,
                [got |-> ReadReader(random, offset, n), outcome |-> "ok"])
    /\ UNCHANGED <<item, random, sequential, place, broken>>

\* prepared_item::write()
Write ==
    /\ call.op \in {"none", "random", "write"}
    /\ LET s == MakeSequentialReader(item) IN
       Returned("write", 0, SizeOf(s), CopyOf(s))
    /\ UNCHANGED <<item, random, sequential, place, broken>>

Next ==
    \/ \E n \in Sizes : ReadSequentially(n) \/ Skip(n)
    \/ \E offset \in 0..SizeOfReader(random), n \in Sizes : ReadAt(offset, n)
    \/ Write

Spec == Init /\ [][Next]_vars

-----------------------------------------------------------------------------
\* However an item is made and read, a call gets the bytes that the item has
\* at that place: all it asked for when the item has as many, and then it
\* neither throws nor hangs, though what the parts give may be short; past the
\* end it throws, hangs, or gets what is left.  A copy is the whole item.
ReadsTheContent ==
    LET bytes == Content(item) IN
    /\ call.op # "skip" /\ call.outcome = "ok" =>
          call.got = Bytes(bytes, call.at, call.asked)
    /\ call.at + call.asked <= Len(bytes) => call.outcome = "ok"
    /\ ~broken => Tellg(sequential) = place
    /\ SizeOf(sequential) = Len(bytes) /\ SizeOfReader(random) = Len(bytes)
=============================================================================

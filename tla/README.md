# Verification of the Azure Device Update delta processor

This directory holds TLA+ specifications of the delta processor and diff
generator of `iot-hub-device-update-delta`, TLC configurations that check them
on small instances, and theorems checked by TLAPS. Source paths are relative to
the root of the repository; `native/` and `DiffGen/` stand for
`src/native/` and `src/managed/DiffGen/`.

1. [The system](#1-the-system): inventory
2. [Modules](#2-modules): what models what, and how
3. [Runs](#3-runs): bounds, results, fairness
4. [Theorems](#4-theorems): what is proved, from what, and how
5. [Findings](#5-findings): where the code does not do what it says
6. [Not modelled](#6-not-modelled): what is left out, and why

## 1. The system

A *diff* describes a target file by *recipes*: how to make an item from other
items (a range of it, a concatenation, a decompression, a patch). The diff
generator (managed code) writes it; the delta processor (native code) applies
it on a device to a source file and gets the target.

| component | state | operations | what is hard | what makes it correct | modules |
|---|---|---|---|---|---|
| **kitchen** `native/diffs/core/kitchen.*`, `pantry.*`, `cookbook.*` | pantries, cookbooks, requested, unreachable and ready items, selected recipes | add pantry / cookbook / recipe / item, request, clear, process, select only, fetch, write, save selection | circular recipes, an exception in the middle of the search, retries over kept state, mocked items | selections are complete and without circles; what is ready can be derived and read; requests are accounted for; the search ends | `Kitchen` |
| **item definitions, recipes** `native/diffs/core/item_definition.*`, `recipe.*`, `native/hashing` | length, hashes, names | match, equality, order | partial information on both sides, definitions and recipes as keys of sets | lookups find what they are asked for and nothing else | `Items` |
| **archive** `native/diffs/core/archive.*` | cookbook, pantry, nested archives, recipe types | add, look up, stock a kitchen | nesting, blobs found by name | a kitchen gets all of it, and each recipe its own blobs | `DiffFile` |
| **standard serialization** `native/diffs/serialization/standard` | items and recipes by number, inline assets, remainder | write, read | partial definitions, files cut short | reading gives what was written | `DiffFile` |
| **legacy serialization** `native/diffs/serialization/legacy` | pending slices, aliases of nested diffs | read | running offsets, nested diffs | what is read makes the target | `LegacyFile` |
| **sessions, C API, error list** `native/diffs/api` | session, shared archive, errors | set, add, write, open, damage from outside | order of calls, exceptions as return values, one file for many | what a session makes of a written diff is what the archive in memory makes | `Sessions` |
| **readers** `native/io`, `core/prepared_item.*` | positions, views, parts | read, skip, copy, slice, chain | short reads, ends of streams, boundaries of parts | an item reads as its bytes | `Readers` |
| **codecs** `native/io/compressed/zlib_*`, `zstd_*` | a stream of zlib or zstd, a piece of input, running totals | read; write, flush, destroy | input and output in pieces of any size, calls that achieve nothing, what happens at and past the end | the stream goes through whole, each byte once; calls return, and throw for a reason | `Codec`, `CodecReaders`, `CodecWriters` |
| **cpio archives, recompress tool** `native/archives/cpio_archives`, `native/tools/recompress` | members in order, a map of payloads; an update, its description, hashes of new images | add, remove, set payload, write, read; recompress, hash, describe, sign | paddings, files cut short, a map that repeats the members; images named twice, signatures of old descriptions, failures half way | the new update's hashes and signature are of what is in it, the rest is as it was | `CpioFormat`, `Recompress` |
| **slicer** `native/diffs/core/slicer.*` | paused / running / cancelled, requests, threads, stored slices, three counters | request, resume, pause, cancel, fetch, destroy | one thread per sliced item, two condition variables, counters beside their mutex | a paused slicer is quiet; every requested slice has one producer and can be fetched as often as requested; calls return | `Slicer` |
| **channel** `native/io/compressed/writer_to_reader_channel.*`, `bspatch_decompression_reader.*` | bounded buffer, totals, cancelled flag, worker | write, read, flush, cancel, join | producer and consumer, both offsets read without the mutex, cancellation, a failing producer | bytes arrive in order; nobody sleeps through a signal; reads and the destructor return | `Channel` |
| **archive tokenizers** `DiffGen/ArchiveUtility`, `DiffGen/archives` | chunks, payloads, recipes of an archive | load, fill gaps, unzip, nest | gaps, alignment, zipped and nested archives | recipes are true, chunks cover the archive | `Tokens`, `Tokenizing` |
| **diff generation** `DiffGen/DiffGeneration` | working folder, tokens, plans, catalog, diff | a pipeline of workers | cancellation and crashes over a folder that is kept, stages that must agree | the written diff rebuilds the target | `Generator` |
| **deltas** `Workers/CreateDeltas.cs`, `Utility/ToolBasedDeltaBuilder.cs` | delta, temporary and bad files, parallel bodies, tools | run, time out, kill, move, judge | parallel bodies, tools that hang or fail, cancellation, crashes, reuse of files | files under a delta's name are whole; the catalog holds the best | `Deltas` |

How they interact: the generator tokenizes both archives, selects what of the
target needs a delta, makes deltas with external tools, lays the deltas
(inline assets) and what nothing makes (the remainder) out as two blobs, and
writes recipes for all of it through a create session. On the device the API
stocks a kitchen from the archive of a diff (`archive::stock_kitchen`), adds
the source file to its pantry, requests the target item, processes the requests
(a recursive search that selects and prepares recipes), resumes slicing, writes
the target item and cancels slicing. Writing pulls bytes through the prepared
items one after the other. A bspatch item runs its worker behind a channel, and
destroying its reader cancels the channel and joins the worker. The slicer runs
one thread for each item that can only be read from start to end; at this
commit `slice_recipe::prepare` (`slice_recipe.cpp:42`) stages such items in the
pantry instead, and calls the slicer only under `#if 0`, so the shipped recipes
resume and cancel a slicer without requests; its interface is public in
`kitchen.h:141-153`.

`recompress` prepares updates for the generator: it compresses their images in a
way that the codecs of the processor can repeat; that is what makes a diff of
compressed images possible.

The hazards that weigh most in these components, each at its line, are in
`PROJECT.json`, with the property that covers each.

## 2. Modules

| module | what it is |
|---|---|
| `Derivation` | abstract: stock and recipes grow, items are obtained only from stock or by a recipe whose ingredients are obtained |
| `Kitchen`, `MCKitchen` | the kitchen, with the recursion of `make_dependency_ready` step by step; small recipe books |
| `KitchenProofs` | theorems about both, that the one implements the other, and what a client may conclude from the kitchen's answers |
| `Items` | item definitions and recipes: how they are compared, matched and named |
| `DiffFile` (extends `Items`) | archives with cookbook and pantry; writing one to a diff file and reading it back |
| `LegacyFile` (extends `DiffFile`) | reading a legacy diff into an archive |
| `Sessions`, `MCSessions` (extend `LegacyFile`) | the sessions of the C interface over one diff file and legacy diffs |
| `Readers`, `MCReaders` | reading the bytes of a prepared item at random and in sequence |
| `ReadersProofs` | theorems about the views, readers and sequential readers of an item, and that all of them read what the item is |
| `Codec` | external: what the stream calls of zlib and zstd promise |
| `CodecReading`, `CodecWriting` (extend `Codec`) | what a reader or a writer that compresses or decompresses keeps and promises |
| `CodecReaders`, `CodecWriters` (extend these) | the loops of the four readers and the four writers |
| `CodecProofs` | what a call of the libraries can answer, and theorems about the readers and the writers |
| `CpioFormat` | cpio archives: how members are laid out, written, read and changed |
| `Recompress`, `MCRecompress` (extend `CpioFormat`) | the command `swu` of the recompress tool; 48 updates |
| `RecompressProofs` | theorems about the format, that what is written is what is read, and about the updates that leave the tool |
| `MCNative` (extends `MCReaders`, `CodecReading`, `CodecWriting`, `MCRecompress`) | `Readers`, `CodecReaders`, `CodecWriters`, `Recompress` and `TornChannel` in one instance: `machine` says which of them runs |
| `Slicer`, `MCSlicer` | the slicer with its client, its workers and a thread that cancels |
| `SlicerProofs` | theorems about the slices that `request_slice` accepts, who makes them and which requests are kept, and about types, counters and the paused slicer |
| `Stream` | abstract: bytes sent and received, at most a buffer apart |
| `Channel` | `writer_to_reader_channel` between the two threads of `bspatch_decompression_reader` |
| `TornChannel` (extends `Channel`) | the same, with the loads and stores of its two offsets apart |
| `ChannelProofs` | theorems about the channel, and that it implements `Stream` |
| `Tokens` | the generator's recipes, what is made by them, and the tokens of an archive |
| `Tokenizing` (extends `Tokens`) | how the tokens are found: chunks, gaps, forward and reverse recipes, nested archives |
| `Generator` (extends `Tokens`) | the pipeline of workers over a working folder |
| `MCGenerator` (extends `Generator`, `Tokenizing`, `DeltaFolder`) | a handful of archives, tokenized by `Tokenize`; and an instance of `Deltas`: `machine` says which of the two runs |
| `GeneratorProofs` | theorems about the pipeline and the diff it makes |
| `DeltaFolder` | what `CreateDeltas` leaves in the working folder and the catalog, and promises of both |
| `Deltas` (extends `DeltaFolder`) | the parallel loop of `CreateDeltas` and its tools |
| `DeltasProofs` | theorems about the deltas |

The operators whose comment begins with *a slip* are wrong variants of the
definition that follows: each stands for a plausible mistake in that code and is used by nothing;
putting it in the place of the definition violates the property that
`PROJECT.json` names for it.

### Kitchen

Variables carry the names of the members. `make_dependency_ready` is recursive:
its frames are the `stack`, a frame being `[item, book, tried, recipe, pos,
parts]` (which cookbook is searched, which of its recipes were tried, and how
far the ingredients of the current one were gathered), and `pc` says where the
running call stands (`request` and `idle` outside of the recursion). `already_using` lives
for one request, as in the code. An action stands for the code between two
decisions: `AnswerAvailable`, `TakeFromPantry`, `AnswerAlreadyUsing`,
`ChooseRecipe`, `NeedIngredient`, `GotIngredient`, `Prepare`, `PrepareThrows`
and so on, in the order of the source. The client's operations
(`AddPantry`, `AddRecipe`, `RequestItem`, `WriteItem`, ...) happen between
calls, because each takes `m_item_request_mutex` or is used by one thread.

Abstractions: an item is an opaque value (partial matching is in `Items`), its
bytes are not modelled (they are in `Readers`), a recipe is its result, its
ingredients and one of three kinds (`slice`, `parts`, `codec`) that decide the
outcome of `prepare`: whether the result can be read at random, must be staged
first, or throws. The order in which recipes and requests are taken is left
open, since it depends on hashes.

### Items, DiffFile, LegacyFile, Sessions

A definition is a length, hashes by algorithm, and names. A hash is the content
itself (no collisions), so that every comparison of the code has its answer;
`ItemLess`, `SameItem` and `Equivalent` are the three comparisons of the code
(`item_definition.cpp:17`, `:69`, `recipe.cpp:48`), each with what it ignores. A
cookbook's lookup has a recipe set for each hash of a result; a pantry finds by
any hash, then by name. `Makes` is what a kitchen with these archives can make,
by the search that `Kitchen` has in steps.

A diff file is the sequence of its sections (recipes, archives, assets,
remainder); `Serialized` and `Deserialized` translate the order of
`serializer.cpp` and `deserializer.cpp`, with what a definition loses on its way
(all hashes but sha256, all names). `write_diff` truncates the file first;
what it wrote may be cut short (its own exception) or damaged from outside.
Damage is only looked at in the assets and the remainder: recipes and header
have no checksum, and what a changed one then says is arbitrary.

`ReadLegacy` follows `deserializer.cpp`: recipes are put into `m_all_recipes`
in the order of the chunks, those on remainder and inline assets take a slot
that is filled when all is read (`PlaceInOrder`: each begins where the one
before it ended), and nested diffs are then read from a kitchen over what is
known, with names decorated by an index of the shared alias map.

A session is one action per call of the interface. Abstractions: the type table
and the numbers of recipe types, the order of nested archives (as inserted), and
`m_payload`. A create session is left alone while an apply session that does not
share its archive is open (they do not meet). Inline assets and remainder are
set once. `NamesMayClash = FALSE` keeps two top-level legacy diffs out of one
kitchen (section 5). Of one content all definitions carry the same hashes.

### Readers

A prepared item is a tree: readers and streams (zlib, zstd) are leaves, slices
and chains are made as `slice_recipe` and `chain_recipe` make them. A client
reads it at random (`reader.cpp`, `io_device_view.h`: a flat list of views) or
from start to end (`basic_reader_wrapper`, `chain_reader`, the decompressing
readers, `skip_by_reading`, `writer.cpp`'s copy), by any sequence of calls, also
past the end. A stream is its bytes and when its reader stops: `trailer` says
whether the end of a zlib stream is seen with the last byte or after it; zstd
gives 0 bytes past its end, zlib throws. Items are in range: a slice lies in
what it is a slice of, no length is 0 (`WholeTo`). Where the code recurses, through
the items of an item or the readers of a chain, the model has a function for each
depth of nesting (`MakeReaderTo`, `ReadTo`, `SkipTo`), built from that for the depth
below; `Depth` is the deepest that is looked at. A loop is a function of the number
of its turns (`ReadFromPart`, `SkipBlock`, `SkipPart`, `CopyBlock`). `Chunk = 2`
stands for the 32 KB buffers of skip and copy. A reader that has thrown or hangs is not used again, which is
why the model may stop.

### Codec, CodecReading, CodecReaders, CodecWriting, CodecWriters

`Codec` is the only module about code that is not in the repository. A call of
`deflate()`, `inflate()`, `ZSTD_compressStream2()` or `ZSTD_decompressStream()`
eats some input and gives some output until one of them is used up; which of the
two, and how much of it stays inside, is left open (`Work`), as is what zstd says
it would like next. A coding says how many bytes can have come out when so many
went in. What the callers depend on is stated with care: when a call reports the
end, when it says that it cannot go on (`CannotGoOn`), what it does after the end.

A step of `CodecReaders` and `CodecWriters` is one turn of a loop, that is one
call of the library with what follows it. Bytes are counted. `z` (a reader's
`coder`) is the library's stream, `avail_in` (`unread`) the input that was not
eaten; a reader has its call
(`asked`, `got`, `last_ret`, `retry`), a writer what it handed on (`handled`,
`inner`) and whether that was always the next bytes of the stream (`intact`):
`handle_output()` takes them from the front of `m_output_data`, which has only
what the last call gave. An inner reader gives its input in any portions, an
inner writer may throw at any call. Dictionaries are left out, and so are failures of
the libraries other than those the code can provoke.

### CpioFormat, Recompress

A file is an *image*: which header and which payload begin at which offset, and its
length. `Put` lays out a member as `cpio_file::write` does, `ReadFile` reads one
as `try_read_new_ascii_file_entry` does, from the offsets alone, so that a
padding computed differently on the two sides shows. A file cut short has a
smaller size and the same offsets. `Word` stands for 2^32, `NameLength` gives the
length of a name (the digits and the other fields of a header are left out).

`Recompress` follows `swu_cmd`: one action for reading, one per image, one for the
description, one for signing, one for writing. What the tool prints, and the
temporary files, are left out; what they would hold is the payload itself.
`Plain` and `Gzip` are the two codecs, of which `CodecWriters` says that they
pass on whole streams. The signing command does its work or fails. An exception
of the library aborts the process (`phase = "aborted"`), one of the standard library
ends it (`"failed"`).

### Channel

The `k`-th byte of the output is the number `k`, so order, loss and invention
of bytes are seen at once. The mutex is held over the steps between its
acquisition and release; a waiter tests its predicate with the mutex and keeps
it until it sleeps (`TestForRoom`, `Sleep`), so that signals given without the
mutex can fall between. Both offsets are read without it in `read_some`
(`writer_to_reader_channel.cpp:25`): `TornChannel` takes the two loads, and the two
stores of `shift_buffer`, apart, end before start; `Channel` keeps each pair together. A read of one byte is
not hurt by that; one of more gets bytes that are not there (`channel_torn`), and
then the offsets cross and `shift_buffer` copies a size below zero, so that nothing
is claimed of what comes after. Other orders that a compiler might choose, and a
`flush` torn by a copy, are not modelled.

### Slicer

`pc` gives the place of every thread; a worker is the pair of its item and the
call of `resume_slicing` that started it. Counters and `m_state` change where
the code changes them, without the mutex where the code does so; the waits on
`m_state_cv` are split into test and sleep as in the channel. The two counters
that one worker changes next to each other change in one step: no thread looks
at both. The history variables `requests` and `fetches` count, for each slice,
what the client asked for and got; it fetches at most what it requested.
`Needs` gives the slice that a worker fetches to make its reader
(`prepared_item.cpp:147`). What is read of `m_state` and what is done then are
steps of their own, for other threads may come between: the test for cancelled
and the store of running (`Resume`, `ResumeRuns`), the test for running and the
store of paused (`Pause`, `PauseStores`), and of a worker the test of `m_state`,
the taking of its slices and the look-up of its item (`Admit`, `Take`, `LookUp`).
`resume_slicing` clears `m_item_to_slice_prepared` in `ResumeStarted`; a worker
that looks its item up later gets a null pointer (`prepared_item_to_slice` has the
workers that did not), and `MakeReader`, which uses it, ends the process: no thread
takes a step then (`Alive`). The other thread may cancel at any time, again and
again. The map operations of two threads that race (`slicer.cpp:336`, `:339`) are
taken to happen one after the other: what a broken `std::map` does is not
modelled. Bounds: `MaxRounds` calls of `resume_slicing`, `MaxRequests` requests of
a slice. `Items` is finite: they are the keys of a `std::map`.

### Tokens, Tokenizing, Generator

An archive is a short sequence of blocks; an item is its content, since items are
equal when their hashes are. `Formats` says for each archive what its loader
reads (type and chunks), `Unzip` what a zipped item holds and `Levels` which of
them a zlib level makes again. Everything after that is translated: gaps and
their alignment (`Align` stands for 1024, `MaxGap` for 10 MB), all-zero chunks,
payloads, forward and reverse recipes, nested archives. A name is its parts; the
wildcard class of a name is all that plans look at. What can be made of a stock
by recipes is `Made`, as many rounds of them as there are recipes.

`Generator` does not look into an archive: it takes from `TokensOf` what
tokenizing makes of one, and assumes what tokenizing promises
(`GeneratorAssumption`, `Whole`): recipes are true; what is known to be in an
archive comes out of it by the reverse recipes; forward recipes make the items
they are for out of such items. `MCGenerator` gives it `Tokenize` for
`TokensOf`, so that TLC evaluates the promise on what the code's algorithm makes
of every archive of the run, also of those with gaps, with nested and zipped
content, and where tokenizing throws. The two lists that `CreateDiffRecipes`
sorts are ordered by length, as both comparisons do first; of items of one length
any fixed order will do.

`Generator` runs the actions of `ExecuteTasks` in their order. Tokenizing is two
parallel workers over a folder each, with the steps between which a crash leaves
something: the hash cookie, the JSON file and its cookie. Tokens of the target may
be handed in (`TokenizeArchives.cs:185`, `:216`): they are written over the JSON that
is there, and are taken to be what tokenizing makes of that archive. `Cancel` and `Crash`
come anywhere; the next run uses the folder. Of each planned item `CreateDeltas`
makes one delta or none: that it may be trusted is `Deltas`. Abstractions: JSON
texts; a delta's length; bspatch and zstd deltas as one kind; the working folder
is kept (`KeepWorkingFolder`).

### Deltas

A body of `Parallel.ForEach` is a sequence of steps `plan`, `builder`, `tool`,
`kill`, `move`, `judge` over the files of one target item. A tool writes the
temporary file in the meantime, exits well, badly or not at all, and may leave no
file; the wait ends by exit, time or cancellation. A crash ends bodies and tools
and keeps the folder. `deltas`, `temps` and `bad` are the files under the three
names; a file has a size and whether it is whole. The size of an output is any
of `DeltaSizes`, for each file and each time.

## 3. Runs

| run | checks | instance |
|---|---|---|
| `kitchen_session` | `SelectedWellFounded`, `PlanComplete`, `OutcomeAccounted`, `NeverCrashes`, `DroppedRequestsAreFetchable`, `ProcessReturns` | 4 items, 5 recipes in circles of two, 3 archives to choose from, nothing throws or is mocked |
| `kitchen_layered` | `IInv`, `UnreachableIsUnderivable`, `DerivesOnlyDerivable`, `ResultsStable` | 5 items, 6 recipes without circles, two of which throw, a stream in a pantry, an empty item, a repeated ingredient, selection only, mocked items |
| `sessions` | `AppliesAlike`, `RecipesAreRight`, `OnlyWholeDiffsAreRead`, `LegacyTargetsAreMade` | 5 client recipes (three of them refused at one point or another), one diff file, 3 legacy files of which one nests two more, 1 nested archive, 2 archives in a kitchen |
| `native_io` | `ReadsTheContent`, `ReadsTheStream`, `WritesTheStream`, `UpdateIsSound`, `CallsReturn`, `EveryReadReturns`, `DestructorEndsAfterLastByte` | one machine at a time. Items: 877 items: 4 leaves, their slices, chains of two and three, slices of chains, chains of slices of chains (`Depth = 4`); calls of 1, 2, 3 and 5 bytes. Codecs read: inputs of 2 and 3 bytes, announced as more, as less and as they are, with a header or none; buffers of 1 and more, portions of up to a block. Codecs write: an input of 3 bytes and up to 2 behind it, in pieces of every size, from which much comes at once at the end or on the way; an output buffer that is filled more than once. The tool: 48 updates (images named once, twice, not there, not compressed, two members of one name; with and without a signature; a group without images before the last entries), whole and cut; signing not wanted, working, failing. The channel of a patch, its offsets seen apart: buffer 2, 7 bytes made and 4 expected, reads of 1 byte (larger ones: `channel_torn`) |
| `channel_stream` | `IInv` (with `DeliversInOrder`), `ImplementsStream` | buffer 3, 6 bytes made and 5 expected, chunks and reads of 1, 2 and 4, failing, flushing, spurious wake-ups, offsets seen together |
| `slicer_control` | `CountersCover`, `PausedIsQuiet`, `OneProducer`, `DestructorEnds` | 2 items, 3 offers of 2 slices, 2 rounds, 2 requests of each slice, pausing, failing, cancelling at any time and again |
| `slicer_fetch` | `NoOverlap`, `NoRequestLost`, `ItemFoundBeforeCleared`, `FetchEnds` | 2 items, one made from a slice of the other, 6 offers of 4 slices that overlap in every way, 1 round, 2 requests of each slice, no cancelling or failing |
| `generator` | `TokensAreOfTheArchives`, `StagesAgree`, `DiffRebuildsTarget`, `CarriesNothingOfTheSource`, `DeltasAreWhole`, `RecipesAreUsable`, `CatalogIsBest`, `DeltasAreFinal`, `RunEnds` | one of two. The pipeline: 6 pairs of archives of 3 to 10 blocks, 2 runs in a folder, every outcome of the deltas. `CreateDeltas`: 2 target items with 3 and 2 planned sources (too large, identical, worth it), 2 tools, deltas of 0 to 3 bytes of items of 2 and 3, 2 runs |
| `channel_cancel` | `DestructorEnds` (violated) | section 5 |
| `channel_torn` | `DeliversInOrder` (violated) | the channel of `native_io`, with reads of 1 and 2 bytes; section 5 |
| `slicer_cancel` | `ItemFoundBeforeCleared` (violated) | 1 item, 1 round, cancelling; section 5 |
| `sessions_same_length` | `RecipesAreRight` (violated) | section 5 |

The bounds are the smallest at which each case of the code occurs: two
cookbooks and pantries beside the kitchen's own (a search goes on in the next
one), circles of two and ingredients used twice; chunks and reads below, at and
above the size of the buffer, and enough bytes to shift it twice, and to fill
it again after the last expected byte; two workers at once (of two items, or of
two rounds while the first one is paused). A nested diff in the assets and one in
the remainder of the same legacy diff, and items with one hash, two, and none that
the file keeps. Slices that end within, at and after a part, chains in chains,
streams at the start, in the middle and at the end of a chain, and reads that
end before, at and after all of these boundaries. Archives with a gap at the
start and at the end, longer than a chunk of a gap may be and not aligned, chunks
that overlap, nested file systems that can and cannot be zipped again, source and
target swapped and equal. The five machines of `native_io` share no
state, nor do the two of `generator`, so that their states add up.
Two runs are enough for what one leaves and the next
finds: a third meets no state of the folder that a second does not.

Deadlock checking is off where the client may stop, a run may be the last, or
the system has ended.

Fairness is that of threads that are scheduled: `Kitchen` assumes only that a
call, once made, goes on (it is sequential code); `Channel` and `Slicer` that
each thread takes its next step when it can (in `Slicer`, until a worker has ended
the process; whoever is in `cancel_slicing` gives its signal); `Deltas` that bodies go on and that
timeouts come (the step that stops waiting is the body's own), but of no tool
that it ends; `CodecReaders` and `CodecWriters` that a call, once made, goes on.
Nothing forces the client to make another call, bspatch to flush, a
wait to end without a signal, or another thread to cancel. Liveness that would
need any of these is not claimed. The other modules are sequential code between
calls, and have no liveness to state.

What liveness leaves out: `EveryReadReturns` is checked where the patch does not
fail, `FetchEnds` where no worker fails and nobody cancels, `CallsReturn` where a
stream is as long as announced, and `DestructorEnds` of the slicer where no worker
fetches the slice of another; in the other cases they do not hold (section 5).

## 4. Theorems

All theorems are for arbitrary constants that satisfy the stated assumptions
(`KitchenAssumption`: kinds, results and ingredients are what their names say;
`SlicerAssumption`: likewise for offers and sizes, with finitely many items;
`ChannelAssumption`: sizes are natural numbers, the buffer holds at least one
byte; `DeltasAssumption`: plans name items, lengths are natural numbers;
`GeneratorAssumption`: what tokenizing promises of an archive;
`CodecReadersAssumption`, `CodecWritersAssumption`: codings are what `Codec` says
they are, what is compressed is no longer than its coding, and buffers and pieces
are not empty; `RecompressAssumption` and `ReadersAssumption`: under *Recompress tool*
and *Readers* below), which TLC evaluates in the runs.

*Derivation* (`KitchenProofs`): `Soundness`, what is obtained is in every
set that holds the stock and is closed under the recipes; `NothingLost`.

*Kitchen* (`KitchenProofs`): `Invariance` of `IInv`, from
which `TypeCorrect`, `SelectionWellFounded` and `Stability` follow, and
`Implementation`: the kitchen implements `Derivation`. Why `IInv` is needed: that
selections have no circles does not follow from the act of selecting, but from
the stack. Each frame's item is in the making: marked in `already_using`, not
available and not stocked (`StackInv`), so it occurs once on the stack and
cannot become ready below; a selected recipe's ingredients all have entries
(`SelectedInv`), and the item selected last has none, so no earlier selection
needs it. `TopInv` ties the item that is entered or answered to the ingredient
its caller waits for.

*Kitchen*, its answers. `OutcomeTrue` holds in every use:
during a call the requests kept are those still to be tried and those found
unreachable, never both (`AccountInv`). The others state what they need of
the use: `kitchen_session` with `ProcessModes <- AllModes` violates `PlanComplete`
and `NeverCrashes`, and with `Unpreparable = {1}` it violates `DroppedRequestsAreFetchable`. `PlansAreComplete`
needs `NothingMocked`: then every entry of `m_ready_items` is stocked or has a
selected recipe (`EntriesInv`), because an entry is only made for an item that
is taken from a pantry, prepared, or already available. `CrashFree` and
`DroppedAreReady` need `AlwaysPrepares` (the default arguments, and no
`prepare()` that throws): then every entry can be read, every selected item has
one and every frame has gathered only such (`PreparedInv`). A request is dropped
when the search answers yes; that the answer is about that request is
`AskedInv`, which follows it from the first frame of the stack to its last step.
`UnreachableTrue` needs recipes without circles (`Ranks # {}`: a rank that falls
from a result to its ingredients; `kitchen_session` violates it). Its invariant follows the search: `already_using`
holds only what is in the making, was made or was refused; every recipe and
cookbook that a frame has left behind could not have made the item, so that an
item refused with all of them tried is out of reach; the rank excludes the one
other ground for a refusal, an ancestor that is in the making. What was out of reach
stays so during a call, because what a call puts into the pantry was obtained
already.

*Channel* (`ChannelProofs`), the two offsets loaded and stored together: `Invariance` of `IInv`,
`InOrder`, `Signals` and `Implementation` of `Stream`. `DeliversInOrder` is not
inductive: the copy is right because what `read_some` found without the mutex is
still there when it copies (`FoundInv`: only the reader takes bytes out, and a
shift keeps the difference of the offsets), because the offsets differ by the
bytes written and not read (`OffsetsInv`), and because the buffer holds exactly
the next bytes (`ContentInv`). `NoMissedSignal` needs that a sleeper fell asleep
with its predicate false under the mutex (`SleepInv`, `MutexInv`).

*Slicer*, what is requested (`SlicerProofs`): `OnePass`, that `NoOverlap` always
holds, for any offsets and lengths, zero included. `request_slice` compares a new
slice only with the entry at or after its offset and the one before;
`NeighboursSuffice` shows that this is enough when the slices so far are
separate, so separateness together with the types of the two maps is inductive.
`OneProducerOfEach` builds on it, if offers have a length (`LengthsPositive`: of two
empty slices at one offset only the first would be inserted): a slice is inserted
only with its first request, at one item and one offset (`Single`), and a worker
takes all of an item's slices from it when it is told to start and has none before
(`Fresh`); so while its requests are counted it is at one item or with one worker,
and nowhere otherwise (`PlacedInv`). `RequestsKept` needs `~MayPause`: while the
requests of a slice are counted none of it is stored, and when its worker stores
it, it stores it as often as was requested; no new request comes after slicing
was resumed, because nothing stores paused (`NeverPauses`, `AccountInv`). With pauses a slice can be requested while it is
stored, and `slicer_fetch` with `MaxRounds = 2` violates `NoRequestLost`
(section 5).

*Slicer*, the counters: `TypeCorrect`, `CountersTrue`,
`PauseIsQuiet`, for any number of items and rounds. The counters change without
the mutex, each worker by one at each of its turns, and `resume_slicing` counts
all the threads that it is about to start; a worker's count and its place change
together, so `CountersCover` needs only that the threads of a call to come are
nowhere (`Unstarted`). That also shows that no counter, though unsigned, is taken
below 0. `PausedIsQuiet` is not inductive. A worker at rest goes on only when
`m_state` is not paused, but a worker that starts does not look at it again:
quiet needs that nobody starts once `resume_slicing` has returned and slicing was
not cancelled (`NoneStarting`), which is what its wait is for. A cancel may be
overwritten, but only by a call that found slicing not cancelled before
(`NotCancelled`), when nobody was starting. Then
`pause_slicing` returns when the running count is 0, and the count covers the
active workers (`Quiet`). Each step of the system has one of a few shapes for a
worker and for the client (`WorkerGoes`, `ClientStep`), and the counters are
argued about by shape.

*Deltas* (`DeltasProofs`): `Invariance`, `TypeCorrect`, `Wholeness`, `Recipes`,
`Catalog`, `Finality`. A step of one body touches only its own file and its own
place (`FilesTouched`, `BodiesTouched`), so what holds of one call of a builder
(`CallInv`), of its best so far (`BestInv`), of the builders tried (`BuildersInv`)
and of the plans tried (`PlansInv`) is kept by the others, whatever the number of
bodies. `CatalogIsBest` is then what these say when every body is done.

*Generator* (`GeneratorProofs`), for all archives, plans, deltas and runs.
`TokensTrue` is the working folder: its invariant `FolderInv` says that a JSON
text that was finished is that of the archive whose hash is in the cookie, and
that a run past the cookie was given that archive; a crash leaves at most files
that were begun. The rest is about what the workers compute, so it rests on
lemmas about data: `MadeLeast` and `MadeClosed` (as many rounds as there are
recipes reach the least set closed under them: a round that adds nothing is the
last, and one that adds something uses one more recipe), `FlattenHolds` (each
of some sequences lies in the concatenation where the ones before it end),
`SortedItems` (`ByLength` has a list to choose). They are proved by the least
counterexample, since induction cannot be cited. `DiffRebuilds` then goes as the
diff is used: of the source, the inline assets and the remainder one makes what
the source is known to hold, the deltas, their targets, and what was needed;
so everything that the search covered and found no recipe for; and the forward
recipes of the target, which the search covered with their ingredients, make
the rest. It needs no hypothesis beyond `GeneratorAssumption`. `StagesDoAgree`
needs two, about the archives: `SourcesAreCut` and `NothingEmpty`. A source that
is a zipped file by itself, as well as an empty item besides a delta and one
needed item, make `CreateDiffRecipes` throw (section 5), and such pairs in
`MCGenerator` violate `StagesAgree`. `SourceIsNotNeeded` says of
`CarriesNothingOfTheSource` what holds of all archives: nothing that the search
leaves without a recipe can be made of the source. That the remainder as a whole
is nothing of the source is true of the run, but not of all contents: the
concatenation of two new items may happen to be an old one.

*Codecs* (`CodecProofs`). Its first lemmas
say of each of the library's calls what it can answer: that it
gives no more than its coding allows for what it has eaten, what it has done when
it reports the end, and when it can fail or give less than it has room for.
`StreamIsRead` and `StreamIsWritten` are then that `ReadsTheStream` and
`WritesTheStream` hold for every coding, every cut of the input, every buffer, and
whatever sizes were announced. Neither is inductive: both speak of the time
between calls, so their invariants say what is true at every turn of a loop. What was
read or handed over and not eaten is what the codec has in front of it
(`CodecInv`, `EatenInv`); what the codec gave is what the client or the inner
writer has, the unfinished call included (`CallInv`, `HandedOn`); and for each of
the four kinds, how far the codec may be. That a zlib decompressor does not throw
before its end rests on `buf_error` being given only with nothing to eat and nothing
to give: its input is then used up, so it is complete, and the end was reported
before. That a zstd decompressor never takes its own retry for failure rests on
the size that was declared: while less was given, the frame has not ended, so it asks
for more input, and there is some. With a wrong size only the part of the
invariant that does not need `Honest` is left.

*Recompress tool* (`RecompressProofs`), for all updates of any number of members and
images. `RoundTrip` is the format: members begin where the ones before them end
(`AllLaidOut`), at multiples of 4, so that the paddings found when reading, which
are computed from offsets, are those found when writing, which are computed from
sizes (`SamePadding`); read from the last member back to the first
(`ReadingComesTo`), the whole image gives all members, and an image whose end is
missing gives none, not even if only the padding behind the name of the trailer
is. The definitions that
go through members one by one are recursive functions, and that there are such
functions is proved first (`LayingExists`, `ReadingExists`, `LeavingExists`,
`ArchivingExists`). `UpdatesAreSound` is `UpdateIsSound`. It is not inductive, as most of
what it says is about the end: the invariant says member by member what the
tool has put there and that the rest is as it was (`AllKept`), that what the
archive says is in a name agrees with its members as long as that matters
(`ImagesInv`: the map has only the last payload of a name, which is what is
compressed for all of them), and that the entries passed have the hashes that
were kept (`ConfigInv`). All entries before the first group without images are then
passed because the groups lie one after the other. It rests on
`RecompressAssumption`: sizes fit into their 32 bits, gzip gives back what it was
given, and the description lists neither itself nor its signature as an image.

*Readers* (`ReadersProofs`): `ItemsAreReadAsTheyAre`, for items of any size, nested to
any depth, and any calls. `ReadersAssumption` says that slices lie in what they are
slices of, that nothing is empty (section 5), and that an item has some depth, which
may be any number. The argument goes along what is made. A view reads
the bytes that it covers; views in a row cover the bytes of all joined
(`CoversJoined`), `PartAt` finds the one that holds an offset, and the loop over them,
by induction on its turns, reads or takes just what was asked for: so a chained reader and
its slices are readers of the joined bytes and of a part of them (`ReadReaderIs`,
`SliceOfReaderIs`). For sequential readers `GoodTo` says, depth by depth, which
readers with which places read given bytes: a chain has read what lies before its current part and
`within` of that, the parts behind it are at their start, and none is empty or
at its end, so that it never meets what "shouldn't be possible"
(`chain_reader.h:92`). That reading, skipping and copying keep this, and give
what they should, holds at each depth if it does at the one below (`ReadsWellTo`,
`SkipsWellTo`, `CopyIsWhole`). Skipping by reading does not hang within the stream, because
each block moves on. The inductive invariant `IInv` is then: the reader is the item's,
the sequential one is good and at its place, and the last call got what it should.
Induction is by the least counterexample, as for the generator, and the recursive functions
are first proved to exist.

Only model-checked: liveness and what depends on fairness (the prover has no
rule for it), so `ProcessReturns`, `EveryReadReturns`, `FetchEnds`, `RunEnds`,
`CallsReturn` and the ends of destructors; the channel with its offsets torn (`TornChannel`); `CarriesNothingOfTheSource`
as it stands; that `Tokenize` keeps the promise of `GeneratorAssumption`, and
the four properties of `Sessions`, whose definitions are recursive operators (what
archives make, nested diffs in legacy diffs), which the prover has no backend for.

## 5. Findings

In each of these runs TLC finds the violation of what a comment promises.

| run | what happens |
|---|---|
| `channel_cancel` | `cancel()` (`writer_to_reader_channel.h:43`) between the worker's test and its sleep is lost, the destructor never returns |
| `channel_torn` | `get_available_read()` (`writer_to_reader_channel.cpp:25`) loads the two offsets while the writer shifts them, and the check under the mutex (`:49`) compares with what is missing of the expected total: a read of two bytes hands on bytes that were never written |
| `slicer_cancel` | `cancel_slicing()` ends the wait (`slicer.cpp:273`) for workers that have yet to look up their item; the map is cleared (`:279`), `operator[]` (`:339`) makes a null entry and `:346` uses it |
| `sessions_same_length` | `m_ready_items` (`kitchen.cpp:152`) compares definitions by `operator<`, which ignores names, and the blobs of a legacy diff have a length and a name only: of two nested diffs with remainders of one length the second is made with the remainder of the first |

Modelling showed more places where a comment is not kept, or the code does what
it cannot mean to; the models contain the behaviour unless it says otherwise, but
no run is kept for it, and no property claims its absence:

- `kitchen.cpp:175`: `already_using` keeps items that failed only because an
  ancestor was in the making; a later ingredient or recipe of the same request
  takes them for impossible, and a request that can be made is reported
  unreachable, against `kitchen.h:91` (`kitchen_session` violates
  `UnreachableIsUnderivable`).
- `kitchen.cpp:228`: the recipe is selected before `prepare()` throws; the next
  call finds it and returns true, against `kitchen.h:109`, and nobody can fetch the
  item (`kitchen_session` with `Unpreparable = {1}` violates
  `DroppedRequestsAreFetchable`).
- `kitchen.cpp:168` and `:212`: selecting recipes only fills `m_ready_items`, from
  the pantries and with null pointers, against `kitchen.h:99-101`, and a later call
  dereferences one (`kitchen_session` with `ProcessModes <- AllModes` violates
  `NeverCrashes`).
- `recipe.cpp:48`: `operator<` compares `rhs_item` with itself, so that of two
  recipes of one kind with equal numbers and ingredients a set keeps the first.
- `prepared_item_lookup.h:36`: two legacy diffs added to one session use the same
  names for their blobs, and the pantry finds the one that comes first (`sessions`
  with `NamesMayClash = TRUE` violates `RecipesAreRight`).
- `standard/deserializer.cpp:206`: `set_remainder` called again leaves the pantry
  with two blobs of one name; the model sets it once.
- `reader.cpp:93` (sequential): `skip_by_reading` never ends when the stream does
  before it, which for zstd is every skip past the end.
- `chain_reader.h:92`: "shouldn't be possible", but an empty part of a chain that
  is read in sequence gets there, and an archive with a file of 0 bytes has one
  (`VerbatimPayloadArchiveBase.cs:107-110`). `WholeTo` keeps such items out: without
  that part of `ReadersAssumption`, and with `ReaderItem(<<>>)` among the leaves,
  `native_io` violates `ReadsTheContent`.
- `bspatch_decompression_reader.cpp:42`: a failed patch is only logged, its
  reader waits for ever.
- `slicer.cpp:157`: the count is taken down in a copy: slices requested twice
  stay in the store.
- `slicer.cpp:439`: a slice requested again while it is stored is not stored for
  the new request (`slicer_fetch` with
  `MaxRounds = 2` and `MayPause = TRUE` violates `NoRequestLost`).
- `slicer.cpp:232`: a worker's failure is only logged, and whoever fetches its
  slices waits for ever (`slicer_fetch` with `MayFail = TRUE` violates
  `FetchEnds`).
- `slicer.cpp:205`: a worker that fetches a slice of another item waits on
  `m_store_cv`, which cancelling does not signal, for a predicate that does not
  name `m_state`; `~slicer` joins it for ever (`slicer_control` with
  `Needs <- Chained` violates `DestructorEnds`).
- `slicer.cpp:246` and `:257`: `resume_slicing` stores running over a cancel that
  came after its test, and `pause_slicing` (`:301`, `:306`) paused: the cancel is
  lost, against `slicer.h:46`, "from any state to cancelled".
- `slicer.cpp:257` and `:361`: neither the store of running nor the end of a pause
  gives a signal: paused workers sleep on, and `resume_slicing` waits for them
  (`:291`), or sleeps when no thread is paused any more, against `slicer.h:38`;
  `:342`: the last start signal is given without the mutex and can be lost;
  `:447`: workers that ended still count as running, and `pause_slicing` waits for
  them, so that it need not return either.
- `slicer.cpp:336`: workers change `m_items_to_slices_requested` at the same
  time.
- `Diff.cs:251`: what a zipped source archive holds is not known by its forward
  recipes, so that the diff carries it; `ArchiveTokenization.cs:34-36` says what
  is in both archives is taken from the source.
- `CreateDiffRecipes.cs:224`: an empty payload, where there are deltas and exactly
  one other item is needed, makes a slice of the remainder of itself, and the
  constructor throws.
- `Diff.cs:224`: a source that is a zipped file by itself has no forward recipe;
  a target that needs it puts it among the items to extract from the target, and
  `CreateDiffRecipes.cs:143` throws.
- A crash between the creation of `ArchiveHash.Cookie` and its writing
  (`TokenizeArchives.cs:139-155`) makes every later run refuse the folder.
- `DiffBuilder.cs:561` deletes a folder that is not empty without saying so, which
  fails after the diff was written; not modelled.
- `zlib_compression_reader.cpp:116`: input that was announced and does not come
  is asked for again and again (`native_io` with `EveryReadReturns` of
  `CodecReaders` for all streams, also those that are not `Honest`, is violated).
- `zstd_compression_reader.cpp:42`: the rest of a frame that does not fit in the
  buffer of one call makes the reader throw, and a call past the end begins
  another frame.
- `zlib_compression_writer.cpp:141`: when the inner writer throws, what it should
  have got is not counted as passed on, and the destructor passes on more bytes
  than the buffer holds.
- `zlib_decompression_reader.cpp:59`: `max` is not called; the limit is its address.
- `cpio_file.cpp:253`: a payload of 4 GB and more is written whole under a header
  with its size cut to 32 bits.
- `cpio_archive.cpp:41`: the payload of a member that was added cannot be got.
- `cpio_archive.cpp:20`: `get_file_index` compares a name with itself, so that
  `has_file` is true of any name; an update without a signature is "signed" by
  setting a member that is not there, and has none (`recompress_tool.cpp:511`
  says that it sets it; the branch at `:520` that adds one is never taken).
- `swupdate_helpers.cpp:89`: "Found an entry that wasn't compressed... skipping",
  but it is listed like the others; decompressing it throws what `main` does not
  catch (`recompress_tool.cpp:83`).
- `swupdate_helpers.cpp:60`: a group without images ends the search; an image
  that is also named behind it keeps its old hash there.
- `cpio_file.cpp:367`: `get_inode` throws when `stat` has succeeded; `makecpio`,
  which calls it for every file, and the branch at `recompress_tool.cpp:522`
  cannot work on Linux.
- `recompress_tool.cpp:268`: the destination is opened before signing, which may
  fail, and loses what it had; a destination that is the source is lost.
- `apply_session.cpp:36`: a missing file throws before the handler of the C
  interface is entered; not modelled.

## 6. Not modelled

- File formats of the generator (cpio, ext4, swu, tar, gz headers): readers of
  headers and offsets. What they tell the generator is the constant `Formats`. Of
  the native cpio code, `insert_file_at`, the digits of a header and the fields that
  are only kept.
- What codecs (bsdiff, zlib, zstd) compute, their dictionaries, and bsdiff's own
  stream interface; what a patch makes is an external function. The search for the
  level of a compressed file (`diff_api.cpp:22-182`).
- The legacy serializer and the dump tools, which only print; command lines,
  demonstrations, scripts, build files and `src/preview`. Of the recompress tool,
  the command `folder` and signing through WSL.
- `set_source()` and `add_payload()` of the create session, user-supplied readers
  and writers of the C interface: they store or forward what they are given. The
  one-shot `legacy_apply_session` is the order request, process, resume, write,
  cancel over a fresh kitchen, which the kitchen's runs include.
- Recipe type numbers and the type table of a file; header fields and their
  checks; a file whose recipes were changed.
- Two client threads on one kitchen (`save_selected_recipes` takes no mutex),
  which the sessions do not have.
- `fetch_slice_kind` readers of prepared items, which at this commit no recipe
  makes.
- Widths of integers other than the 32-bit sizes of cpio: offsets are natural
  numbers. No computation here comes near 64 bits for a file that exists; the
  32-bit lengths that zlib's interface has are not reached by the buffers in use;
  the counters of the slicer, which are unsigned, are proved never to be taken below 0.

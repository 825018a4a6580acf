----------------------------- MODULE Tokenizing -----------------------------
(***************************************************************************)
(* ArchiveUtility: how the tokens of an archive are found.  It is cut into *)
(* chunks (the files that its format shows, the headers and padding around *)
(* them, and gaps between them), is the chain of these, and takes in the   *)
(* tokens of nested archives.                                              *)
(***************************************************************************)
EXTENDS Tokens

CONSTANTS
    Formats,     \* archive |-> [type, chunks]: what TryTokenize() reads; a
                 \* chunk is [offset, length, name], <<>> if not a payload
    Align,       \* 1024, to which gaps are aligned
    MaxGap       \* 10 MB, the size of the largest chunk of a gap

TokensAssumption == Align \in Nat \ {0} /\ MaxGap \in Nat \ {0}

ASSUME TokensAssumption

\* A set in some order.
Listed(S) == FoldSet(LAMBDA x, list : Append(list, x), <<>>, S)

-----------------------------------------------------------------------------
(***************************************************************************)
(* Chunks and the gaps between them                                        *)
(***************************************************************************)
\* The chunks that the format shows, each a slice of the archive.
ReadChunk(t, c) ==
    LET item == Part(t.archive, c.offset, c.offset + c.length)
        cut == AddReverseRecipe(t, Slice(item, c.offset, t.archive))
    IN IF c.name = <<>> THEN cut ELSE AddRootPayload(cut, c.name, item)

ReadChunks(archive) ==
    FoldLeft(ReadChunk, NoTokens(archive), Formats[archive].chunks)

\* OrderBy() is stable; of two chunks at one offset the empty one was found
\* first.
ByOffset(chunks) ==
    LET order == SortSeq([i \in DOMAIN chunks |-> i],
                    LAMBDA i, j :
                        \/ chunks[i].offset < chunks[j].offset
                        \/ chunks[i].offset = chunks[j].offset /\ i < j)
    IN [i \in DOMAIN chunks |-> chunks[order[i]]]

GetChunksFromRecipes(t) ==
    LET slices == {r \in t.recipes : r.kind = "slice"
                                     /\ r.items[1] = t.archive}
    IN SortSeq(Listed({[offset |-> r.numbers[1], item |-> r.result] :
                           r \in slices}),
               LAMBDA c, d :
                   \/ c.offset < d.offset
                   \/ c.offset = d.offset /\ Len(c.item) < Len(d.item))

End(chunk) == chunk.offset + Len(chunk.item)

\* A gap is cut at its first aligned offset, then into chunks of MaxGap, all
\* of which get the offset of the first: the stable sort keeps their order.
AlignedBegin(begin, end) ==
    LET next == (begin \div Align + 1) * Align
    IN IF begin % Align # 0 /\ next <= end THEN next ELSE begin

Pieces(begin, end) ==
    LET count == (end - begin + MaxGap - 1) \div MaxGap
        Upto(i) == IF begin + i * MaxGap < end THEN begin + i * MaxGap
                   ELSE end
    IN [i \in 1 .. count |->
           [offset |-> begin, begin |-> begin + (i - 1) * MaxGap,
            end |-> Upto(i)]]

MakeChunksForGap(begin, end) ==
    LET aligned == AlignedBegin(begin, end)
    IN (IF aligned = begin THEN <<>>
        ELSE <<[offset |-> begin, begin |-> begin, end |-> aligned]>>)
       \o Pieces(aligned, end)

Gaps(archive, chunks) ==
    LET n == Len(chunks)
        Expected(i) == IF i = 1 THEN 0 ELSE End(chunks[i - 1])
        Begin(i) == IF i > n THEN Len(archive) ELSE chunks[i].offset
    IN FlattenSeq([i \in 1 .. n + 1 |->
           IF Expected(i) < Begin(i)
           THEN MakeChunksForGap(Expected(i), Begin(i)) ELSE <<>>])

\* CreateItemForGap()
AddGap(t, gap) ==
    LET item == Part(t.archive, gap.begin, gap.end)
        zeros == IF ToSet(item) \subseteq {Zero}
                 THEN AddForwardRecipe(t, Recipe("all_zeros", item, <<>>, <<>>))
                 ELSE t
    IN AddReverseRecipe(zeros, Slice(item, gap.begin, t.archive))

\* HandleGapChunks(): the archive is the chain of its chunks and gaps.  An
\* archive without chunks gets no recipe; one whose chunks are empty or overlap
\* throws.
HandleGapChunks(t) ==
    LET chunks == GetChunksFromRecipes(t)
        gaps == Gaps(t.archive, chunks)
        cut == FoldLeft(AddGap, t, gaps)
        all == ByOffset(chunks \o [i \in DOMAIN gaps |->
                   [offset |-> gaps[i].offset,
                    item |-> Part(t.archive, gaps[i].begin, gaps[i].end)]])
        items == [i \in DOMAIN all |-> all[i].item]
        chain == Recipe("chain", t.archive, <<>>, items)
    IN IF chunks = <<>> THEN t
       ELSE IF \/ End(Last(chunks)) = 0
               \/ Len(FlattenSeq(items)) # Len(t.archive)
               \/ SelfReferential(chain)
       THEN [t EXCEPT !.thrown = TRUE]
       ELSE AddForwardRecipe(cut, chain)

-----------------------------------------------------------------------------
(***************************************************************************)
(* GzArchive                                                               *)
(***************************************************************************)
\* A source is only ever unzipped.  A target is zipped again, if there is a
\* level of compression that gives the very same file.
GzTokens(zipped, name, useCase) ==
    LET unzipped == Unzip[zipped]
        gz == IF useCase = "target" /\ zipped \in Levels
              THEN AddForwardRecipe(NoTokens(zipped),
                       Recipe("zlib_compression", zipped, <<1>>, <<unzipped>>))
              ELSE NoTokens(zipped)
        unzip == Recipe("zlib_decompression", unzipped, <<1>>, <<zipped>>)
    IN AddRootPayload(AddReverseRecipe(gz, unzip), Front(name), unzipped)

-----------------------------------------------------------------------------
(***************************************************************************)
(* ArchiveLoader and nested archives                                       *)
(***************************************************************************)
IsArchive(item) == item \in DOMAIN Formats \union DOMAIN Unzip

TypeOf(item) == IF item \in DOMAIN Unzip THEN "gz" ELSE Formats[item].type

\* TryLoadArchive() catches what Tokenize() throws, not what is thrown while
\* the format is tested: only formats that read a header test without
\* tokenizing.
Unloadable(item, t) == t.thrown /\ TypeOf(item) = "cpio"

ImportArchive(t, nested) ==
    [t EXCEPT !.forward = nested.forward @@ @,
              !.reverse = nested.reverse @@ @,
              !.recipes = @ \union nested.recipes,
              !.payload = @ \union nested.payload,
              !.thrown = @ \/ nested.thrown]

PotentialNestedArchives(t) ==
    {p \in t.payload : p.archive = t.archive
                       /\ Last(p.name) \in {"gz", "ext4", "cpio"}}

RECURSIVE Tokenize(_, _, _)

\* ProcessNestedArchives(): no use in a target that cannot be made from its
\* chunks.
ProcessNestedArchives(t, useCase) ==
    LET potential == PotentialNestedArchives(t)
        loaded == {p \in potential :
                      /\ IsArchive(p.item)
                      /\ TypeOf(p.item) = Last(p.name)
                      /\ ~Unloadable(p.item,
                                     Tokenize(p.item, p.name, useCase))}
        Import(u, p) == ImportArchive(u, Tokenize(p.item, p.name, useCase))
    IN IF useCase = "target" /\ t.archive \notin DOMAIN t.forward THEN t
       ELSE IF ~CanExtract(t, {p.item : p \in potential})
       THEN [t EXCEPT !.thrown = TRUE]
       ELSE FoldLeft(Import, t, Listed(loaded))

Tokenize(item, name, useCase) ==
    LET t == IF item \in DOMAIN Unzip THEN GzTokens(item, name, useCase)
             ELSE ReadChunks(item)
        cut == HandleGapChunks(t)
    IN IF cut.thrown THEN cut ELSE ProcessNestedArchives(cut, useCase)

=============================================================================

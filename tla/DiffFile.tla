------------------------------ MODULE DiffFile ------------------------------
(***************************************************************************)
(* Archives (native/diffs/core: archive, cookbook, pantry and their        *)
(* lookups), and how they are written to a diff file and read back         *)
(* (native/diffs/serialization/standard).                                  *)
(***************************************************************************)
EXTENDS Items

CONSTANT Patched   \* external: what the delta d makes of the basis b, <<d, b>>

-----------------------------------------------------------------------------
(* Cookbooks.  The lookup has a recipe_set for every hash of a result.     *)

EmptyBook == [recipes |-> {}, lookup |-> {}]

Entry(algorithm, content, recipe) ==
    [algorithm |-> algorithm, content |-> content, recipe |-> recipe]

RecipesAt(book, algorithm, content) ==
    {e.recipe : e \in {x \in book.lookup : x.algorithm = algorithm /\ x.content = content}}

\* A std::set takes nothing that is equivalent to what it holds.
CanInsert(r, set) == \A s \in set : ~Equivalent(r, s)

InsertRecipe(book, r) ==
    [recipes |->
        IF CanInsert(r, {s \in book.recipes : SameItem(s.result, r.result)})
        THEN book.recipes \union {r} ELSE book.recipes,
     lookup |->
        book.lookup \union
            {Entry(a, r.result.hashes[a], r) : a \in
                {h \in DOMAIN r.result.hashes :
                    CanInsert(r, RecipesAt(book, h, r.result.hashes[h]))}}]

\* Recipes for items of length 0 are left out.
AddToBook(book, r) == IF r.result.length = 0 THEN book ELSE InsertRecipe(book, r)

\* The recipes of the first hash of the item that has any.
Offered(book, i) ==
    LET known == SelectSeq(Algorithms, LAMBDA a :
                     /\ a \in DOMAIN i.hashes
                     /\ RecipesAt(book, a, i.hashes[a]) # {})
    IN  IF known = <<>> THEN {} ELSE RecipesAt(book, known[1], i.hashes[known[1]])

-----------------------------------------------------------------------------
(* Pantries.  What is stored first under a hash or a name stays.           *)

EmptyPantry == [hashed |-> {}, named |-> [n \in {} |-> <<>>]]

Store(pantry, i, content) ==
    [hashed |-> pantry.hashed \union {<<a, i.hashes[a]>> : a \in DOMAIN i.hashes},
     named |-> pantry.named @@ [n \in i.names |-> content]]

HashesFound(pantry, i) == {<<a, i.hashes[a]>> : a \in DOMAIN i.hashes} \intersect pantry.hashed

\* By a hash, or else by a name, whatever the length and the hashes.
FoundIn(pantry, i) ==
    HashesFound(pantry, i) # {} \/ i.names \intersect DOMAIN pantry.named # {}

FetchedFrom(pantry, i) ==
    IF HashesFound(pantry, i) # {}
    THEN ContentOf(i)
    ELSE pantry.named[CHOOSE n \in i.names : n \in DOMAIN pantry.named]

-----------------------------------------------------------------------------
(* Archives.                                                               *)

ZeroItem == Unnamed(0, NoHashes)

EmptyArchive ==
    [target |-> ZeroItem, source |-> ZeroItem, book |-> EmptyBook,
     pantry |-> EmptyPantry, nested |-> <<>>]

StoreItem(archive, i, content) ==
    [archive EXCEPT !.pantry = Store(@, i, content)]

AddRecipe(archive, r) == [archive EXCEPT !.book = AddToBook(@, r)]

\* m_nested_archives is a map: under one key the first stays.
HasNestedArchive(archive, key) == \E n \in ToSet(archive.nested) : n.key = key

AddNestedArchive(archive, key, nested) ==
    IF HasNestedArchive(archive, key)
    THEN archive
    ELSE [archive EXCEPT !.nested = Append(@, [key |-> key, archive |-> nested])]

OwnStock(archive) == [book |-> archive.book, pantry |-> archive.pantry]

\* A slip: the nested archives are left out.
StockOfOne(archive) == <<OwnStock(archive)>>

\* What stock_kitchen() adds: cookbook and pantry, then the nested archives'.
RECURSIVE Stock(_)
Stock(archive) ==
    <<OwnStock(archive)>> \o
        FlattenSeq([k \in DOMAIN archive.nested |-> Stock(archive.nested[k].archive)])

-----------------------------------------------------------------------------
(* What a kitchen with these stocks finds and makes of it.                 *)

FoundBy(stocks, i) == \E k \in DOMAIN stocks : FoundIn(stocks[k].pantry, i)

\* The first pantry that finds the item decides.
Fetched(stocks, i) ==
    LET k == Min({j \in DOMAIN stocks : FoundIn(stocks[j].pantry, i)})
    IN  FetchedFrom(stocks[k].pantry, i)

RecipesOf(stocks) ==
    UNION {{e.recipe : e \in stocks[k].book.lookup} : k \in DOMAIN stocks}

MadeFrom(stocks, made, i) ==
    \E k \in DOMAIN stocks :
        \E r \in Offered(stocks[k].book, i) : ToSet(r.items) \subseteq made

RECURSIVE Closure(_, _, _)
Closure(stocks, items, made) ==
    LET more == {i \in items \ made : MadeFrom(stocks, made, i)}
    IN  IF more = {} THEN made ELSE Closure(stocks, items, made \union more)

\* Those of the requests that process_requested_items() makes.
Makes(stocks, requests) ==
    LET items == requests \union UNION {ToSet(r.items) : r \in RecipesOf(stocks)}
    IN  requests \intersect Closure(stocks, items, {i \in items : FoundBy(stocks, i)})

\* What a recipe makes of the contents of its items.  9 marks what is deflated.
Deflate(content) == <<9>> \o content

\* A slice that is not all there is refused: nothing is made.
SliceOf(content, offset, length) ==
    IF offset + length <= Len(content)
    THEN SubSeq(content, offset + 1, offset + length) ELSE <<>>

Produced(r, contents) ==
    CASE r.kind = "slice" -> SliceOf(contents[1], r.numbers[1], r.result.length)
      [] r.kind = "chain" -> FlattenSeq(contents)
      [] r.kind = "zlib_decompression" -> Tail(contents[1])
      [] r.kind = "all_zeros" -> [k \in 1 .. r.numbers[1] |-> 0]
      [] r.kind = "bspatch_decompression" -> Patched[<<contents[1], contents[2]>>]

\* m_ready_items is a map of items, which ignores names: what was fetched for
\* one answers for every other of its length that has no hashes either.  An
\* item that is in no pantry is made, and has its hash.
ContentsHad(stocks, i) ==
    IF ~FoundBy(stocks, i)
    THEN {ContentOf(i)}
    ELSE LET mentioned == UNION {ToSet(r.items) : r \in RecipesOf(stocks)}
         IN  {Fetched(stocks, j) : j \in
                 {x \in mentioned : SameItem(x, i) /\ FoundBy(stocks, x)}}

\* The items of the recipe are to be had and cannot be taken for others, and
\* with them the recipe makes its result.
IsRight(stocks, r) ==
    LET had == [k \in DOMAIN r.items |-> ContentsHad(stocks, r.items[k])]
    IN  /\ \A i \in ToSet(r.items) : FoundBy(stocks, i) \/ Hashed(i)
        /\ \A k \in DOMAIN had : Cardinality(had[k]) = 1
        /\ Produced(r, [k \in DOMAIN had |-> CHOOSE c \in had[k] : TRUE])
              = ContentOf(r.result)

-----------------------------------------------------------------------------
(* The create session's assets.                                            *)

InlineAssets == <<"inline_assets">>
RemainderUncompressed == <<"remainder.uncompressed">>
RemainderCompressed == <<"remainder.compressed">>

StoreNamed(archive, name, content) ==
    StoreItem(archive, WithName(Definition(content), name), content)

SetInlineAssets(archive, content) == StoreNamed(archive, InlineAssets, content)

SetRemainder(archive, content) ==
    AddRecipe(StoreNamed(StoreNamed(archive, RemainderCompressed, Deflate(content)),
                         RemainderUncompressed, content),
              [kind |-> "zlib_decompression",
               result |-> WithName(Definition(content), RemainderUncompressed),
               numbers |-> <<0>>,
               items |-> <<WithName(Definition(Deflate(content)), RemainderCompressed)>>])

-----------------------------------------------------------------------------
(* Writing.  A section is the number of its parts and the parts; an item   *)
(* that cannot be written ends the file in the middle of its section.      *)

Section(parts) == [count |-> Len(parts), parts |-> parts]
IsWhole(section) == Len(section.parts) = section.count

\* Maps of items are written in their order.
ByResult(recipes) ==
    SortSeq(FoldSet(LAMBDA r, s : Append(s, r), <<>>, recipes),
            LAMBDA r, s : ItemLess(r.result, s.result))

\* The parts before the first that throws.
UntilThrown(parts, CanBeWritten(_), WrittenPart(_)) ==
    LET bad == {k \in DOMAIN parts : ~CanBeWritten(parts[k])}
        last == IF bad = {} THEN Len(parts) ELSE Min(bad) - 1
    IN  [count |-> Len(parts), parts |-> [k \in 1 .. last |-> WrittenPart(parts[k])]]

HeaderSection(archive) ==
    UntilThrown(<<archive.target, archive.source>>, CanWrite, Written)

RecipesSection(archive) ==
    UntilThrown(ByResult(archive.book.recipes), CanWriteRecipe, WrittenRecipe)

\* An asset with its definition, or the zero item and nothing.
AssetSection(archive, name) ==
    Section(IF name \in DOMAIN archive.pantry.named
            THEN <<[item |-> Definition(archive.pantry.named[name]),
                    bytes |-> archive.pantry.named[name]]>>
            ELSE <<>>)

FileSections == 5

RECURSIVE Serialized(_)
Serialized(archive) ==
    LET sections ==
            <<HeaderSection(archive), RecipesSection(archive),
              AssetSection(archive, InlineAssets),
              AssetSection(archive, RemainderCompressed),
              Section([k \in DOMAIN archive.nested |->
                          Serialized(archive.nested[k].archive)])>>
        cut == {k \in DOMAIN sections : ~IsWhole(sections[k])}
    IN  IF cut = {} THEN sections ELSE SubSeq(sections, 1, Min(cut))

IsWholeFile(file) == Len(file) = FileSections /\ \A k \in DOMAIN file : IsWhole(file[k])

-----------------------------------------------------------------------------
(* Reading.                                                                *)

\* A slip: the blob is taken as it is.
AnyAsset(section) == TRUE

\* The blob is compared with its definition.
VerifiedAsset(section) ==
    \A part \in ToSet(section.parts) : Equals(part.item, Definition(part.bytes))

\* read() throws when the file ends early, when a recipe is refused, and
\* when an asset is not what its definition says, in nested archives too.
RECURSIVE IsReadable(_)
IsReadable(file) ==
    /\ IsWholeFile(file)
    /\ \A r \in ToSet(file[2].parts) : ~SelfReferential(r)
    /\ VerifiedAsset(file[3]) /\ VerifiedAsset(file[4])
    /\ \A nested \in ToSet(file[5].parts) : IsReadable(nested)

ReadHeader(file) ==
    [EmptyArchive EXCEPT !.target = file[1].parts[1], !.source = file[1].parts[2]]

ReadRecipes(archive, section) == FoldLeft(AddRecipe, archive, section.parts)

\* A slip: the asset can be found by its name only.
ReadUnhashed(archive, section, name) ==
    FoldLeft(LAMBDA a, part :
                 StoreItem(a, WithName(Unnamed(Len(part.bytes), NoHashes), name), part.bytes),
             archive, section.parts)

ReadAsset(archive, section, name) ==
    FoldLeft(LAMBDA a, part : StoreNamed(a, name, part.bytes), archive, section.parts)

RECURSIVE Deserialized(_)
Deserialized(file) ==
    LET assets == ReadAsset(ReadAsset(ReadRecipes(ReadHeader(file), file[2]),
                                      file[3], InlineAssets),
                            file[4], RemainderCompressed)
    IN  FoldLeft(LAMBDA a, nested : AddNestedArchive(a, nested, Deserialized(nested)),
                 assets, file[5].parts)
=============================================================================

----------------------------- MODULE LegacyFile -----------------------------
(***************************************************************************)
(* Reading a legacy diff (native/diffs/serialization/legacy).  Its recipes *)
(* hang below the chunks of the target, parts before what is made of them. *)
(* Recipes that take their bytes from the remainder or the inline assets   *)
(* name no offset: each begins where the one read before it ended.         *)
(***************************************************************************)
EXTENDS DiffFile

\* Contents that are legacy diffs, and what they hold: target and source; the
\* chunks, each an item and a recipe; the two blobs; and whether the sizes add
\* up.  A recipe has a type, numbers and parts; a part is an item with no
\* recipe (<<>>) or one.
CONSTANT Legacy

DiffName == <<"diff">>

\* An element of m_all_recipes that is not there yet.
Slot(item) == [kind |-> "null", result |-> item, numbers |-> <<>>, items |-> <<>>]

Recipe(kind, item, numbers, items) ==
    [kind |-> kind, result |-> item, numbers |-> numbers, items |-> items]

NothingRead ==
    [all |-> <<>>, remainders |-> <<>>, assets |-> <<>>, copies |-> <<>>,
     nested |-> <<>>, thrown |-> FALSE]

\* m_recipe_type_to_template
Templates ==
    [concatenation |-> "chain", bsdiff |-> "bspatch_decompression",
     zstd_compression |-> "zstd_compression", zstd_delta |-> "zstd_decompression",
     zstd_decompression |-> "zstd_decompression", all_zero |-> "all_zeros"]

-----------------------------------------------------------------------------
(* add_legacy_recipe()                                                     *)

WithRecipe(read, r) == [read EXCEPT !.all = Append(@, r)]

\* A slot is taken now and filled when all is read.
Pending(read, item, numbers) ==
    [item |-> item, slot |-> Len(read.all) + 1, numbers |-> numbers]

Throw(read) == [read EXCEPT !.thrown = TRUE]

AddLegacyRecipe(read, source, item, type, numbers, items) ==
    CASE type \in DOMAIN Templates ->
             WithRecipe(read, Recipe(Templates[type], item, numbers, items))
      [] type = "region" ->
             IF Len(numbers) # 2
             THEN Throw(read)
             ELSE WithRecipe(read, Recipe("slice", item, <<numbers[1]>>, items))
      [] type = "copy" -> read
      [] type = "nested" ->
             [read EXCEPT !.nested = Append(@, [result |-> item, items |-> items])]
      [] type = "remainder" ->
             WithRecipe([read EXCEPT !.remainders = Append(@, Pending(read, item, numbers))],
                        Slot(item))
      [] type = "inline_asset" ->
             WithRecipe([read EXCEPT !.assets = Append(@, Pending(read, item, numbers))],
                        Slot(item))
      [] type = "inline_asset_copy" ->
             WithRecipe([read EXCEPT !.copies = Append(@, Pending(read, item, numbers))],
                        Slot(item))
      [] type = "copy_source" ->
             IF source.length = 0
             THEN Throw(read)
             ELSE WithRecipe(read, Recipe("slice", item, <<numbers[1]>>, <<source>>))
      [] type = "gz_decompression" ->
             WithRecipe(read, Recipe("zlib_decompression", item, <<1>>, items))
      [] OTHER -> Throw(read)

\* read_recipe() reads the recipes of the parts first.
RECURSIVE ReadRecipe(_, _, _, _)
ReadRecipe(read, source, item, recipe) ==
    LET readPart(r, part) ==
            IF part.recipe = <<>> THEN r
            ELSE ReadRecipe(r, source, part.item, part.recipe[1])
    IN  AddLegacyRecipe(FoldLeft(readPart, read, recipe.parts), source, item, recipe.type,
                        recipe.numbers,
                        [k \in DOMAIN recipe.parts |-> recipe.parts[k].item])

ReadChunks(d) ==
    FoldLeft(LAMBDA read, chunk : ReadRecipe(read, d.source, chunk.item, chunk.recipe),
             NothingRead, d.chunks)

\* The target is the chain of its chunks.
TargetRecipe(d) ==
    Recipe("chain", d.target, <<>>, [k \in DOMAIN d.chunks |-> d.chunks[k].item])

-----------------------------------------------------------------------------
(* process_remainder_and_inline_assets()                                   *)

\* Slices of the whole, in the order they were read, each behind the last.
Advance(offset, item) == offset + item.length

PlaceInOrder(all, pending, whole) ==
    FoldLeft(LAMBDA placed, p :
                 [all |-> [placed.all EXCEPT ![p.slot] =
                              Recipe("slice", p.item, <<placed.offset>>, <<whole>>)],
                  offset |-> Advance(placed.offset, p.item)],
             [all |-> all, offset |-> 0], pending).all

PlaceCopies(all, pending, whole) ==
    FoldLeft(LAMBDA placed, p :
                 [placed EXCEPT ![p.slot] = Recipe("slice", p.item, p.numbers, <<whole>>)],
             all, pending)

AllRecipes(d, read, remainder, assets) ==
    PlaceCopies(PlaceInOrder(PlaceInOrder(Append(read.all, TargetRecipe(d)),
                                          read.remainders, remainder),
                             read.assets, assets),
                read.copies, assets)

\* What the constructors of recipes refuse.
IsRefused(r) ==
    \/ SelfReferential(r)
    \/ r.kind = "slice" /\ (Len(r.numbers) # 1 \/ Len(r.items) # 1)

-----------------------------------------------------------------------------
(* The items of a diff are found by name, as they have no hashes.  Names   *)
(* in a nested diff carry its index in m_nested_diff_alias_map, which all  *)
(* diffs of a file share.                                                  *)

\* A slip: nested diffs use the names of the outermost.
PlainName(base, origin, aliases) == base

DecoratedName(base, origin, aliases) ==
    IF origin = <<>>
    THEN base
    ELSE Append(base, CHOOSE k \in DOMAIN aliases : SameItem(aliases[k], origin[1]))

WithAlias(aliases, origin) ==
    IF \A o \in ToSet(origin) : \E a \in ToSet(aliases) : SameItem(a, o)
    THEN aliases ELSE aliases \o origin

Item(name, content) == WithName(Unnamed(Len(content), NoHashes), name)

\* create_diff_item(), create_remainder_items(), create_inline_assets_item()
CreateItems(archive, content, d, origin, aliases) ==
    LET name(base) == DecoratedName(base, origin, aliases)
        diffItem == IF origin = <<>> THEN Item(DiffName, content) ELSE origin[1]
        store(a, base, c) == StoreItem(a, Item(name(base), c), c)
    IN  store(store(store(StoreItem(archive, diffItem, content),
                          RemainderCompressed, Deflate(d.remainder)),
                    RemainderUncompressed, d.remainder),
              InlineAssets, d.inline)

-----------------------------------------------------------------------------
(* read()                                                                  *)

Failed(archive, aliases) == [archive |-> archive, aliases |-> aliases, thrown |-> TRUE]

\* Nested diffs are made by a kitchen of what is read so far, and read.
RECURSIVE ReadLegacy(_, _, _)
RECURSIVE ReadNested(_, _)

ReadNested(outer, pending) ==
    IF outer.thrown \/ HasNestedArchive(outer.archive, pending.result)
    THEN outer
    ELSE IF \/ Len(pending.items) # 2
            \/ pending.items[1] \notin Makes(Stock(outer.archive), {pending.items[1]})
            \/ ContentOf(pending.items[1]) \notin DOMAIN Legacy
    THEN Failed(outer.archive, outer.aliases)
    ELSE LET inner == ReadLegacy(ContentOf(pending.items[1]), <<pending.items[1]>>,
                                 outer.aliases)
         IN  [archive |-> AddNestedArchive(outer.archive, pending.result, inner.archive),
              aliases |-> inner.aliases,
              thrown |-> inner.thrown]

ReadLegacy(content, origin, aliases) ==
    LET d == Legacy[content]
        read == ReadChunks(d)
        named == WithAlias(aliases, origin)
        remainder == Item(DecoratedName(RemainderUncompressed, origin, named), d.remainder)
        assets == Item(DecoratedName(InlineAssets, origin, named), d.inline)
        recipes == AllRecipes(d, read, remainder, assets)
        empty == [EmptyArchive EXCEPT !.target = d.target, !.source = d.source]
    IN  IF read.thrown \/ ~d.sized \/ \E r \in ToSet(recipes) : IsRefused(r)
        THEN Failed(empty, named)
        ELSE FoldLeft(ReadNested,
                      [archive |-> FoldLeft(AddRecipe,
                                            CreateItems(empty, content, d, origin, named),
                                            recipes),
                       aliases |-> named, thrown |-> FALSE],
                      read.nested)
=============================================================================

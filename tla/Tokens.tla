------------------------------- MODULE Tokens -------------------------------
(***************************************************************************)
(* ArchiveUtility: what is known of an archive.  An ArchiveTokenization    *)
(* says how the items in it are made from the archive (reverse recipes)    *)
(* and how the archive is made from them (forward recipes).                *)
(*                                                                         *)
(* An item is its content, a sequence of blocks: hashes decide whether two *)
(* items are equal, so names are left out.  A name is the sequence of its  *)
(* parts, the last of them the extension.                                  *)
(***************************************************************************)
EXTENDS Integers, Sequences, FiniteSets, SequencesExt

CONSTANTS
    Unzip,       \* zipped item |-> its content
    Levels       \* zipped items that a level of zlib makes again

Zero == 0

-----------------------------------------------------------------------------
(***************************************************************************)
(* Recipes, and what the native ones make of their ingredients             *)
(***************************************************************************)
Recipe(kind, result, numbers, items) ==
    [kind |-> kind, result |-> result, numbers |-> numbers, items |-> items]

\* The constructor throws.
SelfReferential(r) == r.result \in ToSet(r.items)

Slice(item, offset, whole) == Recipe("slice", item, <<offset>>, <<whole>>)

IsDeltaRecipe(r) == r.kind = "bspatch_decompression"
GetDeltaItem(r) == r.items[1]
GetDeltaBasis(r) == r.items[2]

\* The patch tools are external: a delta says from which basis to what.
DeltaOf(basis, item) == <<-1>> \o basis \o <<-2>> \o item

SliceMakes(r) ==
    /\ r.numbers[1] + Len(r.result) <= Len(r.items[1])
    /\ r.result =
          SubSeq(r.items[1], r.numbers[1] + 1, r.numbers[1] + Len(r.result))

ChainMakes(r) == r.result = FlattenSeq(r.items)

ZerosMake(r) == ToSet(r.result) \subseteq {Zero}

DecompressionMakes(r) ==
    r.items[1] \in DOMAIN Unzip /\ r.result = Unzip[r.items[1]]

CompressionMakes(r) ==
    r.result \in Levels /\ r.items[1] = Unzip[r.result]

PatchMakes(r) == GetDeltaItem(r) = DeltaOf(GetDeltaBasis(r), r.result)

Makes(r) ==
    CASE r.kind = "slice" -> SliceMakes(r)
      [] r.kind = "chain" -> ChainMakes(r)
      [] r.kind = "all_zeros" -> ZerosMake(r)
      [] r.kind = "zlib_decompression" -> DecompressionMakes(r)
      [] r.kind = "zlib_compression" -> CompressionMakes(r)
      [] r.kind = "bspatch_decompression" -> PatchMakes(r)

Results(recipes) == {r.result : r \in recipes}

\* What is made of a stock by one round of the recipes, and by n rounds.
MakesOf(stock, recipes) ==
    stock \union {r.result : r \in {q \in recipes : ToSet(q.items) \subseteq stock}}

MadeIn(stock, recipes) ==
    LET made[n \in Nat] ==
            IF n = 0 THEN stock
            ELSE LET before == made[n - 1] IN MakesOf(before, recipes)
    IN made

\* What a kitchen with these items in its pantry can make by the recipes: on
\* the way to an item each of them is used at most once.
Made(stock, recipes) == MadeIn(stock, recipes)[Cardinality(recipes)]

-----------------------------------------------------------------------------
(***************************************************************************)
(* ArchiveTokenization                                                     *)
(***************************************************************************)
NoTokens(archive) ==
    [archive |-> archive, forward |-> <<>>, reverse |-> <<>>,
     recipes |-> {}, payload |-> {}, thrown |-> FALSE]

\* A later recipe for a result takes the place of an earlier one in the
\* lookups; the catalog keeps all.
AddForwardRecipe(t, r) ==
    [t EXCEPT !.forward = (r.result :> r) @@ @, !.recipes = @ \union {r}]

AddReverseRecipe(t, r) ==
    [t EXCEPT !.reverse = (r.result :> r) @@ @, !.recipes = @ \union {r}]

AddRootPayload(t, name, item) ==
    [t EXCEPT !.payload =
        @ \union {[archive |-> t.archive, name |-> name, item |-> item]}]

HasAnyRecipes(t, item) == item \in Results(t.recipes)

ArchiveItems(t) == {p.archive : p \in t.payload}

GetPayloadItems(t) == {p.item : p \in t.payload}

CanExtract(t, items) == items \subseteq Made({t.archive}, t.recipes)

Part(item, begin, end) == SubSeq(item, begin + 1, end)

=============================================================================

----------------------------- MODULE MCReaders -----------------------------
(* Prepared items up to a chain of slices of chains, for TLC.              *)
EXTENDS Readers

\* Leaves: a reader, and streams whose end is seen early, late or never.
MCLeaves ==
    {ReaderItem(<<1, 2, 3>>),
     StreamItem("zlib", FALSE, <<4, 5, 6>>),
     StreamItem("zlib", TRUE, <<7, 8>>),
     StreamItem("zstd", FALSE, <<9>>)}

Slices(items) ==
    UNION {{SliceRecipe(i, o, l) : l \in 1..(Len(Content(i)) - o)} :
              <<i, o>> \in {<<i, o>> \in items \X (0..6) : o < Len(Content(i))}}

Chains(items) == {ChainRecipe(<<i, j>>) : i \in items, j \in items}

Short(items) == {i \in items : Len(Content(i)) <= 2}

\* Leaves, their slices, chains of these, slices of the chains, and chains
\* that have a chain or a slice of one as a part.
MCItems ==
    LET slices == Slices(MCLeaves)
        chains == Chains(MCLeaves)
        deep   == Slices(chains)
    IN MCLeaves \union slices \union chains \union deep
         \union {ChainRecipe(<<i, j>>) : i \in Short(slices), j \in MCLeaves}
         \union {ChainRecipe(<<i, j>>) : i \in MCLeaves, j \in Short(deep)}
         \union {ChainRecipe(<<i, j, i>>) : i \in MCLeaves, j \in chains}
=============================================================================

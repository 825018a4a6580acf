----------------------------- MODULE MCSessions -----------------------------
(***************************************************************************)
(* A client that describes target t by the source s, a slice of its        *)
(* remainder and its inline assets, and legacy diffs from s: the outer     *)
(* one carries two others, in its assets and in its remainder.             *)
(***************************************************************************)
EXTENDS Sessions

s == <<1, 2, 3, 4>>
t == <<1, 2, 3, 4, 5, 6, 8>>
rest == <<7, 5, 6>>
assets == <<8>>

MCAssets == {assets}
MCRemainders == {rest}
MCSources == {s}

\* Definitions as the client gives them.
Hash(type, value) == [type |-> type, value |-> value]
Given(content, hashes) == [length |-> Len(content), hashes |-> hashes, names |-> {}]
By(content, types) ==
    Given(content, [k \in DOMAIN types |-> Hash(types[k], content)])
Sha(content) == By(content, <<"sha256">>)

MCTargets == {Sha(t), Given(t, <<Hash("sha1", t)>>)}

MCClientRecipes == {
    Recipe("chain", Sha(t), <<>>,
           <<Sha(s), By(<<5, 6>>, <<"md5", "sha256">>), Sha(assets)>>),
    Recipe("slice", By(<<5, 6>>, <<"sha256", "md5">>), <<1>>, <<Sha(rest)>>),
    \* no sha256 to be written; two hashes of a type; of itself
    Recipe("slice", By(<<3>>, <<"md5">>), <<2>>, <<Sha(s)>>),
    Recipe("slice", Given(<<4>>, <<Hash("md5", <<4>>), Hash("md5", <<3>>)>>), <<3>>, <<Sha(s)>>),
    Recipe("slice", Sha(s), <<0>>, <<Sha(s)>>)}

-----------------------------------------------------------------------------
(* Legacy diffs.                                                           *)

Part(content, recipe) == [item |-> Definition(content), recipe |-> recipe]
Way(type, numbers, parts) == [type |-> type, numbers |-> numbers, parts |-> parts]
Chunk(content, type, numbers, parts) ==
    [item |-> Definition(content), recipe |-> Way(type, numbers, parts)]

Diff(target, source, chunks, inline, remainder) ==
    [target |-> Definition(target), source |-> source, chunks |-> chunks,
     inline |-> inline, remainder |-> remainder, sized |-> TRUE]

inner1 == <<11, 1>>
inner2 == <<11, 2>>
outer == <<11, 3>>
broken == <<11, 4>>
sourceless == <<11, 5>>

Inner1 == Diff(<<2, 3, 7>>, Definition(s),
               <<Chunk(<<2, 3>>, "copy_source", <<1>>, <<>>),
                 Chunk(<<7>>, "remainder", <<>>, <<>>)>>, <<>>, <<7>>)

\* Its remainder is of the given bytes.
Inner2(remainder) ==
    Diff(remainder \o <<4>>, Definition(s),
         <<Chunk(remainder, "remainder", <<>>, <<>>),
           Chunk(<<4>>, "region", <<0, 1>>,
                 <<Part(<<4, 4>>, <<Way("bsdiff", <<>>,
                       <<Part(<<12, 12>>, <<Way("inline_asset", <<>>, <<>>)>>),
                         Part(s, <<>>)>>)>>)>>)>>,
         <<12, 12>>, remainder)

MCPatched == <<<<12, 12>>, s>> :> <<4, 4>>

Outer(remainder) ==
    Diff(<<5, 6, 1, 2, 2, 3, 7, 0, 0, 3>> \o remainder \o <<4, 6, 5, 5>>, Definition(s),
         <<Chunk(<<5, 6>>, "inline_asset", <<>>, <<>>),
           Chunk(<<1, 2>>, "copy_source", <<0>>, <<>>),
           Chunk(<<2, 3, 7>>, "nested", <<>>,
                 <<Part(inner1, <<Way("inline_asset", <<>>, <<>>)>>), Part(s, <<>>)>>),
           Chunk(<<0, 0>>, "all_zero", <<2>>, <<>>),
           Chunk(<<3>>, "remainder", <<>>, <<>>),
           Chunk(remainder \o <<4>>, "nested", <<>>,
                 <<Part(inner2, <<Way("remainder", <<>>, <<>>)>>), Part(s, <<>>)>>),
           Chunk(<<6>>, "inline_asset_copy", <<1>>, <<>>),
           Chunk(<<5, 5>>, "gz_decompression", <<>>,
                 <<Part(<<9, 5, 5>>, <<Way("remainder", <<>>, <<>>)>>)>>)>>,
         <<5, 6>> \o inner1, <<3>> \o inner2 \o <<9, 5, 5>>)

\* The sizes do not add up; a source is needed and there is none.
Legacies(remainder) ==
    (inner1 :> Inner1) @@ (inner2 :> Inner2(remainder)) @@ (outer :> Outer(remainder)) @@
    (broken :> [Inner1 EXCEPT !.sized = FALSE]) @@
    (sourceless :> [Inner1 EXCEPT !.source = ZeroItem])

\* Wholes that have no hash all differ in length.
MCLegacy == Legacies(<<8, 8, 8>>)

\* The remainders of the inner diffs are of one length.
AlikeLegacy == Legacies(<<8>>)

MCContents == ("outer" :> outer) @@ ("broken" :> broken) @@ ("sourceless" :> sourceless)
=============================================================================

------------------------------ MODULE MCKitchen ------------------------------
(***************************************************************************)
(* Small kitchens for TLC.  Item "t" is the target, "x" and "y" lie        *)
(* between, "s" is the source file of the device, "z" an empty file.       *)
(***************************************************************************)
EXTENDS Kitchen

(* Recipes that may run in a circle: x is a range of y, y a range of x or  *)
(* decompressed from s; t joins the two, or is a patch of s.               *)
CircularItems == {"t", "x", "y", "s"}
CircularRecipes == 1 .. 5
CircularResult == <<"t", "y", "y", "x", "t">>
CircularIngredients == << <<"y", "x">>, <<"x">>, <<"s">>, <<"y">>, <<"s", "s">> >>
CircularKind == <<"parts", "slice", "codec", "slice", "codec">>
CircularCookbooks == {{1, 3, 4}, {1, 2, 3, 4}, {2, 4, 5}}
CircularPantries == {[i \in CircularItems |-> IF i = "s" THEN "reader" ELSE "absent"]}

(* Recipes without circles: x is a range of y, y a range of s or a patch   *)
(* of it; t joins x, y and x again, or s and z.  The archives may bring y  *)
(* as a stream, as the remainder of a legacy diff is.                      *)
LayeredItems == CircularItems \union {"z"}
LayeredRecipes == 1 .. 6
LayeredResult == <<"t", "t", "x", "y", "y", "z">>
LayeredIngredients == << <<"x", "y", "x">>, <<"s", "z">>, <<"y">>, <<"s">>,
                         <<"s", "s">>, <<>> >>
LayeredKind == <<"parts", "parts", "slice", "slice", "codec", "parts">>
LayeredCookbooks == {{1, 3}, {2, 4, 6}, {1, 3, 5}}
LayeredPantries == {[i \in LayeredItems |-> IF i = "y" THEN "stream" ELSE "absent"],
                    [i \in LayeredItems |-> "absent"]}

\* They have no circles: every recipe needs only items of a lower rank.
LayeredRanks == \E rank \in [LayeredItems -> 0 .. 3] :
                   \A r \in LayeredRecipes : \A n \in Range(LayeredIngredients[r]) :
                      rank[n] < rank[LayeredResult[r]]
ASSUME LayeredRanks

PlainModes == {NoMode}
AllModes == [selectOnly : BOOLEAN, mocked : {{}, {"y"}, {"s"}}]
=============================================================================

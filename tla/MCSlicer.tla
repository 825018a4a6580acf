------------------------------ MODULE MCSlicer ------------------------------
(***************************************************************************)
(* Instances of Slicer for TLC.  Item 1 holds the slices "a" (2 bytes at   *)
(* offset 0), "b" (2 at 2), and "c", which overlaps one or both; item 2    *)
(* holds "d", and "b" as well.                                             *)
(***************************************************************************)
EXTENDS Slicer

Size == [s \in Slices |-> 2]
At(i, o, s) == [item |-> i, offset |-> o, slice |-> s]

OneItem == {At(1, 0, "a"), At(1, 2, "b")}
Overlapping == OneItem \union {At(1, 1, "c"), At(1, 2, "c"), At(2, 0, "d"), At(2, 2, "b")}

TwoItems == {At(1, 0, "a"), At(2, 0, "b"), At(2, 2, "a")}
NeedsNothing == [i \in Items |-> NoSlice]
\* Item 2 is itself the slice "a" of item 1.
Chained == [i \in Items |-> IF i = 2 THEN "a" ELSE NoSlice]
=============================================================================

----------------------------- MODULE DeltaFolder -----------------------------
(***************************************************************************)
(* What the worker CreateDeltas leaves in the working folder and in the    *)
(* catalog, and what it promises of both.  Deltas is how it works.         *)
(***************************************************************************)
EXTENDS Integers, Sequences, Functions

CONSTANTS
    Plans,            \* DeltaPlans.Entries: target item |-> its source items
    Length,           \* item |-> its length
    SmallSize,        \* 512, IsSmallFileSize()
    MINIMUM_SIZE,     \* 513
    MAXIMUM_SIZE      \* 250 MB

VARIABLES
    deltas,       \* files under their delta name |-> [size, whole]
    bad,          \* files with a ".bad" cookie
    run,          \* how far ExecuteInternal() is, or how it ended
    made          \* recipes made: target item |-> delta file

Targets == DOMAIN Plans
Builders == <<"bsdiff", "zstd">>

IsSmallFileSize(t) == Length[t] <= SmallSize

ShouldDelta(s, t) ==
    \A i \in {s, t} : Length[i] \in MINIMUM_SIZE .. MAXIMUM_SIZE

-----------------------------------------------------------------------------
(* Properties.                                                             *)

\* A file under its delta name is the whole output of a tool that returned
\* 0, whatever was cancelled, timed out or crashed before: an unfinished
\* file can only be found under the name that ends in ".tmp", which is why
\* Call() may take what it finds for a delta (ToolBasedDeltaBuilder.cs:70).
DeltasAreWhole == \A f \in DOMAIN deltas : deltas[f].whole

\* Every recipe made names a delta of its own target item that is in the
\* working folder, whole, neither empty nor bad, and smaller than the item.
Usable(f) ==
    /\ f \in DOMAIN deltas
    /\ f \notin bad
    /\ deltas[f].whole
    /\ deltas[f].size \in 1 .. Length[f[2]] - 1

RecipesAreUsable == \A t \in DOMAIN made : made[t][2] = t /\ Usable(made[t])

\* The catalog holds for an item the smallest delta of the first plan that
\* gave one; an item without one was tried with every plan before a plan
\* with an identical item, and nothing usable is left of it.
NothingUsable(t, j) ==
    \A b \in Range(Builders) : ~Usable(<<Plans[t][j], t, b>>)

Settled(t, j) ==
    \A b \in Range(Builders) : LET f == <<Plans[t][j], t, b>> IN
        \/ f \in bad
        \/ f \in DOMAIN deltas /\ deltas[f].size = 0

FirstAndSmallest(t) ==
    \E i \in DOMAIN Plans[t] :
        /\ made[t][1] = Plans[t][i]
        /\ \A j \in 1 .. i - 1 :
              /\ Plans[t][j] # t
              /\ Plans[t][j] = Plans[t][i] \/ NothingUsable(t, j)
        /\ \A b \in Range(Builders) : LET f == <<Plans[t][i], t, b>> IN
              Usable(f) => deltas[made[t]].size <= deltas[f].size

Passed(t, j) ==
    IsSmallFileSize(t) \/ ~ShouldDelta(Plans[t][j], t) \/ Settled(t, j)

AllTried(t) ==
    \A j \in DOMAIN Plans[t] :
        Passed(t, j) \/ \E i \in 1 .. j : Plans[t][i] = t

CatalogIsBest ==
    run = "done" =>
        \A t \in Targets :
            IF t \in DOMAIN made THEN FirstAndSmallest(t) ELSE AllTried(t)

\* A delta that is not empty is never written again and a bad one never
\* becomes good, in this run or a later one: the items and hashes of the
\* recipes already made from the files stay true.
DeltasAreFinal ==
    [][/\ bad \subseteq bad'
       /\ \A f \in DOMAIN deltas :
             deltas[f].size # 0 =>
                 f \in DOMAIN deltas' /\ deltas'[f] = deltas[f]]_<<deltas, bad>>
=============================================================================

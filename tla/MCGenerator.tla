---------------------------- MODULE MCGenerator ----------------------------
(***************************************************************************)
(* Archives of 3 to 10 blocks.  The first source and the first target have *)
(* a payload in common, at other offsets, one changed, a zipped file       *)
(* system, gaps of zeros and of data.  Of the second target the zipped     *)
(* file cannot be made again; the third has chunks that overlap; the       *)
(* fourth has hardly anything but such a file.                             *)
(*                                                                         *)
(* And CreateDeltas by itself, of which Generator takes the promise: two   *)
(* items of the target, t with a source item that is too large and two     *)
(* that are worth a delta, u with itself and one that is worth it.  Init   *)
(* chooses one of the two.                                                 *)
(***************************************************************************)
EXTENDS Generator, Tokenizing, DeltaFolder

p == <<"p", "bin">>
q == <<"q", "bin">>
z == <<"z", "ext4", "gz">>

Chunk(offset, length, name) ==
    [offset |-> offset, length |-> length, name |-> name]

\* What is zipped: file systems, the one changed and with one file more.
oldFs == <<5, 5, 6>>
newFs == <<5, 7, 0, 6>>
oldZip == <<8, 1>>
newZip == <<8, 2>>
otherZip == <<8, 3>>

\* header p header z, and a gap
source1 == <<1, 2, 3, 4>> \o oldZip \o <<0, 0, 0>>
\* gap q header p header z
target1 == <<0, 0, 0, 4, 1, 2, 3, 9>> \o newZip
target2 == <<1, 2, 4, 9>> \o otherZip
target3 == <<1, 2, 3>>
hugeZip == <<8, 4, 4>>
target4 == <<1>> \o hugeZip

MCFormats ==
    (source1 :> [type |-> "cpio", chunks |->
        <<Chunk(0, 1, <<>>), Chunk(1, 2, p), Chunk(3, 1, <<>>),
          Chunk(4, 2, z)>>]) @@
    (target1 :> [type |-> "cpio", chunks |->
        <<Chunk(3, 1, q), Chunk(4, 1, <<>>), Chunk(5, 2, p),
          Chunk(7, 1, <<>>), Chunk(8, 2, z)>>]) @@
    (target2 :> [type |-> "cpio", chunks |->
        <<Chunk(0, 1, <<>>), Chunk(1, 2, p), Chunk(4, 2, z)>>]) @@
    (target3 :> [type |-> "cpio", chunks |->
        <<Chunk(0, 2, p), Chunk(1, 2, q)>>]) @@
    (target4 :> [type |-> "cpio", chunks |->
        <<Chunk(0, 1, <<>>), Chunk(1, 3, z)>>]) @@
    (oldFs :> [type |-> "ext4", chunks |-> <<Chunk(0, 2, p)>>]) @@
    (newFs :> [type |-> "ext4", chunks |->
        <<Chunk(0, 2, p), Chunk(3, 1, q)>>])

MCUnzip ==
    (oldZip :> oldFs) @@ (newZip :> newFs) @@ (otherZip :> newFs) @@
    (hugeZip :> newFs)

MCLevels == {oldZip, newZip}

MCPairs == {source1} \X {target1, target2, target3, target4}
               \union {<<target1, source1>>, <<source1, source1>>}

Given == [source |-> {pair[1] : pair \in MCPairs},
          target |-> {pair[2] : pair \in MCPairs}]

MCTokensOf ==
    [s \in Sides |->
        [a \in Given[s] |-> Tokenize(a, <<s, "swu">>, s)]]

\* What the theorems about the stages ask of the archives.
ASSUME SourcesAreCut /\ NothingEmpty

-----------------------------------------------------------------------------
VARIABLES machine,
          temps, run_count, token, pc, plan, builder, best, tool

deltasVars == <<deltas, temps, bad, run, run_count, token, pc, plan, builder,
                best, tool, made>>

MCPlans == [t |-> <<"huge", "a", "b">>, u |-> <<"u", "b">>]
MCLength == [t |-> 3, u |-> 2, a |-> 3, b |-> 4, huge |-> 6]

CD == INSTANCE Deltas
        WITH DeltaSizes <- 0 .. 3, MayNotMove <- TRUE, MayMakeNothing <- TRUE,
             MaxRuns <- 2, runs <- run_count, cancelled <- token

ASSUME CD!DeltasAssumption

MCInit == machine \in {"builder", "deltas"} /\ Init /\ CD!Init

OfBuilder == machine = "builder" /\ UNCHANGED <<machine, deltasVars>>
OfDeltas  == machine = "deltas" /\ UNCHANGED <<machine, vars>>

MCNext ==
    \/ OfBuilder /\ Next
    \/ OfDeltas /\ CD!Next

EndTurn     == OfDeltas /\ CD!End
BodyTurn(t) == OfDeltas /\ CD!BodyStep(t)

MCSpec ==
    /\ MCInit /\ [][MCNext]_<<machine, vars, deltasVars>>
    /\ WF_deltasVars(EndTurn)
    /\ \A t \in DOMAIN MCPlans : WF_deltasVars(BodyTurn(t))

-----------------------------------------------------------------------------
\* Every run of CreateDeltas ends, though tools may hang (Deltas).
RunEnds == CD!RunEnds
=============================================================================

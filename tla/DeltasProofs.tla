----------------------------- MODULE DeltasProofs -----------------------------
(***************************************************************************)
(* What the working folder and the catalog keep for every set of plans and *)
(* sizes, any number of parallel bodies, runs, crashes and cancellations:  *)
(* the inductive invariant IInv, hence the safety properties of Deltas.    *)
(***************************************************************************)
EXTENDS Deltas, TLAPS

InLoop == {"builder", "tool", "kill", "move", "judge"}

\* The variables are functions of the planned items.
Shape ==
    /\ plan \in [Targets -> Nat]
    /\ builder \in [Targets -> 1 .. 3]
    /\ best \in [Targets -> SUBSET DeltaFiles]
    /\ DOMAIN deltas \subseteq DeltaFiles
    /\ DOMAIN temps \subseteq DeltaFiles
    /\ bad \subseteq DeltaFiles
    /\ pc \in [Targets -> {"waiting", "plan"} \union InLoop \union Ended]
    /\ tool \in [Targets -> {"none", "running", "ok", "failed"}]
    /\ DOMAIN made \subseteq Targets

\* The files: only what is worth a delta has one.
FolderInv ==
    /\ \A f \in DOMAIN deltas :
          /\ deltas[f] \in FileType /\ deltas[f].whole
          /\ ~IsSmallFileSize(f[2]) /\ ShouldDelta(f[1], f[2])
    /\ \A f \in DOMAIN temps : temps[f] \in FileType

\* Where a body is in its plans.
PlaceInv(t) ==
    /\ plan[t] \in 1 .. Len(Plans[t]) + 1
    /\ plan[t] = Len(Plans[t]) + 1 => pc[t] \in {"plan", "done"}
    /\ pc[t] = "waiting" => plan[t] = 1
    /\ pc[t] \in InLoop => ~IsSmallFileSize(t) /\ Source(t) # t
    /\ pc[t] \in InLoop \ {"builder"} =>
          builder[t] \in 1 .. 2 /\ ShouldDelta(Source(t), t)

\* What a body's tool and file are between the steps of Call().
CallInv(t) ==
    /\ tool[t] # "none" => pc[t] \in {"tool", "kill"}
    /\ pc[t] = "tool" /\ tool[t] = "ok" /\ File(t) \in DOMAIN temps =>
          temps[File(t)].whole
    /\ pc[t] = "move" => File(t) \in DOMAIN temps /\ temps[File(t)].whole
    /\ pc[t] \in {"tool", "kill", "move"} => File(t) \notin DOMAIN deltas
    /\ pc[t] \in {"tool", "move", "judge"} => File(t) \notin bad
    /\ pc[t] = "kill" => File(t) \in bad
    /\ pc[t] = "judge" => File(t) \in DOMAIN deltas

\* The best delta so far is usable.
BestInv(t) ==
    /\ \A f, g \in best[t] : f = g
    /\ \A f \in best[t] :
          /\ f[2] = t /\ Usable(f)
          /\ pc[t] \in InLoop => f[1] = Source(t)

\* The builders tried for the current plan left nothing better.
TriedFile(t, k) == <<Source(t), t, Builders[k]>>

BuildersInv(t) ==
    pc[t] \in InLoop =>
        \A k \in 1 .. builder[t] - 1 :
            /\ Usable(TriedFile(t, k)) =>
                  /\ best[t] # {}
                  /\ \A b \in best[t] :
                        deltas[b].size <= deltas[TriedFile(t, k)].size
            /\ \/ best[t] # {}
               \/ ~ShouldDelta(Source(t), t)
               \/ TriedFile(t, k) \in bad
               \/ TriedFile(t, k) \in DOMAIN deltas /\ deltas[TriedFile(t, k)].size = 0

\* The plans tried left nothing usable, but for those of the current source.
PlansInv(t) ==
    pc[t] \in {"plan", "done"} \union InLoop /\ t \notin DOMAIN made =>
        \A j \in 1 .. plan[t] - 1 :
            /\ Plans[t][j] # t
            /\ \/ Passed(t, j)
               \/ pc[t] \in InLoop /\ Plans[t][j] = Source(t)

CatalogInv(t) ==
    /\ t \in DOMAIN made =>
          /\ pc[t] = "done" /\ made[t][2] = t
          /\ Usable(made[t]) /\ FirstAndSmallest(t)
    /\ pc[t] = "done" /\ t \notin DOMAIN made =>
          plan[t] = Len(Plans[t]) + 1 \/ Source(t) = t

TInv(t) ==
    /\ PlaceInv(t) /\ CallInv(t) /\ BestInv(t)
    /\ BuildersInv(t) /\ PlansInv(t) /\ CatalogInv(t)

\* A run that is done is one whose bodies are.
RunInv == run = "done" => AllBodiesDone

IInv == Shape /\ FolderInv /\ RunInv /\ \A t \in Targets : TInv(t)

-----------------------------------------------------------------------------
(* What a step leaves alone.                                               *)

SameFile(f) ==
    /\ f \in DOMAIN deltas' <=> f \in DOMAIN deltas
    /\ f \in DOMAIN deltas => deltas'[f] = deltas[f]
    /\ f \in bad' <=> f \in bad

SameTemp(f) ==
    /\ f \in DOMAIN temps' <=> f \in DOMAIN temps
    /\ f \in DOMAIN temps => temps'[f] = temps[f]

SameBody(t) ==
    /\ pc'[t] = pc[t] /\ plan'[t] = plan[t] /\ builder'[t] = builder[t]
    /\ best'[t] = best[t] /\ tool'[t] = tool[t]
    /\ t \in DOMAIN made' <=> t \in DOMAIN made
    /\ t \in DOMAIN made => made'[t] = made[t]

\* The delta builders are tried in one order: bsdiff, then zstd.
LEMMA BuilderFacts ==
  /\ Len(Builders) = 2 /\ DOMAIN Builders = 1 .. 2
  /\ Builders[1] = "bsdiff" /\ Builders[2] = "zstd"
  /\ Range(Builders) = {"bsdiff", "zstd"}
BY DEF Builders, Range

\* Every target has a plan, and its sources are items.
LEMMA PlanFacts ==
  ASSUME DeltasAssumption, NEW t \in Targets
  PROVE  /\ Plans[t] \in Seq(Items) /\ Plans[t] # <<>>
         /\ Len(Plans[t]) \in Nat /\ Len(Plans[t]) >= 1
         /\ DOMAIN Plans[t] = 1 .. Len(Plans[t])
         /\ \A j \in 1 .. Len(Plans[t]) : Plans[t][j] \in Items
         /\ t \in Items /\ Length[t] \in Nat
<1>1. Plans[t] \in Seq(Items) /\ Plans[t] # <<>> BY DEF DeltasAssumption
<1> QED BY <1>1 DEF DeltasAssumption

\* A delta file of the target t at builder k of its plan j.
LEMMA FileFacts ==
  ASSUME DeltasAssumption, NEW t \in Targets,
         NEW j \in 1 .. Len(Plans[t]), NEW b \in Range(Builders)
  PROVE  LET f == <<Plans[t][j], t, b>>
         IN  f \in DeltaFiles /\ f[1] = Plans[t][j] /\ f[2] = t /\ f[3] = b
BY PlanFacts DEF DeltaFiles

\* What is said of a file and of a plan survives a step that leaves the
\* files alone.
LEMMA UsableKept ==
  ASSUME NEW f, SameFile(f)
  PROVE  Usable(f)' <=> Usable(f)
BY DEF SameFile, Usable

\* What is said of a plan depends on the files of that plan alone.
LEMMA PlanKept ==
  ASSUME NEW t \in Targets, NEW j,
         \A b \in Range(Builders) : SameFile(<<Plans[t][j], t, b>>)
  PROVE  /\ Settled(t, j)' <=> Settled(t, j)
         /\ Passed(t, j)' <=> Passed(t, j)
         /\ NothingUsable(t, j)' <=> NothingUsable(t, j)
<1>1. Settled(t, j)' <=> Settled(t, j) BY DEF Settled, SameFile
<1>2. Passed(t, j)' <=> Passed(t, j)
  BY <1>1 DEF Passed, IsSmallFileSize, ShouldDelta
<1>3. NothingUsable(t, j)' <=> NothingUsable(t, j)
  BY UsableKept DEF NothingUsable
<1> QED BY <1>1, <1>2, <1>3

\* What is said of a body survives a step that leaves it and its files alone.
LEMMA BodyKept ==
  ASSUME DeltasAssumption, Shape, NEW t \in Targets, TInv(t), SameBody(t),
         \A f \in DeltaFiles : f[2] = t => SameFile(f) /\ SameTemp(f)
  PROVE  TInv(t)'
<1>1. ASSUME NEW j \in 1 .. Len(Plans[t]), NEW b \in Range(Builders)
      PROVE  SameFile(<<Plans[t][j], t, b>>) /\ SameTemp(<<Plans[t][j], t, b>>)
  BY <1>1, FileFacts
<1>2. PlaceInv(t)' BY DEF TInv, PlaceInv, SameBody, Source, InLoop
<1>3. File(t)' = File(t) /\ Source(t)' = Source(t)
  BY DEF SameBody, File, Source
<1>4. CallInv(t)'
  <2>1. CASE pc[t] \in InLoop \ {"builder"}
    <3>1. File(t) = <<Plans[t][plan[t]], t, Builders[builder[t]]>>
      BY DEF File, Source
    <3>2. plan[t] \in 1 .. Len(Plans[t]) /\ builder[t] \in 1 .. 2
      BY <2>1, PlanFacts DEF TInv, PlaceInv, InLoop
    <3>3. Builders[builder[t]] \in Range(Builders) BY <3>2, BuilderFacts
    <3>4. SameFile(File(t)) /\ SameTemp(File(t)) BY <1>1, <3>1, <3>2, <3>3
    <3> QED
      BY <1>3, <3>4 DEF TInv, CallInv, SameFile, SameTemp, SameBody
  <2>2. CASE pc[t] \notin InLoop \ {"builder"}
    BY <2>2 DEF TInv, CallInv, SameBody, InLoop
  <2> QED BY <2>1, <2>2
<1>5. BestInv(t)'
  <2>1. \A f \in best[t] : f \in DeltaFiles BY DEF Shape
  <2>2. \A f \in best[t] : f[2] = t => Usable(f)' <=> Usable(f)
    BY <2>1, UsableKept
  <2> QED BY <1>3, <2>2 DEF TInv, BestInv, SameBody
<1>6. BuildersInv(t)'
  <2>1. SUFFICES ASSUME pc[t] \in InLoop, NEW k \in 1 .. builder[t] - 1,
                        NEW f, f = TriedFile(t, k)
                 PROVE  /\ Usable(f)' =>
                              /\ best'[t] # {}
                              /\ \A b \in best'[t] :
                                    deltas'[b].size <= deltas'[f].size
                        /\ \/ best'[t] # {}
                           \/ ~ShouldDelta(Source(t), t)
                           \/ f \in bad'
                           \/ f \in DOMAIN deltas' /\ deltas'[f].size = 0
    BY <1>3 DEF BuildersInv, TriedFile, SameBody, ShouldDelta, Source, Usable
  <2>2. plan[t] \in 1 .. Len(Plans[t]) /\ k \in 1 .. 2
    BY <2>1, PlanFacts DEF TInv, PlaceInv, InLoop, Shape
  <2>3. SameFile(f)
    <3>1. Builders[k] \in Range(Builders) BY <2>2, BuilderFacts
    <3> QED BY <1>1, <2>1, <2>2, <3>1 DEF TriedFile, Source
  <2>4. \A b \in best[t] : b[2] = t /\ SameFile(b) /\ b \in DOMAIN deltas
    BY DEF TInv, BestInv, Shape, Usable
  <2>5. Usable(f)' => Usable(f) BY <2>3, UsableKept
  <2> QED
    BY <2>1, <2>3, <2>4, <2>5
    DEF TInv, BuildersInv, SameBody, SameFile, Usable
<1>7. PlansInv(t)'
  <2>1. SUFFICES ASSUME pc[t] \in {"plan", "done"} \union InLoop,
                        t \notin DOMAIN made, NEW j \in 1 .. plan[t] - 1
                 PROVE  /\ Plans[t][j] # t
                        /\ \/ Passed(t, j)'
                           \/ pc[t] \in InLoop /\ Plans[t][j] = Source(t)
    BY <1>3 DEF PlansInv, SameBody
  <2>2. j \in 1 .. Len(Plans[t])
    BY <2>1, PlanFacts DEF TInv, PlaceInv, Shape
  <2>3. Passed(t, j)' <=> Passed(t, j) BY <1>1, <2>2, PlanKept
  <2> QED BY <2>1, <2>3 DEF TInv, PlansInv
<1>8. CatalogInv(t)'
  <2>1. CASE t \notin DOMAIN made
    BY <1>3, <2>1 DEF TInv, CatalogInv, SameBody
  <2>2. CASE t \in DOMAIN made
    <3>1. /\ pc[t] = "done" /\ made[t][2] = t /\ Usable(made[t])
          /\ made'[t] = made[t] /\ pc'[t] = "done" /\ t \in DOMAIN made'
          /\ made[t] \in DeltaFiles
      BY <2>2 DEF TInv, CatalogInv, SameBody, Usable, Shape
    <3>2. PICK i \in DOMAIN Plans[t] :
             /\ made[t][1] = Plans[t][i]
             /\ \A j \in 1 .. i - 1 :
                   /\ Plans[t][j] # t
                   /\ Plans[t][j] = Plans[t][i] \/ NothingUsable(t, j)
             /\ \A b \in Range(Builders) : LET f == <<Plans[t][i], t, b>> IN
                   Usable(f) => deltas[made[t]].size <= deltas[f].size
      BY <2>2 DEF TInv, CatalogInv, FirstAndSmallest
    <3>3. \A j \in 1 .. i - 1 : NothingUsable(t, j)' <=> NothingUsable(t, j)
      <4> TAKE j \in 1 .. i - 1
      <4>1. j \in 1 .. Len(Plans[t]) BY PlanFacts
      <4> QED BY <1>1, <4>1, PlanKept
    <3>4. SameFile(made[t]) BY <3>1
    <3>5. Usable(made[t])' BY <3>1, <3>4, UsableKept
    <3>6. ASSUME NEW b \in Range(Builders), Usable(<<Plans[t][i], t, b>>)'
          PROVE  deltas'[made[t]].size <= deltas'[<<Plans[t][i], t, b>>].size
      <4>1. SameFile(<<Plans[t][i], t, b>>) BY <1>1, PlanFacts
      <4>2. Usable(<<Plans[t][i], t, b>>) BY <3>6, <4>1, UsableKept
      <4> QED BY <3>1, <3>2, <3>4, <4>1, <4>2 DEF SameFile, Usable
    <3>7. FirstAndSmallest(t)'
      BY <3>1, <3>2, <3>3, <3>6 DEF FirstAndSmallest
    <3> QED BY <3>1, <3>5, <3>7 DEF CatalogInv, Usable
  <2> QED BY <2>1, <2>2
<1> QED BY <1>2, <1>4, <1>5, <1>6, <1>7, <1>8 DEF TInv
-----------------------------------------------------------------------------
(* The steps of a body and its tool.                                       *)

\* They touch one file and one body.
LEMMA FilesTouched ==
  ASSUME NEW u \in Targets, BodyStep(u) \/ ToolStep(u)
  PROVE  \A f : f # File(u) => SameFile(f) /\ SameTemp(f)
<1> SUFFICES ASSUME NEW f, f # File(u) PROVE SameFile(f) /\ SameTemp(f)
  OBVIOUS
<1> USE DEF SameFile, SameTemp, folder
<1>1. CASE BeginItem(u) \/ NoPlanLeft(u) BY <1>1 DEF BeginItem, NoPlanLeft
<1>2. CASE BeginPlan(u) BY <1>2 DEF BeginPlan
<1>3. CASE EndPlan(u) BY <1>3 DEF EndPlan
<1>4. CASE SeeCancellation(u) \/ PassOver(u) BY <1>4 DEF SeeCancellation, PassOver
<1>5. CASE Reuse(u) BY <1>5 DEF Reuse
<1>6. CASE StartTool(u) BY <1>6 DEF StartTool, Without, Restrict
<1>7. CASE Collect(u) \/ CancelTool(u) BY <1>7 DEF Collect, CancelTool
<1>8. CASE GiveUp(u) BY <1>8 DEF GiveUp
<1>9. CASE KillTool(u) BY <1>9 DEF KillTool, Without, Restrict
<1>10. CASE MoveFileWithRetries(u)
  BY <1>10 DEF MoveFileWithRetries, With, Without, Restrict
<1>11. CASE Judge(u) BY <1>11 DEF Judge
<1>12. CASE ToolWrites(u) BY <1>12 DEF ToolWrites, With
<1>13. CASE ToolExits(u) BY <1>13 DEF ToolExits, With, Without, Restrict
<1> QED
  BY <1>1, <1>2, <1>3, <1>4, <1>5, <1>6, <1>7, <1>8, <1>9, <1>10, <1>11,
     <1>12, <1>13 DEF BodyStep, ToolStep

\* A step of one target's worker leaves the others where they were.
LEMMA BodiesTouched ==
  ASSUME Shape, NEW u \in Targets, BodyStep(u) \/ ToolStep(u),
         NEW t \in Targets, t # u
  PROVE  SameBody(t)
<1> USE DEF SameBody, body, position, Goto, Shape
<1>1. CASE BeginItem(u) \/ NoPlanLeft(u) BY <1>1 DEF BeginItem, NoPlanLeft
<1>2. CASE BeginPlan(u) BY <1>2 DEF BeginPlan
<1>3. CASE EndPlan(u) BY <1>3 DEF EndPlan, With
<1>4. CASE SeeCancellation(u) \/ PassOver(u)
  BY <1>4 DEF SeeCancellation, PassOver, Throw, NextBuilder
<1>5. CASE Reuse(u) BY <1>5 DEF Reuse, NextBuilder, Take
<1>6. CASE StartTool(u) BY <1>6 DEF StartTool
<1>7. CASE Collect(u) \/ CancelTool(u) BY <1>7 DEF Collect, CancelTool, Throw
<1>8. CASE GiveUp(u) BY <1>8 DEF GiveUp
<1>9. CASE KillTool(u) BY <1>9 DEF KillTool, NextBuilder
<1>10. CASE MoveFileWithRetries(u) BY <1>10 DEF MoveFileWithRetries, Throw
<1>11. CASE Judge(u) BY <1>11 DEF Judge, NextBuilder, Take
<1>12. CASE ToolWrites(u) BY <1>12 DEF ToolWrites
<1>13. CASE ToolExits(u) BY <1>13 DEF ToolExits
<1> QED
  BY <1>1, <1>2, <1>3, <1>4, <1>5, <1>6, <1>7, <1>8, <1>9, <1>10, <1>11,
     <1>12, <1>13 DEF BodyStep, ToolStep

\* So what is said of the other bodies stays true.
LEMMA OthersKept ==
  ASSUME DeltasAssumption, Shape, NEW u \in Targets,
         BodyStep(u) \/ ToolStep(u),
         NEW t \in Targets, t # u, TInv(t)
  PROVE  TInv(t)'
<1>1. ASSUME NEW f \in DeltaFiles, f[2] = t PROVE f # File(u)
  BY <1>1 DEF File
<1>2. \A f \in DeltaFiles : f[2] = t => SameFile(f) /\ SameTemp(f)
  BY <1>1, FilesTouched
<1>3. SameBody(t) BY BodiesTouched
<1> QED BY <1>2, <1>3, BodyKept
\* A body that is in no plan, or has left it for good.
LEMMA OutsideLoop ==
  ASSUME NEW t \in Targets, TInv(t), UNCHANGED folder, tool'[t] = "none",
         pc'[t] \notin InLoop, best'[t] = best[t]
  PROVE  CallInv(t)' /\ BestInv(t)' /\ BuildersInv(t)'
<1>1. CallInv(t)' BY DEF CallInv, InLoop
<1>2. \A f : Usable(f)' <=> Usable(f) BY DEF Usable, folder
<1>3. BestInv(t)' BY <1>2 DEF TInv, BestInv
<1>4. BuildersInv(t)' BY DEF BuildersInv
<1> QED BY <1>1, <1>3, <1>4

\* A step that leaves the folder alone keeps all that is said of it.
LEMMA FolderKept ==
  ASSUME UNCHANGED folder
  PROVE  /\ FolderInv => FolderInv'
         /\ \A f : SameFile(f) /\ SameTemp(f)
         /\ \A t, j : Passed(t, j)' <=> Passed(t, j)
         /\ \A t, j : NothingUsable(t, j)' <=> NothingUsable(t, j)
BY DEF folder, FolderInv, SameFile, SameTemp, IsSmallFileSize, ShouldDelta,
       Passed, Settled, NothingUsable, Usable

Own(t) == Shape' /\ FolderInv' /\ TInv(t)'

\* BeginItem keeps the invariant of the target it is taken for.
LEMMA OwnBeginItem ==
  ASSUME DeltasAssumption, Shape, FolderInv, NEW t \in Targets, TInv(t),
         BeginItem(t)
  PROVE  Own(t)
<1>1. /\ pc[t] = "waiting" /\ pc' = [pc EXCEPT ![t] = "plan"]
      /\ UNCHANGED <<folder, plan, builder, best, tool, made>>
  BY DEF BeginItem, At, Goto
<1>2. pc'[t] = "plan" BY <1>1 DEF Shape
<1>3. Shape' BY <1>1 DEF Shape, folder, InLoop, Ended
<1>4. PlaceInv(t)' BY <1>1, <1>2, PlanFacts DEF TInv, PlaceInv, InLoop
<1>5. tool'[t] = "none" BY <1>1 DEF TInv, CallInv, Shape
<1>6. CallInv(t)' /\ BestInv(t)' /\ BuildersInv(t)'
  BY <1>1, <1>2, <1>5, OutsideLoop DEF InLoop
<1>7. PlansInv(t)' BY <1>1 DEF TInv, PlaceInv, PlansInv
<1>8. CatalogInv(t)' BY <1>1, <1>2 DEF TInv, CatalogInv
<1> QED BY <1>1, <1>3, <1>4, <1>6, <1>7, <1>8, FolderKept DEF Own, TInv

\* BeginPlan does: no builder has been tried for the plan it begins.
LEMMA OwnBeginPlan ==
  ASSUME DeltasAssumption, Shape, FolderInv, NEW t \in Targets, TInv(t),
         BeginPlan(t)
  PROVE  Own(t)
<1>1. /\ pc[t] = "plan" /\ plan[t] \in 1 .. Len(Plans[t])
      /\ UNCHANGED <<folder, tool, made>>
      /\ t \notin DOMAIN made /\ tool[t] = "none"
  BY PlanFacts DEF BeginPlan, At, TInv, PlaceInv, CatalogInv, CallInv, Shape
<1>2. \A j \in 1 .. plan[t] - 1 : Plans[t][j] # t /\ Passed(t, j)
  BY <1>1 DEF TInv, PlansInv, InLoop
<1>3. CASE /\ Source(t) = t /\ Goto(t, "done")
           /\ UNCHANGED <<plan, builder, best>>
  <2>1. pc' = [pc EXCEPT ![t] = "done"] /\ pc'[t] = "done"
    BY <1>3 DEF Goto, Shape
  <2>2. Shape' BY <1>1, <1>3, <2>1 DEF Shape, folder, InLoop, Ended
  <2>3. PlaceInv(t)' BY <1>1, <1>3, <2>1 DEF TInv, PlaceInv, InLoop
  <2>4. CallInv(t)' /\ BestInv(t)' /\ BuildersInv(t)'
    BY <1>1, <1>3, <2>1, OutsideLoop DEF InLoop
  <2>5. PlansInv(t)' BY <1>1, <1>2, <1>3, <2>1, FolderKept DEF PlansInv
  <2>6. CatalogInv(t)' BY <1>1, <1>3, <2>1 DEF CatalogInv, Source
  <2> QED BY <1>1, <2>2, <2>3, <2>4, <2>5, <2>6, FolderKept DEF Own, TInv
<1>4. CASE /\ Source(t) # t /\ IsSmallFileSize(t)
           /\ plan' = [plan EXCEPT ![t] = @ + 1]
           /\ UNCHANGED <<pc, builder, best>>
  <2>1. plan'[t] = plan[t] + 1 /\ pc'[t] = "plan" BY <1>1, <1>4 DEF Shape
  <2>2. Shape' BY <1>1, <1>4, <2>1 DEF Shape, folder
  <2>3. PlaceInv(t)'
    BY <1>1, <1>4, <2>1, PlanFacts DEF TInv, PlaceInv, InLoop
  <2>4. CallInv(t)' /\ BestInv(t)' /\ BuildersInv(t)'
    BY <1>1, <1>4, <2>1, OutsideLoop DEF InLoop
  <2>5. \A j \in 1 .. plan[t] : Plans[t][j] # t /\ Passed(t, j)
    BY <1>1, <1>2, <1>4 DEF Source, Passed
  <2>6. PlansInv(t)' BY <1>1, <2>1, <2>5, FolderKept DEF PlansInv
  <2>7. CatalogInv(t)' BY <1>1, <1>4, <2>1 DEF CatalogInv
  <2> QED BY <1>1, <2>2, <2>3, <2>4, <2>6, <2>7, FolderKept DEF Own, TInv
<1>5. CASE /\ Source(t) # t /\ ~IsSmallFileSize(t) /\ Goto(t, "builder")
           /\ builder' = [builder EXCEPT ![t] = 1]
           /\ best' = [best EXCEPT ![t] = {}] /\ UNCHANGED plan
  <2>1. /\ pc' = [pc EXCEPT ![t] = "builder"] /\ pc'[t] = "builder"
        /\ builder'[t] = 1 /\ best'[t] = {}
    BY <1>5 DEF Goto, Shape
  <2>2. Shape' BY <1>1, <1>5, <2>1 DEF Shape, folder, InLoop, Ended
  <2>3. PlaceInv(t)'
    BY <1>1, <1>5, <2>1, PlanFacts DEF TInv, PlaceInv, InLoop, Source, IsSmallFileSize
  <2>4. CallInv(t)' BY <1>1, <2>1 DEF CallInv
  <2>5. BestInv(t)' BY <2>1 DEF BestInv
  <2>6. BuildersInv(t)' BY <2>1 DEF BuildersInv
  <2>7. PlansInv(t)' BY <1>1, <1>2, <1>5, <2>1, FolderKept DEF PlansInv
  <2>8. CatalogInv(t)' BY <1>1, <2>1 DEF CatalogInv
  <2> QED
    BY <1>1, <2>2, <2>3, <2>4, <2>5, <2>6, <2>7, <2>8, FolderKept DEF Own, TInv
<1> QED BY <1>3, <1>4, <1>5 DEF BeginPlan

\* NoPlanLeft does: every plan of the target has been passed.
LEMMA OwnNoPlanLeft ==
  ASSUME DeltasAssumption, Shape, FolderInv, NEW t \in Targets, TInv(t),
         NoPlanLeft(t)
  PROVE  Own(t)
<1>1. /\ pc[t] = "plan" /\ plan[t] = Len(Plans[t]) + 1
      /\ pc' = [pc EXCEPT ![t] = "done"]
      /\ UNCHANGED <<folder, plan, builder, best, tool, made>>
      /\ t \notin DOMAIN made /\ tool[t] = "none"
  BY PlanFacts
  DEF NoPlanLeft, At, Goto, TInv, PlaceInv, CatalogInv, CallInv, Shape
<1>2. pc'[t] = "done" BY <1>1 DEF Shape
<1>3. Shape' BY <1>1 DEF Shape, folder, InLoop, Ended
<1>4. PlaceInv(t)' BY <1>1, <1>2 DEF TInv, PlaceInv, InLoop
<1>5. CallInv(t)' /\ BestInv(t)' /\ BuildersInv(t)'
  BY <1>1, <1>2, OutsideLoop DEF InLoop
<1>6. PlansInv(t)' BY <1>1, <1>2, FolderKept DEF TInv, PlansInv, InLoop
<1>7. CatalogInv(t)' BY <1>1, <1>2 DEF CatalogInv
<1> QED BY <1>1, <1>3, <1>4, <1>5, <1>6, <1>7, FolderKept DEF Own, TInv
\* Both files of a plan that gave no delta are settled.
LEMMA OwnEndPlan ==
  ASSUME DeltasAssumption, Shape, FolderInv, NEW t \in Targets, TInv(t),
         EndPlan(t)
  PROVE  Own(t)
<1>1. /\ pc[t] = "builder" /\ builder[t] = 3
      /\ plan[t] \in 1 .. Len(Plans[t])
      /\ UNCHANGED <<folder, builder, best, tool>>
      /\ t \notin DOMAIN made /\ tool[t] = "none"
  BY PlanFacts, BuilderFacts
  DEF EndPlan, At, TInv, PlaceInv, CatalogInv, CallInv, Shape
<1>2. \A j \in 1 .. plan[t] - 1 :
         Plans[t][j] # t /\ (Passed(t, j) \/ Plans[t][j] = Source(t))
  BY <1>1 DEF TInv, PlansInv, InLoop
<1>3. /\ TriedFile(t, 1) = <<Plans[t][plan[t]], t, "bsdiff">>
      /\ TriedFile(t, 2) = <<Plans[t][plan[t]], t, "zstd">>
  BY BuilderFacts DEF TriedFile, Source
<1>4. CASE /\ best[t] = {} /\ Goto(t, "plan")
           /\ plan' = [plan EXCEPT ![t] = @ + 1] /\ UNCHANGED made
  <2>1. /\ pc' = [pc EXCEPT ![t] = "plan"] /\ pc'[t] = "plan"
        /\ plan'[t] = plan[t] + 1
    BY <1>4 DEF Goto, Shape
  <2>2. Shape' BY <1>1, <1>4, <2>1 DEF Shape, folder, InLoop, Ended
  <2>3. PlaceInv(t)'
    BY <1>1, <2>1, PlanFacts DEF TInv, PlaceInv, InLoop
  <2>4. CallInv(t)' /\ BestInv(t)' /\ BuildersInv(t)'
    BY <1>1, <1>4, <2>1, OutsideLoop DEF InLoop
  <2>5. ASSUME ShouldDelta(Source(t), t) PROVE Settled(t, plan[t])
    <3>1. \A k \in 1 .. 2 :
             \/ TriedFile(t, k) \in bad
             \/ TriedFile(t, k) \in DOMAIN deltas /\ deltas[TriedFile(t, k)].size = 0
      BY <1>1, <1>4, <2>5 DEF TInv, BuildersInv, InLoop
    <3> QED BY <1>3, <3>1, BuilderFacts DEF Settled
  <2>6. Passed(t, plan[t]) BY <2>5 DEF Passed, Source
  <2>7. \A j \in 1 .. plan[t] : Plans[t][j] # t /\ Passed(t, j)
    <3>1. \A j \in 1 .. plan[t] - 1 : Plans[t][j] = Source(t) => Passed(t, j)
      BY <2>6 DEF Passed, Settled, Source
    <3>2. Plans[t][plan[t]] # t BY <1>1 DEF TInv, PlaceInv, InLoop, Source
    <3> QED BY <1>1, <1>2, <2>6, <3>1, <3>2
  <2>8. PlansInv(t)' BY <1>1, <2>1, <2>7, FolderKept DEF PlansInv
  <2>9. CatalogInv(t)' BY <1>1, <1>4, <2>1 DEF CatalogInv
  <2> QED BY <1>1, <2>2, <2>3, <2>4, <2>8, <2>9, FolderKept DEF Own, TInv
<1>5. CASE \E f \in best[t] : /\ Goto(t, "done") /\ made' = With(made, t, f)
                              /\ UNCHANGED plan
  <2>1. PICK f \in best[t] : /\ Goto(t, "done") /\ made' = With(made, t, f)
                             /\ UNCHANGED plan
    BY <1>5
  <2>2. /\ pc' = [pc EXCEPT ![t] = "done"] /\ pc'[t] = "done"
        /\ DOMAIN made' = DOMAIN made \union {t} /\ made'[t] = f
    BY <2>1 DEF Goto, Shape, With
  <2>3. Shape' BY <1>1, <2>1, <2>2 DEF Shape, folder, InLoop, Ended
  <2>4. PlaceInv(t)' BY <1>1, <2>1, <2>2, PlanFacts DEF TInv, PlaceInv, InLoop
  <2>5. CallInv(t)' /\ BestInv(t)' /\ BuildersInv(t)'
    BY <1>1, <2>2, OutsideLoop DEF InLoop
  <2>6. PlansInv(t)' BY <2>2 DEF PlansInv
  <2>7. f[2] = t /\ Usable(f) /\ f[1] = Plans[t][plan[t]]
    BY <1>1 DEF TInv, BestInv, InLoop, Source
  <2>8. Usable(f)' BY <1>1, <2>7 DEF Usable, folder
  <2>9. \A j \in 1 .. plan[t] - 1 : Passed(t, j) => NothingUsable(t, j)
    <3>1. ASSUME NEW j \in 1 .. plan[t] - 1, Passed(t, j), NEW b \in Range(Builders)
          PROVE  ~Usable(<<Plans[t][j], t, b>>)
      BY <3>1 DEF Passed, Settled, Usable, FolderInv
    <3> QED BY <3>1 DEF NothingUsable
  <2>10. ASSUME NEW b \in Range(Builders), Usable(<<Plans[t][plan[t]], t, b>>)
         PROVE  deltas[f].size <= deltas[<<Plans[t][plan[t]], t, b>>].size
    <3>1. b = "bsdiff" \/ b = "zstd" BY BuilderFacts
    <3>2. PICK k \in 1 .. 2 : TriedFile(t, k) = <<Plans[t][plan[t]], t, b>>
      BY <1>3, <3>1
    <3> QED BY <1>1, <2>10, <3>2 DEF TInv, BuildersInv, InLoop
  <2>11. FirstAndSmallest(t)'
    <3>1. PICK i \in DOMAIN Plans[t] : i = plan[t] BY <1>1, PlanFacts
    <3>2. \A j \in 1 .. i - 1 :
             /\ Plans[t][j] # t
             /\ Plans[t][j] = Plans[t][i] \/ NothingUsable(t, j)'
      BY <1>1, <1>2, <2>9, <3>1, FolderKept DEF Source
    <3>3. ASSUME NEW b \in Range(Builders), Usable(<<Plans[t][i], t, b>>)'
          PROVE  deltas'[f].size <= deltas'[<<Plans[t][i], t, b>>].size
      BY <1>1, <2>10, <3>1, <3>3 DEF folder, Usable
    <3> QED BY <2>2, <2>7, <3>1, <3>2, <3>3 DEF FirstAndSmallest
  <2>12. CatalogInv(t)' BY <2>2, <2>7, <2>8, <2>11 DEF CatalogInv, Usable
  <2> QED BY <1>1, <2>3, <2>4, <2>5, <2>6, <2>12, FolderKept DEF Own, TInv
<1> QED BY <1>4, <1>5 DEF EndPlan

\* A body that throws leaves the folder as it is.
LEMMA OwnThrow ==
  ASSUME DeltasAssumption, Shape, FolderInv, NEW t \in Targets, TInv(t),
         pc[t] \in InLoop, Throw(t), UNCHANGED <<folder, made>>,
         tool' = [tool EXCEPT ![t] = "none"]
  PROVE  Own(t)
<1>1. /\ pc' = [pc EXCEPT ![t] = "threw"] /\ pc'[t] = "threw"
      /\ tool'[t] = "none" /\ t \notin DOMAIN made
      /\ UNCHANGED <<plan, builder, best>>
      /\ plan[t] \in 1 .. Len(Plans[t])
  BY PlanFacts DEF Throw, Goto, Shape, TInv, CatalogInv, PlaceInv, InLoop
<1>2. Shape' BY <1>1 DEF Shape, folder, InLoop, Ended
<1>3. PlaceInv(t)' BY <1>1, PlanFacts DEF PlaceInv, InLoop
<1>4. CallInv(t)' /\ BestInv(t)' /\ BuildersInv(t)'
  BY <1>1, OutsideLoop DEF InLoop
<1>5. PlansInv(t)' BY <1>1 DEF PlansInv, InLoop
<1>6. CatalogInv(t)' BY <1>1 DEF CatalogInv
<1> QED BY <1>1, <1>2, <1>3, <1>4, <1>5, <1>6, FolderKept DEF Own, TInv
-----------------------------------------------------------------------------
(* The end of a call: the next builder, with the best delta so far.        *)

\* The file being built is not one the call has tried before.
LEMMA CurrentFile ==
  ASSUME DeltasAssumption, NEW t \in Targets, TInv(t), Shape,
         pc[t] \in InLoop, builder[t] \in 1 .. 2
  PROVE  /\ File(t) \in DeltaFiles /\ File(t)[1] = Source(t) /\ File(t)[2] = t
         /\ File(t) = TriedFile(t, builder[t])
         /\ plan[t] \in 1 .. Len(Plans[t])
         /\ \A k \in 1 .. builder[t] - 1 : TriedFile(t, k) # File(t)
<1>1. plan[t] \in 1 .. Len(Plans[t])
  BY PlanFacts DEF TInv, PlaceInv, InLoop, Shape
<1>2. Builders[builder[t]] \in Range(Builders) BY BuilderFacts
<1>3. File(t) = <<Plans[t][plan[t]], t, Builders[builder[t]]>>
  BY DEF File, Source
<1>4. File(t) \in DeltaFiles BY <1>1, <1>2, <1>3, FileFacts
<1>5. ASSUME NEW k \in 1 .. builder[t] - 1 PROVE TriedFile(t, k) # File(t)
  <2>1. k = 1 /\ builder[t] = 2 BY <1>5
  <2> QED BY <2>1, BuilderFacts DEF TriedFile, File
<1>6. File(t) = TriedFile(t, builder[t]) BY DEF TriedFile, File
<1>7. File(t)[1] = Source(t) /\ File(t)[2] = t BY DEF File
<1> QED BY <1>1, <1>4, <1>5, <1>6, <1>7

\* What is the best after the call is usable, no worse than what was, and
\* none is better in the call's own file, F.
Judged(t, F) ==
    /\ \A b, c \in best'[t] : b = c
    /\ \A b \in best'[t] : b[2] = t /\ Usable(b)' /\ b[1] = Source(t)
    /\ best[t] # {} => best'[t] # {}
    /\ \A b \in best'[t], c \in best[t] : deltas'[b].size <= deltas[c].size
    /\ Usable(F)' => /\ best'[t] # {}
                     /\ \A b \in best'[t] : deltas'[b].size <= deltas'[F].size
    /\ \/ best'[t] # {} \/ ~ShouldDelta(Source(t), t) \/ F \in bad'
       \/ F \in DOMAIN deltas' /\ deltas'[F].size = 0

\* A delta file, finished or not, has a size.
LEMMA SizeFacts ==
  ASSUME DeltasAssumption, NEW x \in FileType
  PROVE  x.size \in Nat
<1>1. CASE x = Unfinished BY <1>1 DEF Unfinished
<1>2. CASE x \in [size : DeltaSizes, whole : {TRUE}]
  <2>1. x.size \in DeltaSizes BY <1>2
  <2> QED BY <2>1 DEF DeltasAssumption
<1> QED BY <1>1, <1>2 DEF FileType

\* So the sizes ShouldDelta compares are numbers ...
LEMMA SizesAreNumbers ==
  ASSUME DeltasAssumption, FolderInv
  PROVE  \A f \in DOMAIN deltas : deltas[f].size \in Nat
BY SizeFacts DEF FolderInv

\* ... after the step as before it.
LEMMA SizesStayNumbers ==
  ASSUME DeltasAssumption, FolderInv'
  PROVE  \A f \in DOMAIN deltas' : deltas'[f].size \in Nat
<1>1. \A f \in DOMAIN deltas' : deltas'[f] \in FileType
  BY DEF FolderInv, FileType, Unfinished
<1> QED BY <1>1, SizeFacts

\* A call of a builder that ends with its file judged keeps the invariant.
LEMMA EndOfCall ==
  ASSUME DeltasAssumption, Shape, FolderInv, FolderInv', NEW t \in Targets,
         TInv(t), pc[t] \in InLoop, builder[t] \in 1 .. 2,
         pc'[t] = "builder", builder'[t] = builder[t] + 1, plan'[t] = plan[t],
         tool'[t] = "none", made' = made,
         NEW F, F = File(t), \A f : f # F => SameFile(f), Judged(t, F)
  PROVE  TInv(t)'
<1>1. /\ F = TriedFile(t, builder[t]) /\ plan[t] \in 1 .. Len(Plans[t])
      /\ Source(t)' = Source(t) /\ F[1] = Source(t)
  BY CurrentFile DEF Source
<1>2. PlaceInv(t)'
  BY PlanFacts, <1>1 DEF TInv, PlaceInv, InLoop, IsSmallFileSize
<1>3. CallInv(t)' BY DEF CallInv
<1>4. BestInv(t)' BY <1>1 DEF BestInv, Judged, Usable
<1>5. BuildersInv(t)'
  <2>1. SUFFICES ASSUME NEW k \in 1 .. builder[t], NEW f, f = TriedFile(t, k)
                 PROVE  /\ Usable(f)' =>
                              /\ best'[t] # {}
                              /\ \A b \in best'[t] :
                                    deltas'[b].size <= deltas'[f].size
                        /\ \/ best'[t] # {}
                           \/ ~ShouldDelta(Source(t), t)
                           \/ f \in bad'
                           \/ f \in DOMAIN deltas' /\ deltas'[f].size = 0
    BY <1>1 DEF BuildersInv, TriedFile, ShouldDelta, Usable
  <2>2. CASE k = builder[t] BY <1>1, <2>1, <2>2 DEF Judged
  <2>3. CASE k \in 1 .. builder[t] - 1
    <3>1. f # F BY <2>1, <2>3, CurrentFile
    <3>2. SameFile(f) /\ (Usable(f)' => Usable(f)) BY <3>1, UsableKept
    <3>3. /\ Usable(f) =>
                best[t] # {} /\ \A b \in best[t] : deltas[b].size <= deltas[f].size
          /\ \/ best[t] # {}
             \/ ~ShouldDelta(Source(t), t)
             \/ f \in bad
             \/ f \in DOMAIN deltas /\ deltas[f].size = 0
      BY <2>1, <2>3 DEF TInv, BuildersInv
    <3>4. ASSUME Usable(f)'
          PROVE  /\ best'[t] # {}
                 /\ \A b \in best'[t] : deltas'[b].size <= deltas'[f].size
      <4>1. PICK c \in best[t] : deltas[c].size <= deltas[f].size
        BY <3>2, <3>3, <3>4
      <4>2. c \in DOMAIN deltas /\ f \in DOMAIN deltas /\ deltas'[f] = deltas[f]
        BY <3>2, <3>4, <4>1 DEF TInv, BestInv, Usable, SameFile
      <4>3. \A b \in best'[t] :
               b \in DOMAIN deltas' /\ deltas'[b].size <= deltas[c].size
        BY <4>1 DEF Judged, Usable
      <4>4. \A b \in best'[t] : deltas'[b].size \in Nat
        BY <4>3, SizesStayNumbers
      <4> QED BY <4>1, <4>2, <4>3, <4>4, SizesAreNumbers DEF Judged
    <3> QED BY <3>2, <3>3, <3>4 DEF Judged, SameFile
  <2> QED BY <2>2, <2>3
<1>6. PlansInv(t)'
  <2>1. SUFFICES ASSUME t \notin DOMAIN made, NEW j \in 1 .. plan[t] - 1
                 PROVE  /\ Plans[t][j] # t
                        /\ Passed(t, j)' \/ Plans[t][j] = Source(t)
    BY <1>1 DEF PlansInv, InLoop
  <2>2. Plans[t][j] # t /\ (Passed(t, j) \/ Plans[t][j] = Source(t))
    BY <2>1 DEF TInv, PlansInv
  <2>3. ASSUME Plans[t][j] # Source(t) PROVE Passed(t, j)' <=> Passed(t, j)
    <3>1. \A b \in Range(Builders) : <<Plans[t][j], t, b>> # F
      BY <1>1, <2>3
    <3> QED BY <3>1, PlanKept
  <2> QED BY <2>2, <2>3
<1>7. CatalogInv(t)' BY DEF TInv, CatalogInv, InLoop
<1> QED BY <1>2, <1>3, <1>4, <1>5, <1>6, <1>7 DEF TInv
-----------------------------------------------------------------------------
(* The steps of a call.                                                    *)

\* A step inside a call, on its own file, keeps what is known of the others.
LEMMA WithinCall ==
  ASSUME DeltasAssumption, Shape, NEW t \in Targets, TInv(t),
         pc[t] \in InLoop, pc'[t] \in InLoop, builder[t] \in 1 .. 2,
         plan'[t] = plan[t], builder'[t] = builder[t], best'[t] = best[t],
         made' = made,
         NEW F, F = File(t), F \notin best[t], \A f : f # F => SameFile(f)
  PROVE  BestInv(t)' /\ BuildersInv(t)' /\ PlansInv(t)' /\ CatalogInv(t)'
<1>1. /\ F = TriedFile(t, builder[t]) /\ plan[t] \in 1 .. Len(Plans[t])
      /\ Source(t)' = Source(t) /\ F[1] = Source(t)
  BY CurrentFile DEF Source
<1>2. BestInv(t)'
  <2>1. /\ \A f \in best[t] : f[2] = t /\ f[1] = Source(t) /\ Usable(f) /\ f # F
        /\ \A f, g \in best[t] : f = g
    BY DEF TInv, BestInv
  <2>2. \A f \in best[t] : Usable(f)' BY <2>1, UsableKept
  <2> QED BY <1>1, <2>1, <2>2 DEF BestInv, Usable
<1>3. BuildersInv(t)'
  <2>1. SUFFICES ASSUME NEW k \in 1 .. builder[t] - 1, NEW f, f = TriedFile(t, k)
                 PROVE  /\ Usable(f)' =>
                              /\ best[t] # {}
                              /\ \A b \in best[t] :
                                    deltas'[b].size <= deltas'[f].size
                        /\ \/ best[t] # {}
                           \/ ~ShouldDelta(Source(t), t)
                           \/ f \in bad'
                           \/ f \in DOMAIN deltas' /\ deltas'[f].size = 0
    BY <1>1 DEF BuildersInv, TriedFile, ShouldDelta, Usable
  <2>2. f # F BY <2>1, CurrentFile
  <2>3. SameFile(f) /\ (Usable(f)' => Usable(f)) BY <2>2, UsableKept
  <2>4. \A b \in best[t] : b \in DOMAIN deltas /\ deltas'[b] = deltas[b]
    BY DEF TInv, BestInv, Usable, SameFile
  <2>5. /\ Usable(f) =>
              best[t] # {} /\ \A b \in best[t] : deltas[b].size <= deltas[f].size
        /\ \/ best[t] # {}
           \/ ~ShouldDelta(Source(t), t)
           \/ f \in bad
           \/ f \in DOMAIN deltas /\ deltas[f].size = 0
    BY <2>1 DEF TInv, BuildersInv
  <2> QED BY <2>3, <2>4, <2>5 DEF SameFile, Usable
<1>4. PlansInv(t)'
  <2>1. SUFFICES ASSUME t \notin DOMAIN made, NEW j \in 1 .. plan[t] - 1
                 PROVE  /\ Plans[t][j] # t
                        /\ Passed(t, j)' \/ Plans[t][j] = Source(t)
    BY <1>1 DEF PlansInv, InLoop
  <2>2. Plans[t][j] # t /\ (Passed(t, j) \/ Plans[t][j] = Source(t))
    BY <2>1 DEF TInv, PlansInv
  <2>3. ASSUME Plans[t][j] # Source(t) PROVE Passed(t, j)' <=> Passed(t, j)
    <3>1. \A b \in Range(Builders) : <<Plans[t][j], t, b>> # F BY <1>1, <2>3
    <3> QED BY <3>1, PlanKept
  <2> QED BY <2>2, <2>3
<1>5. CatalogInv(t)' BY DEF TInv, CatalogInv, InLoop
<1> QED BY <1>2, <1>3, <1>4, <1>5

\* The current file is not the best while its delta is made.
LEMMA NotYetBest ==
  ASSUME NEW t \in Targets, TInv(t),
         \/ File(t) \notin DOMAIN deltas
         \/ deltas[File(t)].size = 0
  PROVE  File(t) \notin best[t]
BY DEF TInv, BestInv, Usable

\* StartTool does: an empty file of the call is removed, no judged one.
LEMMA OwnStartTool ==
  ASSUME DeltasAssumption, Shape, FolderInv, NEW t \in Targets, TInv(t),
         StartTool(t)
  PROVE  Own(t)
<1>1. /\ pc[t] = "builder" /\ builder[t] \in 1 .. 2
      /\ ShouldDelta(Source(t), t) /\ File(t) \notin bad
      /\ File(t) \in DOMAIN deltas => deltas[File(t)].size = 0
      /\ deltas' = Without(deltas, File(t))
      /\ pc' = [pc EXCEPT ![t] = "tool"] /\ tool' = [tool EXCEPT ![t] = "running"]
      /\ UNCHANGED <<temps, bad, plan, builder, best, made>>
  BY BuilderFacts DEF StartTool, Wanted, Offered, At, Goto, Shape
<1>2. pc'[t] = "tool" /\ tool'[t] = "running" /\ DOMAIN deltas' = DOMAIN deltas \ {File(t)}
  BY <1>1 DEF Shape, Without, Restrict
<1>3. Shape' BY <1>1, <1>2 DEF Shape, InLoop
<1>4. FolderInv' BY <1>1 DEF FolderInv, Without, Restrict, IsSmallFileSize, ShouldDelta
<1>5. PlaceInv(t)'
  BY <1>1, <1>2, CurrentFile DEF TInv, PlaceInv, InLoop, Source, IsSmallFileSize, ShouldDelta
<1>6. CallInv(t)' BY <1>1, <1>2 DEF CallInv, File, Source
<1>7. BestInv(t)' /\ BuildersInv(t)' /\ PlansInv(t)' /\ CatalogInv(t)'
  <2>1. PICK F : F = File(t) OBVIOUS
  <2>2. F \notin best[t] BY <1>1, <2>1, NotYetBest
  <2>3. \A f : f # F => SameFile(f) BY <2>1, FilesTouched DEF BodyStep
  <2> QED BY <1>1, <1>2, <2>1, <2>2, <2>3, WithinCall DEF InLoop
<1> QED BY <1>3, <1>4, <1>5, <1>6, <1>7 DEF Own, TInv

\* GiveUp does: the file is marked bad before the tool is killed.
LEMMA OwnGiveUp ==
  ASSUME DeltasAssumption, Shape, FolderInv, NEW t \in Targets, TInv(t),
         GiveUp(t)
  PROVE  Own(t)
<1>1. /\ pc[t] = "tool" /\ bad' = bad \union {File(t)}
      /\ pc' = [pc EXCEPT ![t] = "kill"]
      /\ UNCHANGED <<deltas, temps, plan, builder, best, tool, made>>
      /\ builder[t] \in 1 .. 2 /\ File(t) \notin DOMAIN deltas
  BY DEF GiveUp, At, Goto, TInv, PlaceInv, CallInv, InLoop
<1>2. pc'[t] = "kill" BY <1>1 DEF Shape
<1>3. File(t) \in DeltaFiles /\ plan[t] \in 1 .. Len(Plans[t])
  BY <1>1, CurrentFile DEF InLoop
<1>4. Shape' BY <1>1, <1>3 DEF Shape, InLoop
<1>5. FolderInv' BY <1>1 DEF FolderInv, IsSmallFileSize, ShouldDelta
<1>6. PlaceInv(t)'
  BY <1>1, <1>2 DEF TInv, PlaceInv, InLoop, Source, IsSmallFileSize, ShouldDelta
<1>7. CallInv(t)' BY <1>1, <1>2 DEF TInv, CallInv, File, Source
<1>8. BestInv(t)' /\ BuildersInv(t)' /\ PlansInv(t)' /\ CatalogInv(t)'
  <2>1. PICK F : F = File(t) OBVIOUS
  <2>2. F \notin best[t] BY <1>1, <2>1, NotYetBest
  <2>3. \A f : f # F => SameFile(f) BY <2>1, FilesTouched DEF BodyStep
  <2> QED BY <1>1, <1>2, <2>1, <2>2, <2>3, WithinCall DEF InLoop
<1> QED BY <1>4, <1>5, <1>6, <1>7, <1>8 DEF Own, TInv

\* Collect does: it only looks for the temporary file, or throws.
LEMMA OwnCollect ==
  ASSUME DeltasAssumption, Shape, FolderInv, NEW t \in Targets, TInv(t),
         Collect(t)
  PROVE  Own(t)
<1>1. /\ pc[t] = "tool" /\ tool[t] = "ok"
      /\ tool' = [tool EXCEPT ![t] = "none"] /\ tool'[t] = "none"
      /\ UNCHANGED <<folder, made>>
      /\ builder[t] \in 1 .. 2 /\ File(t) \notin DOMAIN deltas
      /\ File(t) \in DOMAIN temps => temps[File(t)].whole
  BY DEF Collect, Succeeded, At, TInv, PlaceInv, CallInv, InLoop, Shape
<1>2. CASE File(t) \in DOMAIN temps /\ Goto(t, "move") /\ UNCHANGED <<plan, builder, best>>
  <2>1. pc' = [pc EXCEPT ![t] = "move"] /\ pc'[t] = "move"
    BY <1>2 DEF Goto, Shape
  <2>2. Shape' BY <1>1, <1>2, <2>1 DEF Shape, InLoop, folder
  <2>3. PlaceInv(t)'
    BY <1>1, <1>2, <2>1 DEF TInv, PlaceInv, InLoop, Source, IsSmallFileSize, ShouldDelta
  <2>4. CallInv(t)'
    BY <1>1, <1>2, <2>1 DEF TInv, CallInv, File, Source, folder
  <2>5. BestInv(t)' /\ BuildersInv(t)' /\ PlansInv(t)' /\ CatalogInv(t)'
    <3>1. PICK F : F = File(t) OBVIOUS
    <3>2. F \notin best[t] BY <1>1, <3>1, NotYetBest
    <3>3. \A f : f # F => SameFile(f) BY <1>1, FolderKept
    <3> QED BY <1>1, <1>2, <2>1, <3>1, <3>2, <3>3, WithinCall DEF InLoop
  <2> QED BY <1>1, <2>2, <2>3, <2>4, <2>5, FolderKept DEF Own, TInv
<1>3. CASE Throw(t) BY <1>1, <1>3, OwnThrow DEF InLoop
<1> QED BY <1>2, <1>3 DEF Collect
\* MoveFileWithRetries does: the file it leaves is the finished one.
LEMMA OwnMove ==
  ASSUME DeltasAssumption, Shape, FolderInv, NEW t \in Targets, TInv(t),
         MoveFileWithRetries(t)
  PROVE  Own(t)
<1>1. /\ pc[t] = "move" /\ tool[t] = "none"
      /\ UNCHANGED <<bad, tool, made>>
      /\ builder[t] \in 1 .. 2 /\ ShouldDelta(Source(t), t)
      /\ ~IsSmallFileSize(t) /\ File(t) \notin bad
      /\ File(t) \notin DOMAIN deltas
      /\ File(t) \in DOMAIN temps /\ temps[File(t)].whole
  BY DEF MoveFileWithRetries, At, TInv, PlaceInv, CallInv, InLoop, Shape
<1>2. /\ File(t) \in DeltaFiles /\ File(t)[1] = Source(t) /\ File(t)[2] = t
  BY <1>1, CurrentFile DEF InLoop
<1>3. CASE /\ deltas' = With(deltas, File(t), temps[File(t)])
           /\ temps' = Without(temps, File(t))
           /\ Goto(t, "judge") /\ UNCHANGED <<plan, builder, best>>
  <2>1. /\ pc' = [pc EXCEPT ![t] = "judge"] /\ pc'[t] = "judge"
        /\ DOMAIN deltas' = DOMAIN deltas \union {File(t)}
        /\ DOMAIN temps' = DOMAIN temps \ {File(t)}
        /\ deltas'[File(t)] = temps[File(t)]
        /\ \A f \in DOMAIN deltas : deltas'[f] = deltas[f]
        /\ \A f \in DOMAIN temps' : temps'[f] = temps[f]
    BY <1>1, <1>3 DEF Goto, Shape, With, Without, Restrict
  <2>2. Shape' BY <1>1, <1>2, <1>3, <2>1 DEF Shape, InLoop
  <2>3. FolderInv'
    BY <1>1, <1>2, <2>1 DEF FolderInv, IsSmallFileSize, ShouldDelta
  <2>4. PlaceInv(t)'
    BY <1>1, <1>3, <2>1 DEF TInv, PlaceInv, InLoop, Source, IsSmallFileSize, ShouldDelta
  <2>5. CallInv(t)' BY <1>1, <1>3, <2>1 DEF CallInv, File, Source
  <2>6. BestInv(t)' /\ BuildersInv(t)' /\ PlansInv(t)' /\ CatalogInv(t)'
    <3>1. PICK F : F = File(t) OBVIOUS
    <3>2. F \notin best[t] BY <1>1, <3>1, NotYetBest
    <3>3. \A f : f # F => SameFile(f) BY <3>1, FilesTouched DEF BodyStep
    <3> QED BY <1>1, <1>3, <2>1, <3>1, <3>2, <3>3, WithinCall DEF InLoop
  <2> QED BY <2>2, <2>3, <2>4, <2>5, <2>6 DEF Own, TInv
<1>4. CASE Throw(t) /\ UNCHANGED <<deltas, temps>>
  <2>1. tool' = [tool EXCEPT ![t] = "none"] BY <1>1 DEF Shape
  <2> QED BY <1>1, <1>4, <2>1, OwnThrow DEF InLoop, folder
<1> QED BY <1>3, <1>4 DEF MoveFileWithRetries

\* A cancelled worker does: it ends, and nothing of its own is in the catalog.
LEMMA OwnThrown ==
  ASSUME DeltasAssumption, Shape, FolderInv, NEW t \in Targets, TInv(t),
         SeeCancellation(t) \/ CancelTool(t)
  PROVE  Own(t)
<1>1. CASE SeeCancellation(t)
  <2>1. /\ pc[t] = "builder" /\ Throw(t) /\ UNCHANGED <<folder, tool, made>>
        /\ tool[t] = "none"
    BY <1>1 DEF SeeCancellation, Offered, At, TInv, CallInv, Shape
  <2>2. tool' = [tool EXCEPT ![t] = "none"] BY <2>1 DEF Shape
  <2> QED BY <2>1, <2>2, OwnThrow DEF InLoop
<1>2. CASE CancelTool(t)
  <2>1. /\ pc[t] = "tool" /\ Throw(t) /\ UNCHANGED <<folder, made>>
        /\ tool' = [tool EXCEPT ![t] = "none"]
    BY <1>2 DEF CancelTool, At
  <2> QED BY <2>1, OwnThrow DEF InLoop
<1> QED BY <1>1, <1>2

\* A delta that was not taken: the best stays, and F is of no use.
LEMMA PassedOver ==
  ASSUME DeltasAssumption, Shape, FolderInv, FolderInv', NEW t \in Targets, TInv(t),
         pc[t] \in InLoop, NextBuilder(t), builder[t] \in 1 .. 2,
         tool'[t] = "none", made' = made,
         DOMAIN temps' \subseteq DeltaFiles, bad' \subseteq DeltaFiles,
         DOMAIN deltas' \subseteq DeltaFiles,
         tool' \in [Targets -> {"none", "running", "ok", "failed"}],
         NEW F, F = File(t), F \notin best[t], \A f : f # F => SameFile(f),
         F \in bad' \/ (~ShouldDelta(Source(t), t) /\ F \notin DOMAIN deltas')
  PROVE  Shape' /\ TInv(t)'
<1>1. /\ pc' = [pc EXCEPT ![t] = "builder"] /\ pc'[t] = "builder"
      /\ builder' = [builder EXCEPT ![t] = @ + 1]
      /\ builder'[t] = builder[t] + 1 /\ UNCHANGED <<plan, best>>
  BY DEF NextBuilder, Goto, Shape
<1>2. Shape' BY <1>1 DEF Shape, InLoop
<1>3. Judged(t, F)
  <2>1. \A b \in best[t] : b[2] = t /\ Usable(b) /\ b[1] = Source(t) /\ b # F
    BY DEF TInv, BestInv
  <2>2. \A b \in best[t] : Usable(b)' /\ deltas'[b] = deltas[b]
    BY <2>1, UsableKept DEF SameFile, Usable
  <2>3. ~Usable(F)' BY DEF Usable
  <2>4. \A b, c \in best[t] : deltas'[b].size <= deltas[c].size
    <3> TAKE b, c \in best[t]
    <3>1. b = c BY DEF TInv, BestInv
    <3>2. b \in DOMAIN deltas /\ deltas[b].size \in Nat
      BY <2>1, SizesAreNumbers DEF Usable
    <3> QED BY <2>2, <3>1, <3>2
  <2>5. \A b, c \in best[t] : b = c BY DEF TInv, BestInv
  <2> QED BY <1>1, <2>1, <2>2, <2>3, <2>4, <2>5 DEF Judged
<1>4. TInv(t)' BY <1>1, <1>3, EndOfCall
<1> QED BY <1>2, <1>4
\* PassOver does: the file of the call is judged without the tool.
LEMMA OwnPassOver ==
  ASSUME DeltasAssumption, Shape, FolderInv, NEW t \in Targets, TInv(t),
         PassOver(t)
  PROVE  Own(t)
<1>1. /\ pc[t] = "builder" /\ builder[t] \in 1 .. 2 /\ NextBuilder(t)
      /\ UNCHANGED <<folder, tool, made>> /\ tool[t] = "none"
      /\ ~ShouldDelta(Source(t), t) \/ File(t) \in bad
  BY BuilderFacts
  DEF PassOver, Offered, At, Shape, TInv, CallInv
<1>2. PICK F : F = File(t) OBVIOUS
<1>3. F[1] = Source(t) /\ F[2] = t BY <1>1, <1>2, CurrentFile DEF InLoop
<1>4. F \in bad \/ (~ShouldDelta(Source(t), t) /\ F \notin DOMAIN deltas)
  BY <1>1, <1>2, <1>3 DEF FolderInv
<1>5. F \notin best[t] BY <1>4 DEF TInv, BestInv, Usable
<1>6. /\ DOMAIN temps' \subseteq DeltaFiles /\ bad' \subseteq DeltaFiles
      /\ DOMAIN deltas' \subseteq DeltaFiles
      /\ tool' \in [Targets -> {"none", "running", "ok", "failed"}]
      /\ F \in bad' \/ (~ShouldDelta(Source(t), t) /\ F \notin DOMAIN deltas')
      /\ tool'[t] = "none" /\ made' = made
  BY <1>1, <1>4 DEF Shape, folder
<1>7. FolderInv' /\ \A f : SameFile(f) BY <1>1, FolderKept
<1>8. Shape' /\ TInv(t)'
  BY <1>1, <1>2, <1>5, <1>6, <1>7, PassedOver DEF InLoop
<1> QED BY <1>7, <1>8 DEF Own

\* KillTool does: the call ends with its file marked bad.
LEMMA OwnKillTool ==
  ASSUME DeltasAssumption, Shape, FolderInv, NEW t \in Targets, TInv(t),
         KillTool(t)
  PROVE  Own(t)
<1>1. /\ pc[t] = "kill" /\ builder[t] \in 1 .. 2 /\ NextBuilder(t)
      /\ tool' = [tool EXCEPT ![t] = "none"]
      /\ temps' = Without(temps, File(t))
      /\ UNCHANGED <<deltas, bad, made>>
      /\ File(t) \in bad /\ File(t) \notin DOMAIN deltas
  BY DEF KillTool, At, Shape, TInv, CallInv, PlaceInv, InLoop
<1>2. PICK F : F = File(t) OBVIOUS
<1>3. F \notin best[t] BY <1>1, <1>2, NotYetBest
<1>4. /\ DOMAIN temps' \subseteq DeltaFiles /\ bad' \subseteq DeltaFiles
      /\ DOMAIN deltas' \subseteq DeltaFiles
      /\ tool' \in [Targets -> {"none", "running", "ok", "failed"}]
      /\ F \in bad' /\ tool'[t] = "none" /\ made' = made
  BY <1>1, <1>2 DEF Shape, Without, Restrict
<1>5. FolderInv'
  BY <1>1 DEF FolderInv, Without, Restrict, IsSmallFileSize, ShouldDelta
<1>6. \A f : f # F => SameFile(f) BY <1>2, FilesTouched DEF BodyStep
<1>7. Shape' /\ TInv(t)'
  BY <1>1, <1>2, <1>3, <1>4, <1>5, <1>6, PassedOver DEF InLoop
<1> QED BY <1>5, <1>7 DEF Own

\* The delta, which an earlier run left or this one made, is judged.
LEMMA OwnJudge ==
  ASSUME DeltasAssumption, Shape, FolderInv, NEW t \in Targets, TInv(t),
         Judge(t) \/ Reuse(t)
  PROVE  Own(t)
<1>1. /\ pc[t] \in InLoop /\ builder[t] \in 1 .. 2
      /\ UNCHANGED <<deltas, temps, tool, made>> /\ tool[t] = "none"
      /\ File(t) \in DOMAIN deltas /\ File(t) \notin bad
      /\ \/ /\ TooLarge(File(t)) /\ bad' = bad \union {File(t)}
            /\ NextBuilder(t)
         \/ /\ ~TooLarge(File(t)) /\ Take(t, File(t)) /\ UNCHANGED bad
  <2>1. CASE Judge(t) BY <2>1 DEF Judge, At, Shape, TInv, CallInv, PlaceInv, InLoop
  <2>2. CASE Reuse(t)
    BY <2>2, BuilderFacts DEF Reuse, Wanted, Offered, At, Shape, TInv, CallInv, InLoop
  <2> QED BY <2>1, <2>2
<1>2. PICK F : F = File(t) OBVIOUS
<1>3. F[1] = Source(t) /\ F[2] = t /\ F \in DeltaFiles
  BY <1>1, <1>2, CurrentFile
<1>4. FolderInv' BY <1>1 DEF FolderInv, IsSmallFileSize, ShouldDelta
<1>5. deltas[F].size \in Nat /\ deltas[F].whole /\ Length[t] \in Nat
  BY <1>1, <1>2, SizesAreNumbers, PlanFacts DEF FolderInv
<1>6. CASE TooLarge(F) /\ bad' = bad \union {F} /\ NextBuilder(t)
  <2>1. F \notin best[t]
    BY <1>3, <1>5, <1>6 DEF TooLarge, TInv, BestInv, Usable
  <2>2. \A f : f # F => SameFile(f) BY <1>1, <1>6 DEF SameFile
  <2>3. /\ DOMAIN temps' \subseteq DeltaFiles /\ bad' \subseteq DeltaFiles
        /\ DOMAIN deltas' \subseteq DeltaFiles
        /\ tool' \in [Targets -> {"none", "running", "ok", "failed"}]
        /\ F \in bad' /\ tool'[t] = "none" /\ made' = made
    BY <1>1, <1>3, <1>6 DEF Shape
  <2>4. Shape' /\ TInv(t)'
    BY <1>1, <1>2, <1>4, <1>6, <2>1, <2>2, <2>3, PassedOver
  <2> QED BY <1>4, <2>4 DEF Own
<1>7. CASE ~TooLarge(F) /\ Take(t, F) /\ UNCHANGED bad
  <2>1. /\ pc' = [pc EXCEPT ![t] = "builder"] /\ pc'[t] = "builder"
        /\ builder' = [builder EXCEPT ![t] = @ + 1]
        /\ builder'[t] = builder[t] + 1 /\ plan' = plan
        /\ tool'[t] = "none"
        /\ \/ Improves(t, F) /\ best' = [best EXCEPT ![t] = {F}] /\ best'[t] = {F}
           \/ ~Improves(t, F) /\ best' = best
    BY <1>1, <1>7 DEF Take, Goto, Shape
  <2>2. Shape' BY <1>1, <1>3, <1>7, <2>1 DEF Shape, InLoop
  <2>3. \A f : SameFile(f) BY <1>1, <1>7 DEF SameFile
  <2>4. \A b \in best[t] :
           /\ b[2] = t /\ Usable(b) /\ b[1] = Source(t)
           /\ b \in DOMAIN deltas /\ deltas[b].size \in Nat
    BY <1>1, SizesAreNumbers DEF TInv, BestInv, Usable
  <2>5. \A b, c \in best[t] : b = c BY DEF TInv, BestInv
  <2>6. \A f : Usable(f)' <=> Usable(f) BY <2>3, UsableKept
  <2>7. Judged(t, F)
    <3>1. CASE Improves(t, F) /\ best'[t] = {F}
      <4>1. Usable(F)
        BY <1>1, <1>2, <1>3, <1>5, <1>7, <3>1 DEF Usable, TooLarge, Improves
      <4>2. \A c \in best[t] : deltas[F].size <= deltas[c].size
        BY <1>5, <2>4, <3>1 DEF Improves
      <4> QED BY <1>1, <1>3, <1>5, <2>6, <3>1, <4>1, <4>2 DEF Judged
    <3>2. CASE ~Improves(t, F) /\ best' = best
      <4>1. CASE deltas[F].size = 0
        BY <1>1, <1>2, <2>4, <2>5, <2>6, <3>2, <4>1 DEF Judged, Usable
      <4>2. CASE \E b \in best[t] : deltas[b].size <= deltas[F].size
        BY <1>1, <2>4, <2>5, <2>6, <3>2, <4>2 DEF Judged
      <4> QED BY <1>5, <2>4, <3>2, <4>1, <4>2 DEF Improves
    <3> QED BY <2>1, <3>1, <3>2
  <2>8. TInv(t)' BY <1>1, <1>2, <1>4, <2>1, <2>3, <2>7, EndOfCall
  <2> QED BY <1>4, <2>2, <2>8 DEF Own
<1> QED BY <1>1, <1>2, <1>6, <1>7
-----------------------------------------------------------------------------
(* The tool's own steps, and all steps together.                           *)

\* A step of the tool itself does: it writes the temporary file only.
LEMMA OwnToolStep ==
  ASSUME DeltasAssumption, Shape, FolderInv, NEW t \in Targets, TInv(t),
         ToolStep(t)
  PROVE  Own(t)
<1>1. /\ tool[t] = "running" /\ pc[t] \in {"tool", "kill"}
      /\ UNCHANGED <<deltas, bad, position, made>>
      /\ builder[t] \in 1 .. 2 /\ File(t) \notin DOMAIN deltas
      /\ pc[t] = "kill" => File(t) \in bad
      /\ pc[t] = "tool" => File(t) \notin bad
  BY DEF ToolStep, ToolWrites, ToolExits, body, TInv, CallInv, PlaceInv, InLoop
<1>2. File(t) \in DeltaFiles BY <1>1, CurrentFile DEF InLoop
<1>3. /\ DOMAIN temps' \subseteq DeltaFiles
      /\ tool' \in [Targets -> {"none", "running", "ok", "failed"}]
      /\ \A f \in DOMAIN temps' : temps'[f] \in FileType
      /\ tool'[t] = "ok" /\ File(t) \in DOMAIN temps' => temps'[File(t)].whole
  <2>1. CASE ToolWrites(t)
    BY <1>1, <1>2, <2>1
    DEF ToolWrites, With, Shape, body, FolderInv, FileType
  <2>2. CASE ToolExits(t)
    <3>1. CASE /\ tool' = [tool EXCEPT ![t] = "ok"]
               /\ \E n \in DeltaSizes :
                     temps' = With(temps, File(t), [size |-> n, whole |-> TRUE])
      <4>1. PICK n \in DeltaSizes :
               temps' = With(temps, File(t), [size |-> n, whole |-> TRUE])
        BY <3>1
      <4>2. /\ DOMAIN temps' = DOMAIN temps \union {File(t)}
            /\ temps'[File(t)] = [size |-> n, whole |-> TRUE]
            /\ \A f \in DOMAIN temps : f # File(t) => temps'[f] = temps[f]
        BY <4>1 DEF With
      <4>3. [size |-> n, whole |-> TRUE] \in FileType BY DEF FileType
      <4>4. temps'[File(t)].whole BY <4>2
      <4>5. \A f \in DOMAIN temps' : temps'[f] \in FileType
        BY <4>2, <4>3 DEF FolderInv
      <4> QED BY <1>2, <3>1, <4>2, <4>4, <4>5 DEF Shape
    <3>2. CASE /\ tool' = [tool EXCEPT ![t] = "ok"]
               /\ temps' = Without(temps, File(t))
      BY <1>1, <1>2, <3>2 DEF Without, Restrict, Shape, FolderInv
    <3>3. CASE tool' = [tool EXCEPT ![t] = "failed"] /\ UNCHANGED temps
      BY <1>1, <3>3 DEF Shape, FolderInv
    <3> QED BY <2>2, <3>1, <3>2, <3>3 DEF ToolExits
  <2> QED BY <2>1, <2>2 DEF ToolStep
<1>4. Shape' BY <1>1, <1>3 DEF Shape, position
<1>5. FolderInv'
  BY <1>1, <1>3 DEF FolderInv, IsSmallFileSize, ShouldDelta, FileType, Unfinished
<1>6. PlaceInv(t)'
  BY <1>1 DEF TInv, PlaceInv, position, Source, IsSmallFileSize, ShouldDelta
<1>7. CallInv(t)' BY <1>1, <1>3 DEF CallInv, position, File, Source
<1>8. BestInv(t)' /\ BuildersInv(t)' /\ PlansInv(t)' /\ CatalogInv(t)'
  <2>1. PICK F : F = File(t) OBVIOUS
  <2>2. F \notin best[t] BY <1>1, <2>1, NotYetBest
  <2>3. \A f : f # F => SameFile(f) BY <1>1 DEF SameFile
  <2>4. /\ pc' = pc /\ plan' = plan /\ builder' = builder /\ best' = best
        /\ made' = made
    BY <1>1 DEF position
  <2> QED BY <1>1, <2>1, <2>2, <2>3, <2>4, WithinCall DEF InLoop
<1> QED BY <1>4, <1>5, <1>6, <1>7, <1>8 DEF Own, TInv

\* The builders start in IInv.
LEMMA Initial == ASSUME DeltasAssumption, Init PROVE IInv
<1>1. Shape
  BY DEF Init, Shape, NoFiles, ForEach, DeltaFiles, InLoop, Ended
<1>2. FolderInv BY DEF Init, FolderInv, NoFiles
<1>3. ASSUME NEW t \in Targets PROVE TInv(t)
  <2>1. /\ pc[t] = "waiting" /\ plan[t] = 1 /\ builder[t] = 1 /\ best[t] = {}
        /\ tool[t] = "none" /\ DOMAIN made = {}
    BY <1>3 DEF Init, ForEach
  <2>2. PlaceInv(t) BY <1>3, <2>1, PlanFacts DEF PlaceInv, InLoop
  <2> QED
    BY <2>1, <2>2
    DEF TInv, CallInv, BestInv, BuildersInv, PlansInv, CatalogInv, InLoop
<1> QED BY <1>1, <1>2, <1>3 DEF IInv, RunInv, Init

\* Begin and Crash: the folder stays, everything else is as at first.
LEMMA Restarted ==
  ASSUME DeltasAssumption, IInv, ForgetAll, UNCHANGED folder, run' # "done"
  PROVE  IInv'
<1>1. Shape'
  BY DEF IInv, Shape, ForgetAll, ForEach, folder, DeltaFiles, InLoop, Ended
<1>2. FolderInv' BY FolderKept DEF IInv
<1>3. ASSUME NEW t \in Targets PROVE TInv(t)'
  <2>1. /\ pc'[t] = "waiting" /\ plan'[t] = 1 /\ builder'[t] = 1
        /\ best'[t] = {} /\ tool'[t] = "none" /\ DOMAIN made' = {}
    BY <1>3 DEF ForgetAll, ForEach
  <2>2. PlaceInv(t)' BY <1>3, <2>1, PlanFacts DEF PlaceInv, InLoop
  <2> QED
    BY <2>1, <2>2
    DEF TInv, CallInv, BestInv, BuildersInv, PlansInv, CatalogInv, InLoop
<1> QED BY <1>1, <1>2, <1>3 DEF IInv, RunInv

\* Steps that leave the bodies and the folder alone.
LEMMA Aside ==
  ASSUME DeltasAssumption, IInv, UNCHANGED <<folder, body, made>>, RunInv'
  PROVE  IInv'
<1>1. Shape' BY DEF IInv, Shape, folder, body, position
<1>2. ASSUME NEW t \in Targets PROVE TInv(t)'
  <2>1. SameBody(t) BY DEF SameBody, body, position
  <2> QED BY <2>1, BodyKept, FolderKept DEF IInv
<1> QED BY <1>1, <1>2, FolderKept DEF IInv

\* IInv is inductive.
LEMMA Inductive == ASSUME DeltasAssumption, IInv, [Next]_vars PROVE IInv'
<1>1. ASSUME NEW t \in Targets, BodyStep(t) \/ ToolStep(t) PROVE IInv'
  <2>1. Shape /\ FolderInv /\ TInv(t) BY DEF IInv
  <2>2. Own(t)
    BY <1>1, <2>1, OwnBeginItem, OwnBeginPlan, OwnNoPlanLeft, OwnEndPlan,
       OwnThrown, OwnPassOver, OwnJudge, OwnStartTool, OwnCollect, OwnGiveUp,
       OwnKillTool, OwnMove, OwnToolStep
    DEF BodyStep
  <2>3. \A u \in Targets : u # t => TInv(u)'
    BY <1>1, <2>1, OthersKept DEF IInv
  <2>4. RunInv'
    <3>1. CASE BodyStep(t)
      BY <3>1 DEF RunInv, BodyStep, BeginItem, BeginPlan, NoPlanLeft, EndPlan,
         SeeCancellation, PassOver, Reuse, StartTool, Collect, GiveUp, KillTool,
         CancelTool, MoveFileWithRetries, Judge, Wanted, Offered, At
    <3>2. CASE ToolStep(t)
      BY <3>2 DEF IInv, RunInv, AllBodiesDone, ToolStep, ToolWrites, ToolExits, body, position
    <3> QED BY <1>1, <3>1, <3>2
  <2> QED BY <2>2, <2>3, <2>4 DEF Own, IInv
<1>2. CASE Begin BY <1>2, Restarted DEF Begin
<1>3. CASE Crash BY <1>3, Restarted DEF Crash
<1>4. CASE Cancel
  BY <1>4, Aside DEF Cancel, Running, IInv, RunInv, AllBodiesDone, body, position
<1>5. CASE End
  BY <1>5, Aside DEF End, Fail, Complete, RunInv, AllBodiesDone, body, position
<1>6. CASE UNCHANGED vars
  BY <1>6, Aside DEF vars, IInv, RunInv, AllBodiesDone, body, position
<1> QED BY <1>1, <1>2, <1>3, <1>4, <1>5, <1>6 DEF Next
-----------------------------------------------------------------------------
\* IInv holds in every state, whatever the plans and the tools do.
THEOREM Invariance == DeltasAssumption => (Spec => []IInv)
<1> SUFFICES ASSUME DeltasAssumption PROVE Spec => []IInv OBVIOUS
<1>1. Init => IInv BY DeltasAssumption, Initial
<1>2. IInv /\ [Next]_vars => IInv' BY DeltasAssumption, Inductive
<1> QED BY <1>1, <1>2, PTL DEF Spec

\* The variables of CreateDeltas.cs and the files have their types.
THEOREM TypeCorrect == DeltasAssumption => (Spec => []TypeOK)
<1> SUFFICES ASSUME DeltasAssumption PROVE Spec => []TypeOK OBVIOUS
<1>1. ASSUME IInv PROVE TypeOK
  <2>1. \A t \in Targets :
           /\ best[t] \subseteq DOMAIN deltas
           /\ plan[t] \in DOMAIN Plans[t]
              \/ (pc[t] \in {"plan", "done"} /\ plan[t] = Len(Plans[t]) + 1)
    BY <1>1, DeltasAssumption, PlanFacts
    DEF IInv, TInv, BestInv, PlaceInv, Usable
  <2> QED
    BY <1>1, <2>1, BuilderFacts DEF IInv, Shape, FolderInv, TypeOK, InLoop, Ended
<1> QED BY <1>1, Invariance, PTL

\* No file that a tool left unfinished is ever found under a delta's name
\* (ToolBasedDeltaBuilder.cs:70 and :133).
THEOREM Wholeness == DeltasAssumption => (Spec => []DeltasAreWhole)
<1> SUFFICES ASSUME DeltasAssumption PROVE Spec => []DeltasAreWhole OBVIOUS
<1>1. IInv => DeltasAreWhole BY DEF IInv, FolderInv, DeltasAreWhole
<1> QED BY <1>1, Invariance, PTL

\* What the catalog names is in the working folder, whole and worth it
\* (CreateDeltas.cs).
THEOREM Recipes == DeltasAssumption => (Spec => []RecipesAreUsable)
<1> SUFFICES ASSUME DeltasAssumption PROVE Spec => []RecipesAreUsable OBVIOUS
<1>1. ASSUME IInv PROVE RecipesAreUsable
  <2>1. \A t \in DOMAIN made : t \in Targets BY <1>1 DEF IInv, Shape
  <2> QED BY <1>1, <2>1 DEF IInv, TInv, CatalogInv, RecipesAreUsable
<1> QED BY <1>1, Invariance, PTL

\* A run that is done has the best delta of the first plan that gave one.
THEOREM Catalog == DeltasAssumption => (Spec => []CatalogIsBest)
<1> SUFFICES ASSUME DeltasAssumption PROVE Spec => []CatalogIsBest OBVIOUS
<1>1. ASSUME IInv, run = "done", NEW t \in Targets, t \notin DOMAIN made
      PROVE  AllTried(t)
  <2>1. pc[t] = "done" BY <1>1 DEF IInv, RunInv, AllBodiesDone
  <2>2. /\ plan[t] \in 1 .. Len(Plans[t]) + 1
        /\ plan[t] = Len(Plans[t]) + 1 \/ Plans[t][plan[t]] = t
        /\ \A j \in 1 .. plan[t] - 1 : Passed(t, j)
    BY <1>1, <2>1
    DEF IInv, TInv, PlaceInv, PlansInv, CatalogInv, InLoop, Source
  <2> SUFFICES ASSUME NEW j \in DOMAIN Plans[t]
               PROVE  Passed(t, j) \/ \E i \in 1 .. j : Plans[t][i] = t
    BY DEF AllTried
  <2>3. j \in 1 .. Len(Plans[t]) /\ Len(Plans[t]) \in Nat
    BY <1>1, DeltasAssumption, PlanFacts
  <2>4. CASE j \in 1 .. plan[t] - 1 BY <2>2, <2>4
  <2>5. CASE j >= plan[t]
    <3>1. plan[t] \in 1 .. j /\ Plans[t][plan[t]] = t BY <2>2, <2>3, <2>5
    <3> QED BY <3>1
  <2> QED BY <2>2, <2>3, <2>4, <2>5
<1>2. ASSUME IInv PROVE CatalogIsBest
  BY <1>1, <1>2 DEF IInv, TInv, CatalogInv, CatalogIsBest
<1> QED BY <1>2, Invariance, PTL

\* No run writes over a delta, and a bad one stays bad.
THEOREM Finality == DeltasAssumption => (Spec => DeltasAreFinal)
<1> SUFFICES ASSUME DeltasAssumption PROVE Spec => DeltasAreFinal OBVIOUS
<1> DEFINE Kept ==
      /\ bad \subseteq bad'
      /\ \A f \in DOMAIN deltas :
            deltas[f].size # 0 => f \in DOMAIN deltas' /\ deltas'[f] = deltas[f]
<1>1. ASSUME IInv, [Next]_vars PROVE Kept
  <2>1. CASE UNCHANGED folder BY <2>1 DEF folder
  <2>2. ASSUME NEW t \in Targets, BodyStep(t) \/ ToolStep(t) PROVE Kept
    <3>1. PICK F : F = File(t) OBVIOUS
    <3>2. \A f : f # F => SameFile(f) BY <2>2, <3>1, FilesTouched
    <3>3. /\ F \in bad => F \in bad'
          /\ F \in DOMAIN deltas /\ deltas[F].size # 0 =>
                F \in DOMAIN deltas' /\ deltas'[F] = deltas[F]
      <4>1. CASE StartTool(t) BY <3>1, <4>1 DEF StartTool, Wanted
      <4>2. CASE MoveFileWithRetries(t)
        <5>1. F \notin DOMAIN deltas
          BY <1>1, <3>1, <4>2 DEF MoveFileWithRetries, At, IInv, TInv, CallInv
        <5> QED BY <4>2, <5>1 DEF MoveFileWithRetries
      <4>3. CASE UNCHANGED deltas /\ bad \subseteq bad' BY <4>3
      <4> QED
        BY <2>2, <4>1, <4>2, <4>3
        DEF BodyStep, ToolStep, BeginItem, BeginPlan, NoPlanLeft, EndPlan,
            SeeCancellation, PassOver, Reuse, Collect, GiveUp, KillTool,
            CancelTool, Judge, ToolWrites, ToolExits, folder
    <3> QED BY <3>2, <3>3 DEF SameFile
  <2> QED
    BY <1>1, <2>1, <2>2
    DEF Next, Begin, Cancel, Crash, End, Fail, Complete, vars
<1>2. Kept => [/\ bad \subseteq bad'
              /\ \A f \in DOMAIN deltas :
                    deltas[f].size # 0 =>
                        f \in DOMAIN deltas' /\ deltas'[f] = deltas[f]]_<<deltas, bad>>
  OBVIOUS
<1> QED BY <1>1, <1>2, Invariance, PTL DEF Spec, DeltasAreFinal
=============================================================================

------------------------------- MODULE Deltas -------------------------------
(***************************************************************************)
(* Workers/CreateDeltas.cs over Utility/ToolBasedDeltaBuilder.cs: for each *)
(* planned item of the target a body of Parallel.ForEach runs bsdiff and   *)
(* zstd against the planned items of the source, and the deltas that are   *)
(* smaller than the item become the DeltaCatalog.  The working folder      *)
(* outlives the process: a later run in it uses what an earlier one left,  *)
(* whether that ended, was cancelled, failed or crashed.                   *)
(***************************************************************************)
EXTENDS DeltaFolder, FiniteSets

CONSTANTS
    DeltaSizes,       \* lengths the tools give their output
    MayNotMove,       \* all retries of File.Move() may fail
    MayMakeNothing,   \* a tool may return 0 and leave no file
    MaxRuns           \* bound: runs of the worker in one working folder

Items == DOMAIN Length
DeltaFiles == Items \X Targets \X Range(Builders)

DeltasAssumption ==
    /\ IsFiniteSet(Items)
    /\ Plans \in [Targets -> Seq(Items) \ {<<>>}]
    /\ Length \in [Items -> Nat]
    /\ Targets \subseteq Items
    /\ DeltaSizes \subseteq Nat
    /\ SmallSize \in Nat /\ MINIMUM_SIZE \in Nat /\ MAXIMUM_SIZE \in Nat
    /\ {MayNotMove, MayMakeNothing} \subseteq BOOLEAN
    /\ MaxRuns \in Nat

VARIABLES
    \* the working folder
    temps,        \* deltas under the name that ends in ".tmp"
    \* the process
    runs,         \* runs begun
    cancelled,    \* the CancellationToken
    pc,           \* per target item: what its body does
    plan,         \* index in Plans[t]
    builder,      \* index in Builders
    best,         \* delta files that TryDelta() holds as the best: none or one
    tool          \* the tool's process: "none", "running", "ok", "failed"

folder == <<deltas, temps, bad>>
position == <<pc, plan, builder, best>>
body == <<position, tool>>
vars == <<folder, run, runs, cancelled, body, made>>

\* A file that a tool still writes: by its size it could be a delta.
Unfinished == [size |-> 1, whole |-> FALSE]

NoFiles == [f \in {} |-> [size |-> 0, whole |-> TRUE]]

ForEach(value) == [t \in Targets |-> value]

Init ==
    /\ deltas = NoFiles
    /\ temps = NoFiles
    /\ bad = {}
    /\ run = "idle"
    /\ runs = 0
    /\ cancelled = FALSE
    /\ pc = ForEach("waiting")
    /\ plan = ForEach(1)
    /\ builder = ForEach(1)
    /\ best = ForEach({})
    /\ tool = ForEach("none")
    /\ made = <<>>

-----------------------------------------------------------------------------
Source(t) == Plans[t][plan[t]]
File(t) == <<Source(t), t, Builders[builder[t]]>>

\* A slip: a delta as large as its item passes.
LargerOnly(f) == deltas[f].size > Length[f[2]]

TooLarge(f) == deltas[f].size >= Length[f[2]]

With(files, f, file) ==
    [g \in DOMAIN files \union {f} |-> IF g = f THEN file ELSE files[g]]

Without(files, f) == Restrict(files, DOMAIN files \ {f})

At(t, step) == run = "deltas" /\ pc[t] = step

Goto(t, step) == pc' = [pc EXCEPT ![t] = step]

\* An exception leaves the body.
Throw(t) == Goto(t, "threw") /\ UNCHANGED <<plan, builder, best>>

NextBuilder(t) ==
    /\ Goto(t, "builder")
    /\ builder' = [builder EXCEPT ![t] = @ + 1]
    /\ UNCHANGED <<plan, best>>

\* A slip: the last delta is kept in place of the smallest.
NotEmpty(t, f) == deltas[f].size # 0

\* What TryDelta() does with a delta that a builder returned: an empty one
\* and one that is no smaller than the best so far are passed over.
Improves(t, f) ==
    /\ deltas[f].size # 0
    /\ \A b \in best[t] : deltas[f].size < deltas[b].size

Take(t, f) ==
    /\ Goto(t, "builder")
    /\ builder' = [builder EXCEPT ![t] = @ + 1]
    /\ best' = IF Improves(t, f) THEN [best EXCEPT ![t] = {f}] ELSE best
    /\ UNCHANGED plan

ForgetAll ==
    /\ cancelled' = FALSE
    /\ pc' = ForEach("waiting")
    /\ plan' = ForEach(1)
    /\ builder' = ForEach(1)
    /\ best' = ForEach({})
    /\ tool' = ForEach("none")
    /\ made' = <<>>

-----------------------------------------------------------------------------
(***************************************************************************)
(* Parallel.ForEach: one body per planned item.                            *)
(***************************************************************************)
Begin ==
    /\ run \in {"idle", "done", "cancelled", "failed"}
    /\ runs < MaxRuns
    /\ run' = "deltas"
    /\ runs' = runs + 1
    /\ ForgetAll
    /\ UNCHANGED <<folder>>

\* No body begins once one of them threw or the token is set.
BeginItem(t) ==
    /\ At(t, "waiting")
    /\ ~cancelled
    /\ \A u \in Targets : pc[u] # "threw"
    /\ Goto(t, "plan")
    /\ UNCHANGED <<folder, run, runs, cancelled, plan, builder, best,
                   tool, made>>

\* An identical source item ends the body, whatever plans are left.
BeginPlan(t) ==
    /\ At(t, "plan")
    /\ plan[t] <= Len(Plans[t])
    /\ \/ /\ Source(t) = t
          /\ Goto(t, "done")
          /\ UNCHANGED <<plan, builder, best>>
       \/ /\ Source(t) # t
          /\ IsSmallFileSize(t)
          /\ plan' = [plan EXCEPT ![t] = @ + 1]
          /\ UNCHANGED <<pc, builder, best>>
       \/ /\ Source(t) # t
          /\ ~IsSmallFileSize(t)
          /\ Goto(t, "builder")
          /\ builder' = [builder EXCEPT ![t] = 1]
          /\ best' = [best EXCEPT ![t] = {}]
          /\ UNCHANGED plan
    /\ UNCHANGED <<folder, run, runs, cancelled, tool, made>>

NoPlanLeft(t) ==
    /\ At(t, "plan")
    /\ plan[t] > Len(Plans[t])
    /\ Goto(t, "done")
    /\ UNCHANGED <<folder, run, runs, cancelled, plan, builder, best,
                   tool, made>>

\* Both builders were tried: the first plan that gives a delta ends the body.
EndPlan(t) ==
    /\ At(t, "builder")
    /\ builder[t] > Len(Builders)
    /\ \/ /\ best[t] = {}
          /\ Goto(t, "plan")
          /\ plan' = [plan EXCEPT ![t] = @ + 1]
          /\ UNCHANGED made
       \/ \E f \in best[t] :
             /\ Goto(t, "done")
             /\ made' = With(made, t, f)
             /\ UNCHANGED plan
    /\ UNCHANGED <<folder, run, runs, cancelled, builder, best, tool>>

-----------------------------------------------------------------------------
(***************************************************************************)
(* TryDelta() and ToolBasedDeltaBuilder.Call()                             *)
(***************************************************************************)
Offered(t) ==
    /\ At(t, "builder")
    /\ builder[t] <= Len(Builders)

SeeCancellation(t) ==
    /\ Offered(t)
    /\ cancelled
    /\ Throw(t)
    /\ UNCHANGED <<folder, run, runs, cancelled, tool, made>>

PassOver(t) ==
    /\ Offered(t)
    /\ ~cancelled
    /\ ~ShouldDelta(Source(t), t) \/ File(t) \in bad
    /\ NextBuilder(t)
    /\ UNCHANGED <<folder, run, runs, cancelled, tool, made>>

Wanted(t) ==
    /\ Offered(t)
    /\ ~cancelled
    /\ ShouldDelta(Source(t), t)
    /\ File(t) \notin bad

\* A delta that an earlier run left is judged again.
Reuse(t) ==
    /\ Wanted(t)
    /\ File(t) \in DOMAIN deltas
    /\ deltas[File(t)].size # 0
    /\ \/ /\ TooLarge(File(t))
          /\ bad' = bad \union {File(t)}
          /\ NextBuilder(t)
       \/ /\ ~TooLarge(File(t))
          /\ Take(t, File(t))
          /\ UNCHANGED bad
    /\ UNCHANGED <<deltas, temps, run, runs, cancelled, tool, made>>

\* A slip: the tool is run although an earlier run left a delta.
AlwaysStartTool(t) ==
    /\ Wanted(t)
    /\ deltas' = Without(deltas, File(t))
    /\ Goto(t, "tool")
    /\ tool' = [tool EXCEPT ![t] = "running"]
    /\ UNCHANGED <<temps, bad, run, runs, cancelled, plan, builder,
                   best, made>>

StartTool(t) ==
    /\ Wanted(t)
    /\ File(t) \in DOMAIN deltas => deltas[File(t)].size = 0
    /\ deltas' = Without(deltas, File(t))
    /\ Goto(t, "tool")
    /\ tool' = [tool EXCEPT ![t] = "running"]
    /\ UNCHANGED <<temps, bad, run, runs, cancelled, plan, builder,
                   best, made>>

\* A slip: a tool that was given up counts as one that succeeded.
NotFailed(t) == tool[t] # "failed"

\* WaitForExit() polls: it can also find the token set, or its time over.
Succeeded(t) == tool[t] = "ok"

Collect(t) ==
    /\ At(t, "tool")
    /\ Succeeded(t)
    /\ tool' = [tool EXCEPT ![t] = "none"]
    /\ IF File(t) \in DOMAIN temps
       THEN Goto(t, "move") /\ UNCHANGED <<plan, builder, best>>
       ELSE Throw(t)
    /\ UNCHANGED <<folder, run, runs, cancelled, made>>

\* A slip: no timeout.
WaitsForEver(t) == FALSE

TimedOut(t) == tool[t] = "running"

GiveUp(t) ==
    /\ At(t, "tool")
    /\ tool[t] = "failed" \/ TimedOut(t)
    /\ bad' = bad \union {File(t)}
    /\ Goto(t, "kill")
    /\ UNCHANGED <<deltas, temps, run, runs, cancelled, plan, builder,
                   best, tool, made>>

KillTool(t) ==
    /\ At(t, "kill")
    /\ tool' = [tool EXCEPT ![t] = "none"]
    /\ temps' = Without(temps, File(t))
    /\ NextBuilder(t)
    /\ UNCHANGED <<deltas, bad, run, runs, cancelled, made>>

CancelTool(t) ==
    /\ At(t, "tool")
    /\ tool[t] = "running"
    /\ cancelled
    /\ tool' = [tool EXCEPT ![t] = "none"]
    /\ Throw(t)
    /\ UNCHANGED <<folder, run, runs, cancelled, made>>

MoveFileWithRetries(t) ==
    /\ At(t, "move")
    /\ \/ /\ deltas' = With(deltas, File(t), temps[File(t)])
          /\ temps' = Without(temps, File(t))
          /\ Goto(t, "judge")
          /\ UNCHANGED <<plan, builder, best>>
       \/ /\ MayNotMove
          /\ Throw(t)
          /\ UNCHANGED <<deltas, temps>>
    /\ UNCHANGED <<bad, run, runs, cancelled, tool, made>>

Judge(t) ==
    /\ At(t, "judge")
    /\ \/ /\ TooLarge(File(t))
          /\ bad' = bad \union {File(t)}
          /\ NextBuilder(t)
       \/ /\ ~TooLarge(File(t))
          /\ Take(t, File(t))
          /\ UNCHANGED bad
    /\ UNCHANGED <<deltas, temps, run, runs, cancelled, tool, made>>

-----------------------------------------------------------------------------
(***************************************************************************)
(* The tool's process: it writes the file it was given, and ends or not.   *)
(***************************************************************************)
ToolWrites(t) ==
    /\ tool[t] = "running"
    /\ temps' = With(temps, File(t), Unfinished)
    /\ UNCHANGED <<deltas, bad, run, runs, cancelled, body, made>>

ToolExits(t) ==
    /\ tool[t] = "running"
    /\ \/ /\ tool' = [tool EXCEPT ![t] = "ok"]
          /\ \/ \E n \in DeltaSizes :
                   temps' = With(temps, File(t), [size |-> n, whole |-> TRUE])
             \/ /\ MayMakeNothing
                /\ temps' = Without(temps, File(t))
       \/ /\ tool' = [tool EXCEPT ![t] = "failed"]
          /\ UNCHANGED temps
    /\ UNCHANGED <<deltas, bad, run, runs, cancelled, position, made>>

-----------------------------------------------------------------------------
(***************************************************************************)
(* The end of ExecuteInternal()                                            *)
(***************************************************************************)
Ended == {"done", "threw"}

AllBodiesDone == \A t \in Targets : pc[t] = "done"

\* Parallel.ForEach throws once no body runs: because one threw, or because
\* the token was set; CheckForCancellation() after it sees the token too.
Fail ==
    /\ run = "deltas"
    /\ \A t \in Targets : pc[t] \in Ended \union {"waiting"}
    /\ cancelled \/ \E t \in Targets : pc[t] = "threw"
    /\ run' = IF cancelled THEN "cancelled" ELSE "failed"
    /\ UNCHANGED <<folder, runs, cancelled, body, made>>

\* DeltaCatalog.json and deltas.cookie are written and never read.
Complete ==
    /\ run = "deltas"
    /\ AllBodiesDone
    /\ ~cancelled
    /\ run' = "done"
    /\ UNCHANGED <<folder, runs, cancelled, body, made>>

Running == run = "deltas"

Cancel ==
    /\ Running
    /\ ~cancelled
    /\ cancelled' = TRUE
    /\ UNCHANGED <<folder, run, runs, body, made>>

\* The process and its tools are gone, the folder stays.
Crash ==
    /\ Running
    /\ runs < MaxRuns
    /\ run' = "idle"
    /\ ForgetAll
    /\ UNCHANGED <<folder, runs>>

BodyStep(t) ==
    \/ BeginItem(t) \/ BeginPlan(t) \/ NoPlanLeft(t) \/ EndPlan(t)
    \/ SeeCancellation(t) \/ PassOver(t) \/ Reuse(t) \/ StartTool(t)
    \/ Collect(t) \/ GiveUp(t) \/ KillTool(t) \/ CancelTool(t)
    \/ MoveFileWithRetries(t) \/ Judge(t)

ToolStep(t) == ToolWrites(t) \/ ToolExits(t)

End == Fail \/ Complete

Next ==
    \/ Begin \/ Cancel \/ Crash \/ End
    \/ \E t \in Targets : BodyStep(t) \/ ToolStep(t)

\* Threads and timeouts go on; no tool is assumed to end.
Fairness ==
    /\ WF_vars(End)
    /\ \A t \in Targets : WF_vars(BodyStep(t))

Spec == Init /\ [][Next]_vars /\ Fairness

-----------------------------------------------------------------------------
(***************************************************************************)
(* Properties                                                              *)
(***************************************************************************)
\* The types of the variables that the code declares and of the files.
FileType == {Unfinished} \union [size : DeltaSizes, whole : {TRUE}]

TypeOK ==
    /\ DOMAIN deltas \subseteq DeltaFiles
    /\ \A f \in DOMAIN deltas : deltas[f] \in FileType
    /\ DOMAIN temps \subseteq DeltaFiles
    /\ \A f \in DOMAIN temps : temps[f] \in FileType
    /\ bad \subseteq DeltaFiles
    /\ pc \in [Targets -> {"waiting", "plan", "builder", "tool", "kill",
                          "move", "judge"} \union Ended]
    /\ tool \in [Targets -> {"none", "running", "ok", "failed"}]
    /\ \A t \in Targets :
          /\ best[t] \subseteq DOMAIN deltas
          /\ builder[t] \in 1 .. Len(Builders) + 1
          /\ \/ plan[t] \in DOMAIN Plans[t]
             \/ pc[t] \in {"plan", "done"} /\ plan[t] = Len(Plans[t]) + 1
    /\ DOMAIN made \subseteq Targets

\* Every run of the worker ends, though tools may hang: WaitForExit() stops
\* waiting when the time is over or the token is set.
RunEnds == Running ~> ~Running

=============================================================================

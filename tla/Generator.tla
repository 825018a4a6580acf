----------------------------- MODULE Generator -----------------------------
(***************************************************************************)
(* DiffGeneration/DiffBuilder.cs: the workers that make a diff, one after  *)
(* the other, over a working folder that is kept.  The two archives are    *)
(* tokenized in parallel, into folders that a later run takes them from.   *)
(* The deltas are those that Deltas promises: of a planned item, one or    *)
(* none.                                                                   *)
(***************************************************************************)
EXTENDS Tokens

CONSTANTS
    Pairs,        \* pairs of archives that a run may be given
    TokensOf,     \* side |-> archive |-> what Tokenize() makes of it
    MinDelta,     \* 256, the least size of a size based delta
    MaxRuns       \* bound: runs in one working folder

Sides == {"source", "target"}

ArchivesOf(pair) == [source |-> pair[1], target |-> pair[2]]

\* What an archive is known to hold, and what its forward recipes need.
Known(t) == DOMAIN t.reverse \union {t.archive}

Parts(t) == UNION {ToSet(r.items) : r \in Range(t.forward)}

\* What Tokenize() promises when it does not throw.  Its recipes are true, what
\* is in an archive comes out of it by the reverse recipes, and forward recipes
\* put together what the reverse ones give.
Whole(t) ==
    /\ IsFiniteSet(t.recipes) /\ IsFiniteSet(t.payload)
    /\ \A r \in t.recipes :
          /\ r.result \in Seq(Int) /\ r.items \in Seq(Seq(Int))
          /\ ~IsDeltaRecipe(r) /\ Makes(r)
    /\ \A lookup \in {t.forward, t.reverse} : \A i \in DOMAIN lookup :
          lookup[i] \in t.recipes /\ lookup[i].result = i
    /\ Results(t.recipes) \union GetPayloadItems(t) \subseteq Known(t)
    /\ \A r \in Range(t.forward) : ToSet(r.items) \subseteq DOMAIN t.reverse
    /\ \A r \in Range(t.reverse) : ToSet(r.items) \subseteq Known(t)
    /\ DOMAIN t.reverse \subseteq Made({t.archive}, Range(t.reverse))
    /\ DOMAIN t.forward
          \subseteq Made(Parts(t) \ DOMAIN t.forward, Range(t.forward))

GeneratorAssumption ==
    /\ MinDelta \in Nat /\ MaxRuns \in Nat
    /\ \A pair \in Pairs : \A s \in Sides :
          LET archive == ArchivesOf(pair)[s]
              t == TokensOf[s][archive]
          IN /\ archive \in Seq(Int)
             /\ t.archive = archive
             /\ t.thrown \/ Whole(t)

ASSUME GeneratorAssumption

VARIABLES
    \* the working folder, per side
    hash,         \* ArchiveHash.Cookie: <<>>, Begun or <<archive>>
    json,         \* archive.json: <<>>, Begun or <<tokens>>
    cookie,       \* there is an archive.json.cookie
    \* the run
    stage,        \* the action of ExecuteTasks() that is next, or "idle"
    worker,       \* per side: what its TokenizeArchive does
    failure,      \* the stage that threw, or "none"
    runs,         \* runs begun
    cancelled,    \* the CancellationToken
    archives,     \* side |-> the archive that the run was given
    tokens,       \* side |-> ArchiveTokenization
    plans,        \* DeltaPlans: target item |-> source items
    catalog,      \* DeltaCatalog: target item |-> basis
    diff,         \* [recipes, needed, inline, remainder]
    output        \* the output file: <<>> or <<diff of which target>>

folder == <<hash, json, cookie>>
work == <<plans, catalog, diff>>
vars == <<folder, stage, worker, failure, runs, cancelled, archives, tokens,
          work, output>>

Both(value) == [s \in Sides |-> value]

\* A file whose writing was begun.
Begun == <<<<>>>>

NoDiff == [recipes |-> {}, needed |-> {}, inline |-> <<>>, remainder |-> <<>>]

Init ==
    /\ hash = Both(<<>>)
    /\ json = Both(<<>>)
    /\ cookie = Both(FALSE)
    /\ stage = "idle"
    /\ worker = Both("idle")
    /\ failure = "none"
    /\ runs = 0
    /\ cancelled = FALSE
    /\ archives = Both(<<>>)
    /\ tokens = Both(NoTokens(<<>>))
    /\ plans = <<>>
    /\ catalog = <<>>
    /\ diff = NoDiff
    /\ output = <<>>

-----------------------------------------------------------------------------
(***************************************************************************)
(* Selecting                                                               *)
(***************************************************************************)
Source == tokens["source"]
Target == tokens["target"]

\* AnalyzeArchiveTokens: archives in the target that nothing makes.
UndiffableArchives ==
    {a \in ArchiveItems(Target) :
        /\ a \notin DOMAIN Target.forward
        /\ a \notin DOMAIN Source.reverse}

TotalUndiffable == MapThenSumSet(Len, UndiffableArchives)

IsDiffable == TotalUndiffable <= Len(Target.archive) \div 2

\* The constructor of Diff.
InitiallyNeeded ==
    {i \in GetPayloadItems(Target) : ~HasAnyRecipes(Source, i)}

\* AddPayloadDeltas(): items of the source under the same name.
PayloadPlans(t) ==
    IF t \in ArchiveItems(Target) THEN {}
    ELSE {p.item : p \in {q \in Source.payload :
             \E w \in Target.payload : w.item = t /\ w.name = q.name}} \ {t}

\* AddSizeBasedDeltas(): items of the same size.
SizePlans(t) ==
    IF Len(t) < MinDelta \/ t \notin InitiallyNeeded THEN {}
    ELSE {r.result : r \in {q \in Source.recipes : Len(q.result) = Len(t)}}

PlansOf(t) ==
    LET payload == PayloadPlans(t)
    IN IF payload # {} THEN payload ELSE SizePlans(t)

DeltaPlans ==
    LET planned == {t \in GetPayloadItems(Target) : PlansOf(t) # {}}
    IN [t \in planned |-> PlansOf(t)]

-----------------------------------------------------------------------------
(***************************************************************************)
(* Diff.SelectRecipes()                                                    *)
(***************************************************************************)
RecipesFor(recipes, item) == {r \in recipes : r.result = item}

\* A recipe is taken from a lookup for results without one.
AddMissing(recipes, lookup) ==
    recipes \union
        {lookup[i] : i \in {j \in DOMAIN lookup : RecipesFor(recipes, j) = {}}}

DeltaRecipes ==
    {Recipe("bspatch_decompression", t, <<>>,
            <<DeltaOf(catalog[t], t), catalog[t]>>) :
        t \in InitiallyNeeded \intersect DOMAIN catalog}

\* A slip: what the source holds is not looked up.
TargetOnly == AddMissing(DeltaRecipes, Target.forward)

BeforeSearch ==
    AddMissing(AddMissing(DeltaRecipes, Source.reverse), Target.forward)

\* What the search goes on with.  The delta itself is an inline asset.
Ingredients(r) == IF IsDeltaRecipe(r) THEN {GetDeltaBasis(r)} ELSE ToSet(r.items)

\* The steps of the search: an ingredient is got from what it is needed for.
Turned(recipes) ==
    UNION {{[result |-> i, items |-> <<r.result>>] : i \in Ingredients(r)} :
               r \in recipes}

Search(covered, recipes) == Made(covered, Turned(recipes))

\* Items without a recipe that the source would make, the source itself above
\* all, get that of the source, whose ingredients need a recipe and are not
\* searched.  The others are needed.
SelectRecipes ==
    LET before == BeforeSearch
        source == Source.forward
        covered == Search({Target.archive}, before)
        bare == covered \ Results(before)
        fromSource == {source[i] : i \in bare \intersect DOMAIN source}
        recipes == before \union fromSource
    IN [recipes |-> recipes,
        needed |-> bare \ DOMAIN source,
        throws |->
            \/ \E i \in covered : Cardinality(RecipesFor(before, i)) > 1
            \/ \E r \in fromSource : ~ToSet(r.items) \subseteq Results(recipes)]

-----------------------------------------------------------------------------
(***************************************************************************)
(* CreateDiffRecipes: inline assets and remainder                          *)
(***************************************************************************)
\* A slip: the offset is where the item ends.
EndOffsets(items) ==
    [i \in DOMAIN items |-> Len(FlattenSeq(SubSeq(items, 1, i)))]

Offsets(items) ==
    [i \in DOMAIN items |-> Len(FlattenSeq(SubSeq(items, 1, i - 1)))]

SlicesOf(items, whole) ==
    {Slice(items[i], Offsets(items)[i], whole) : i \in DOMAIN items}

\* Items with the shorter ones first; of equal lengths the hashes decide.
ByLength(items) ==
    CHOOSE list \in [1 .. Cardinality(items) -> items] :
        /\ ToSet(list) = items
        /\ \A i, j \in DOMAIN list : i < j => Len(list[i]) <= Len(list[j])

SortedDeltaItems(recipes) ==
    ByLength({GetDeltaItem(r) : r \in {q \in recipes : IsDeltaRecipe(q)}})

\* A slip: the only asset is a slice of itself.
AllInlineSlices(items) == SlicesOf(items, FlattenSeq(items))

\* No slice for an asset that is the entire thing.
InlineSlices(items) ==
    {r \in SlicesOf(items, FlattenSeq(items)) :
        Len(r.result) # Len(r.items[1])}

SortedRemainderItems(needed) == ByLength(needed)

RemainderSlices(items) ==
    IF Len(items) <= 1 THEN {} ELSE SlicesOf(items, FlattenSeq(items))

\* The diff, and whether CreateDiffRecipes throws.
NewDiff ==
    LET selected == SelectRecipes
        assets == SortedDeltaItems(selected.recipes)
        inline == FlattenSeq(assets)
        carried == SortedRemainderItems(selected.needed \ {inline})
        remainder == FlattenSeq(carried)
        slices == InlineSlices(assets) \union RemainderSlices(carried)
    IN [made |-> [recipes |-> selected.recipes \union slices,
                  needed |-> selected.needed \ {inline, remainder},
                  inline |-> inline,
                  remainder |-> remainder],
        throws |-> \/ selected.throws
                   \/ ~CanExtract(Target, ToSet(carried))
                   \/ \E r \in slices : SelfReferential(r)]

-----------------------------------------------------------------------------
(***************************************************************************)
(* Runs                                                                    *)
(***************************************************************************)
Running == stage \notin {"idle", "done"}

Begin ==
    /\ ~Running
    /\ runs < MaxRuns
    /\ \E pair \in Pairs : archives' = ArchivesOf(pair)
    /\ stage' = "tokenize"
    /\ worker' = Both("hash")
    /\ runs' = runs + 1
    /\ failure' = "none"
    /\ cancelled' = FALSE
    /\ tokens' = Both(NoTokens(<<>>))
    /\ plans' = <<>>
    /\ catalog' = <<>>
    /\ diff' = NoDiff
    /\ UNCHANGED <<folder, output>>

At(s, step) == stage = "tokenize" /\ worker[s] = step

Step(s, step) == worker' = [worker EXCEPT ![s] = step]

execution == <<stage, failure, runs, cancelled, archives, work, output>>

\* Worker.Execute(), and again before the archive is loaded.
Stopped(s) ==
    /\ worker[s] \in {"hash", "load"}
    /\ stage = "tokenize"
    /\ cancelled
    /\ Step(s, "threw")
    /\ UNCHANGED <<folder, execution, tokens>>

\* The cookie with the hash of the archive claims the folder for it.
ClaimFolder(s) ==
    /\ At(s, "hash")
    /\ ~cancelled
    /\ hash[s] = <<>>
    /\ hash' = [hash EXCEPT ![s] = Begun]
    /\ Step(s, "claim")
    /\ UNCHANGED <<json, cookie, execution, tokens>>

WriteHash(s) ==
    /\ At(s, "claim")
    /\ hash' = [hash EXCEPT ![s] = <<archives[s]>>]
    /\ Step(s, "load")
    /\ UNCHANGED <<json, cookie, execution, tokens>>

\* A slip: a folder that is claimed at all will do.
ClaimedByAny(s) == hash[s] # <<>>

Claimed(s) == hash[s] = <<archives[s]>>

FindFolder(s) ==
    /\ At(s, "hash")
    /\ ~cancelled
    /\ hash[s] # <<>>
    /\ Step(s, IF Claimed(s) THEN "load" ELSE "threw")
    /\ UNCHANGED <<folder, execution, tokens>>

\* TryLoadPreviousTokens(): a file that was only begun does not parse.
HasPreviousTokens(s) == cookie[s] /\ json[s] \notin {<<>>, Begun}

LoadPreviousTokens(s) ==
    /\ At(s, "load")
    /\ ~cancelled
    /\ HasPreviousTokens(s)
    /\ tokens' = [tokens EXCEPT ![s] = json[s][1]]
    /\ Step(s, "done")
    /\ UNCHANGED <<folder, execution>>

LoadArchive(s) ==
    /\ At(s, "load")
    /\ ~cancelled
    /\ ~HasPreviousTokens(s)
    /\ LET loaded == TokensOf[s][archives[s]] IN
       IF loaded.thrown
       THEN Step(s, "threw") /\ UNCHANGED <<json, tokens>>
       ELSE /\ tokens' = [tokens EXCEPT ![s] = loaded]
            /\ json' = [json EXCEPT ![s] = Begun]
            /\ Step(s, "cookie")
    /\ UNCHANGED <<hash, cookie, execution>>

\* The cookie is made while the stream of the file is still open.
CreateCookie(s) ==
    /\ At(s, "cookie")
    /\ cookie' = [cookie EXCEPT ![s] = TRUE]
    /\ Step(s, "close")
    /\ UNCHANGED <<hash, json, execution, tokens>>

CloseJson(s) ==
    /\ At(s, "close")
    /\ json' = [json EXCEPT ![s] = <<tokens[s]>>]
    /\ Step(s, "done")
    /\ UNCHANGED <<hash, cookie, execution, tokens>>

\* Tokens that were handed in are written over what is there: its text, closed
\* before the cookie.  They are taken to be what tokenizing makes of the archive.
SupplyTokens(s) ==
    /\ s = "target"
    /\ At(s, "load")
    /\ ~TokensOf[s][archives[s]].thrown
    /\ tokens' = [tokens EXCEPT ![s] = TokensOf[s][archives[s]]]
    /\ json' = [json EXCEPT ![s] = Begun]
    /\ Step(s, "supplied")
    /\ UNCHANGED <<hash, cookie, execution>>

CloseSupplied(s) ==
    /\ At(s, "supplied")
    /\ json' = [json EXCEPT ![s] = <<tokens[s]>>]
    /\ Step(s, "closed")
    /\ UNCHANGED <<hash, cookie, execution, tokens>>

CookieOfSupplied(s) ==
    /\ At(s, "closed")
    /\ cookie' = [cookie EXCEPT ![s] = TRUE]
    /\ Step(s, "done")
    /\ UNCHANGED <<hash, json, execution, tokens>>

-----------------------------------------------------------------------------
kept == <<folder, worker, runs, cancelled, archives, tokens>>

Enters(s) == stage = s /\ ~cancelled

Goto(s) == stage' = s /\ UNCHANGED failure

Fail(s) == stage' = "done" /\ failure' = s

\* Parallel.ForEach ends; it may not begin with one once the other threw.
Tokenized ==
    /\ stage = "tokenize"
    /\ \A s \in Sides :
          \/ worker[s] \in {"done", "threw"}
          \/ worker[s] = "hash" /\ \E u \in Sides : worker[u] = "threw"
    /\ IF \E s \in Sides : worker[s] = "threw" THEN Fail("tokenize")
       ELSE Goto("analyze")
    /\ UNCHANGED <<kept, work, output>>

\* CheckForCancellation() before each action.
SeeCancellation ==
    /\ Running
    /\ stage # "tokenize"
    /\ cancelled
    /\ Fail("cancelled")
    /\ UNCHANGED <<kept, work, output>>

AnalyzeArchiveTokens ==
    /\ Enters("analyze")
    /\ IF IsDiffable THEN Goto("select") ELSE Fail("analyze")
    /\ UNCHANGED <<kept, work, output>>

SelectItemsForDelta ==
    /\ Enters("select")
    /\ plans' = DeltaPlans
    /\ Goto("extract")
    /\ UNCHANGED <<kept, catalog, diff, output>>

ExtractItemsForDelta ==
    /\ Enters("extract")
    /\ IF /\ CanExtract(Source, UNION {plans[t] : t \in DOMAIN plans})
          /\ CanExtract(Target, DOMAIN plans)
       THEN Goto("deltas") ELSE Fail("extract")
    /\ UNCHANGED <<kept, work, output>>

CreateDeltas ==
    /\ Enters("deltas")
    /\ \E planned \in SUBSET DOMAIN plans :
          \E c \in [planned -> UNION {plans[t] : t \in planned}] :
             /\ \A t \in planned : c[t] \in plans[t]
             /\ catalog' = c
    /\ Goto("recipes")
    /\ UNCHANGED <<kept, plans, diff, output>>

CreateDiffRecipes ==
    /\ Enters("recipes")
    /\ LET new == NewDiff IN
       IF new.throws THEN Fail("recipes") /\ UNCHANGED diff
       ELSE Goto("write") /\ diff' = new.made
    /\ UNCHANGED <<kept, plans, catalog, output>>

\* What was there is deleted first.
WriteDiffToDisk ==
    /\ Enters("write")
    /\ output' = <<[target |-> archives["target"], diff |-> diff]>>
    /\ Goto("verify")
    /\ UNCHANGED <<kept, work>>

\* The session has the source and the assets of the diff in its pantry.
Stock(d) == {archives["source"], d.inline, d.remainder}

\* The kitchen may take any of the recipes, and what it made is hashed.
VerifyDiffOutput ==
    /\ Enters("verify")
    /\ LET d == output[1].diff IN
       IF /\ output[1].target \in Made(Stock(d), d.recipes)
          /\ \A r \in d.recipes : Makes(r)
       THEN Goto("summarize") ELSE Fail("verify")
    /\ UNCHANGED <<kept, work, output>>

\* A diff larger than its target is an error, but stays.
SummarizeResults ==
    /\ stage = "summarize"
    /\ \/ stage' = "done" /\ UNCHANGED failure
       \/ Fail("summarize")
    /\ UNCHANGED <<kept, work, output>>

Cancel ==
    /\ Running
    /\ ~cancelled
    /\ cancelled' = TRUE
    /\ UNCHANGED <<folder, stage, worker, failure, runs, archives, tokens,
                   work, output>>

\* What a crash finds begun stays begun.
Crash ==
    /\ Running
    /\ stage' = "idle"
    /\ UNCHANGED <<folder, worker, failure, runs, cancelled, archives, tokens,
                   work, output>>

TokenizeArchive(s) ==
    \/ Stopped(s) \/ ClaimFolder(s) \/ WriteHash(s) \/ FindFolder(s)
    \/ LoadPreviousTokens(s) \/ LoadArchive(s) \/ CreateCookie(s)
    \/ CloseJson(s) \/ SupplyTokens(s) \/ CloseSupplied(s)
    \/ CookieOfSupplied(s)

ExecuteTasks ==
    \/ Tokenized \/ SeeCancellation \/ AnalyzeArchiveTokens
    \/ SelectItemsForDelta \/ ExtractItemsForDelta \/ CreateDeltas
    \/ CreateDiffRecipes \/ WriteDiffToDisk \/ VerifyDiffOutput
    \/ SummarizeResults

Next ==
    \/ Begin \/ Cancel \/ Crash \/ ExecuteTasks
    \/ \E s \in Sides : TokenizeArchive(s)

Spec == Init /\ [][Next]_vars

-----------------------------------------------------------------------------
(***************************************************************************)
(* Properties                                                              *)
(***************************************************************************)
\* The tokens that a run works with are those of the archives it was given,
\* whatever runs the folder has seen and wherever they crashed
\* (TokenizeArchives.cs:139-236).
TokensAreOfTheArchives ==
    \A s \in Sides :
        worker[s] \in {"cookie", "close", "supplied", "closed", "done"} /\ Running =>
            tokens[s] = TokensOf[s][archives[s]]

\* What StagesAgree asks of the archives.  A source that is a zipped file by
\* itself has no recipe that makes it of its content, and the target cannot give
\* it; an empty item and one other in a remainder make a slice of itself.
SourcesAreCut ==
    \A pair \in Pairs :
        LET t == TokensOf["source"][pair[1]]
        IN t.thrown \/ t.archive \in DOMAIN t.forward

NothingEmpty ==
    \A pair \in Pairs :
        LET t == TokensOf["target"][pair[2]] IN t.thrown \/ <<>> \notin Known(t)

\* What one stage selects the next can extract and lay out: archives that
\* were tokenized, and are diffable, get a diff (ExtractItemsForDelta.cs:37,
\* CreateDiffRecipes.cs:143).
StagesAgree == failure \notin {"extract", "recipes"}

\* The diff rebuilds the target from the source, its inline assets and its
\* remainder by recipes that are true, so that the verification of the
\* output never fails (VerifyDiffOutput.cs:44).
DiffRebuildsTarget ==
    /\ failure # "verify"
    /\ stage \in {"write", "verify"} =>
          archives["target"] \in Made(Stock(diff), diff.recipes)

\* The diff carries nothing that the source gives: no item of the remainder
\* can be made from the source by what is known of it.
Carried ==
    LET slices == {r \in diff.recipes : r.items = <<diff.remainder>>}
    IN diff.needed \union Results(slices) \union ({diff.remainder} \ {<<>>})

CarriesNothingOfTheSource ==
    stage = "write" =>
        Carried \intersect Made({archives["source"]}, Source.recipes) = {}

=============================================================================

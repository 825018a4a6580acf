------------------------------- MODULE Kitchen -------------------------------
(***************************************************************************)
(* diffs/core/kitchen.{h,cpp}: the kitchen of the delta processor.  It     *)
(* owns pantries (items at hand) and cookbooks (recipes), takes requests,  *)
(* and makes the requested items ready by a depth-first search over the    *)
(* recipes.  Every public operation holds m_item_request_mutex, so client  *)
(* calls do not overlap; process_requested_items() is long and may be left *)
(* by an exception, so it is modelled step by step with an explicit stack  *)
(* for the recursion of make_dependency_ready().                           *)
(*                                                                         *)
(* An item_definition is an element of Items.  A recipe is an element of   *)
(* Recipes with a result, a sequence of ingredients and a kind:            *)
(*   "parts"  chain and all_zeros: readable at random when every part is   *)
(*   "slice"  a range of one ingredient, which must be readable at random  *)
(*   "codec"  zlib, zstd and bspatch: a sequential stream, made lazily     *)
(* The order of a std::set of recipes or requests is left open.            *)
(***************************************************************************)
EXTENDS Integers, Sequences, Functions

CONSTANTS Items, Recipes,
          ResultOf, IngredientsOf, KindOf,
          Unpreparable,     \* recipes whose prepare() throws on their numbers
          ZeroLength,       \* items of length 0
          NoItem, NoRecipe,
          ArchivePantries, ArchiveCookbooks,  \* what archives may bring
          StoredItems, AddedRecipes,          \* what the client may add
          Requests,                           \* what the client may request
          ProcessModes,     \* the arguments process_requested_items() gets
          MaxSources        \* bound: pantries, and cookbooks, in the kitchen

Usable == {"reader", "stream"}
Shelf == Usable \union {"absent"}

KitchenAssumption ==
    /\ ResultOf \in [Recipes -> Items]
    /\ IngredientsOf \in [Recipes -> Seq(Items)]
    /\ KindOf \in [Recipes -> {"parts", "slice", "codec"}]
    /\ \A r \in Recipes : ResultOf[r] \notin Range(IngredientsOf[r])
    /\ \A r \in Recipes : KindOf[r] = "slice" => Len(IngredientsOf[r]) = 1
    /\ NoItem \notin Items
    /\ NoRecipe \notin Recipes
    /\ ArchivePantries \subseteq [Items -> Shelf]
    /\ ArchiveCookbooks \subseteq SUBSET Recipes
    /\ StoredItems \subseteq Items
    /\ AddedRecipes \subseteq Recipes
    /\ Requests \subseteq Items
    /\ ProcessModes \subseteq [selectOnly : BOOLEAN, mocked : SUBSET Items]
    /\ MaxSources \in Nat

ASSUME KitchenAssumption

VARIABLES
    m_all_pantries,       \* sequence of [Items -> Shelf]; the first is m_pantry
    m_all_cookbooks,      \* sequence of sets of recipes; the first is m_cookbook
    m_requested_items,
    m_unreachable_items,
    m_ready_items,        \* per item: how usable its entry is
    m_selected_recipes,   \* per item: the recipe chosen for it
    \* the process_requested_items() call in progress
    pc, mode, pending, target, already_using, stack, arg, answer,
    outcome               \* what the client's last call ended with

sources == <<m_all_pantries, m_all_cookbooks>>
requests == <<m_requested_items, m_unreachable_items>>
results == <<m_ready_items, m_selected_recipes>>
processing == <<mode, pending, target>>
others == <<sources, requests, processing, outcome>>  \* than a search changes
call == <<processing, already_using, stack, arg, answer>>
vars == <<others, results, already_using, stack, arg, answer, pc>>

(***************************************************************************)
(* An entry of m_ready_items: "absent" when there is none, "empty" for a   *)
(* null shared_ptr, "broken" for a prepared item built over a null one,    *)
(* "stream" when it can be read only in sequence, "reader" otherwise.      *)
(***************************************************************************)
Prepared == Usable \union {"broken", "empty"}
Readiness == Prepared \union {"absent"}

Ready(i) == m_ready_items[i] # "absent"
Selected(i) == m_selected_recipes[i] # NoRecipe
StockedIn(p, i) == m_all_pantries[p][i] # "absent"
Book == UNION {m_all_cookbooks[c] : c \in DOMAIN m_all_cookbooks}
Stocked(i) == \E p \in DOMAIN m_all_pantries : StockedIn(p, i)

\* pantry::add keeps an entry that is already there.
Add(pantry, i) == [pantry EXCEPT ![i] = IF @ = "absent" THEN "reader" ELSE @]
StoreInPantry(i) ==
    m_all_pantries' = [m_all_pantries EXCEPT ![1] = Add(@, i)]

\* A slip: what was unreachable is still held to be.
KeepUnreachableItems == UNCHANGED m_unreachable_items

ClearUnreachableItems == m_unreachable_items' = {}

\* The locals of process_requested_items() and make_dependency_ready().
NoMode == [selectOnly |-> FALSE, mocked |-> {}]

Frame == [item : Items,             \* what is being made
          book : Nat \ {0},         \* index of the cookbook being searched
          tried : SUBSET Recipes,   \* recipes of it already given up
          recipe : Recipes \union {NoRecipe},
          pos : Nat \ {0},          \* index of the next ingredient
          parts : SUBSET Prepared]  \* what prepared_ingredients points to

NewFrame(i) == [item |-> i, book |-> 1, tried |-> {}, recipe |-> NoRecipe,
                pos |-> 1, parts |-> {}]

Top == stack[Len(stack)]
Below == SubSeq(stack, 1, Len(stack) - 1)
SetTop(f) == stack' = [stack EXCEPT ![Len(stack)] = f]

LeaveCall ==
    /\ mode' = NoMode
    /\ pending' = {}
    /\ target' = NoItem
    /\ already_using' = {}
    /\ stack' = <<>>
    /\ arg' = NoItem
    /\ answer' = FALSE

Init ==
    /\ m_all_pantries = << [i \in Items |-> "absent"] >>
    /\ m_all_cookbooks = <<{}>>
    /\ m_requested_items = {}
    /\ m_unreachable_items = {}
    /\ m_ready_items = [i \in Items |-> "absent"]
    /\ m_selected_recipes = [i \in Items |-> NoRecipe]
    /\ pc = "idle"
    /\ mode = NoMode
    /\ pending = {}
    /\ target = NoItem
    /\ already_using = {}
    /\ stack = <<>>
    /\ arg = NoItem
    /\ answer = FALSE
    /\ outcome = "none"

-----------------------------------------------------------------------------
(* Client operations.  Each takes the mutex, so none runs inside another.  *)

StoreItem(i) ==
    /\ pc = "idle"
    /\ ClearUnreachableItems
    /\ StoreInPantry(i)
    /\ outcome' = "none"
    /\ UNCHANGED <<m_all_cookbooks, m_requested_items, results, pc, call>>

\* cookbook::add_recipe ignores a recipe for an item of length 0.
AddRecipe(r) ==
    /\ pc = "idle"
    /\ ClearUnreachableItems
    /\ m_all_cookbooks' =
           [m_all_cookbooks EXCEPT ![1] =
               IF ResultOf[r] \in ZeroLength THEN @ ELSE @ \union {r}]
    /\ outcome' = "none"
    /\ UNCHANGED <<m_all_pantries, m_requested_items, results, pc, call>>

AddPantry(p) ==
    /\ pc = "idle"
    /\ Len(m_all_pantries) < MaxSources
    /\ ClearUnreachableItems
    /\ m_all_pantries' = Append(m_all_pantries, p)
    /\ outcome' = "none"
    /\ UNCHANGED <<m_all_cookbooks, m_requested_items, results, pc, call>>

AddCookbook(c) ==
    /\ pc = "idle"
    /\ Len(m_all_cookbooks) < MaxSources
    /\ ClearUnreachableItems
    /\ m_all_cookbooks' =
           Append(m_all_cookbooks, {r \in c : ResultOf[r] \notin ZeroLength})
    /\ outcome' = "none"
    /\ UNCHANGED <<m_all_pantries, m_requested_items, results, pc, call>>

RequestItem(i) ==
    /\ pc = "idle"
    /\ m_requested_items' = m_requested_items \union {i}
    /\ outcome' = "none"
    /\ UNCHANGED <<sources, m_unreachable_items, results, pc, call>>

ClearRequestedItems ==
    /\ pc = "idle"
    /\ m_requested_items' = {}
    /\ outcome' = "none"
    /\ UNCHANGED <<sources, m_unreachable_items, results, pc, call>>

\* fetch_item() throws when there is no entry; a null or broken entry is
\* dereferenced, which ends the process.
WriteItem(i) ==
    /\ pc = "idle"
    /\ IF m_ready_items[i] \in {"empty", "broken"}
       THEN pc' = "crashed" /\ UNCHANGED outcome
       ELSE /\ outcome' = IF Ready(i) THEN "wrote" ELSE "threw"
            /\ UNCHANGED pc
    /\ UNCHANGED <<sources, requests, results, call>>

-----------------------------------------------------------------------------
(* process_requested_items(): the loop over the requested items.           *)

ProcessRequestedItems(m) ==
    /\ pc = "idle"
    /\ mode' = m
    /\ pending' = m_requested_items
    /\ ClearUnreachableItems
    /\ stack' = <<>>
    /\ pc' = "request"
    /\ outcome' = "none"
    /\ UNCHANGED <<sources, m_requested_items, results, target, already_using,
                   arg, answer>>

NextRequest ==
    /\ pc = "request"
    /\ \E i \in pending :
          /\ target' = i
          /\ arg' = i
    /\ already_using' = {}
    /\ pc' = "enter"
    /\ UNCHANGED <<sources, requests, results, mode, pending, stack, answer,
                   outcome>>

\* A slip: the request is erased whatever the answer.
EraseAlways == {target}

Erase == IF answer THEN {target} ELSE {}

FinishRequest ==
    /\ pc = "answer"
    /\ stack = <<>>
    /\ pending' = pending \ {target}
    /\ m_requested_items' = m_requested_items \ Erase
    /\ m_unreachable_items' = m_unreachable_items \union ({target} \ Erase)
    /\ pc' = "request"
    /\ UNCHANGED <<sources, results, mode, target, already_using, stack, arg,
                   answer, outcome>>

\* all_requests_fulfilled: a request that failed is still requested.
ProcessReturn ==
    /\ pc = "request"
    /\ pending = {}
    /\ outcome' = IF m_requested_items = {} THEN "fulfilled" ELSE "unfulfilled"
    /\ pc' = "idle"
    /\ LeaveCall
    /\ UNCHANGED <<sources, requests, results>>

-----------------------------------------------------------------------------
(* make_dependency_ready(arg): the checks before any recipe is looked for. *)

Answer(a) == answer' = a /\ pc' = "answer"

\* A slip: selected items are not looked up, and selected again.
AvailableUnlessSelected(i) == i \in mode.mocked \/ Ready(i)

Available(i) == i \in mode.mocked \/ Selected(i) \/ Ready(i)

AnswerAvailable ==
    /\ pc = "enter"
    /\ Available(arg)
    /\ Answer(TRUE)
    /\ UNCHANGED <<others, results, already_using, stack, arg>>

AnswerUnreachable ==
    /\ pc = "enter"
    /\ ~Available(arg)
    /\ arg \in m_unreachable_items
    /\ Answer(FALSE)
    /\ UNCHANGED <<others, results, already_using, stack, arg>>

\* A slip: the item is found, and not made ready.
Found(p) == m_ready_items

Taken(p) == [m_ready_items EXCEPT ![arg] = m_all_pantries[p][arg]]

TakeFromPantry ==
    /\ pc = "enter"
    /\ ~Available(arg)
    /\ arg \notin m_unreachable_items
    /\ \E p \in DOMAIN m_all_pantries :
          /\ StockedIn(p, arg)
          /\ \A q \in 1 .. p - 1 : ~StockedIn(q, arg)
          /\ m_ready_items' = Taken(p)
    /\ Answer(TRUE)
    /\ UNCHANGED <<others, m_selected_recipes, already_using, stack, arg>>

NeedsRecipe ==
    /\ pc = "enter"
    /\ ~Available(arg)
    /\ arg \notin m_unreachable_items
    /\ ~Stocked(arg)

AnswerAlreadyUsing ==
    /\ NeedsRecipe
    /\ arg \in already_using
    /\ Answer(FALSE)
    /\ UNCHANGED <<others, results, already_using, stack, arg>>

SearchRecipes ==
    /\ NeedsRecipe
    /\ arg \notin already_using
    /\ already_using' = already_using \union {arg}
    /\ stack' = Append(stack, NewFrame(arg))
    /\ pc' = "choose"
    /\ UNCHANGED <<others, results, arg, answer>>

-----------------------------------------------------------------------------
(* The loops over cookbooks, recipes and ingredients.                      *)

\* A slip: every recipe of the cookbook is found, whatever it makes.
UntriedOfAny == m_all_cookbooks[Top.book] \ Top.tried

Untried == {r \in m_all_cookbooks[Top.book] \ Top.tried :
               ResultOf[r] = Top.item}

ChooseRecipe ==
    /\ pc = "choose"
    /\ \E r \in Untried :
          SetTop([Top EXCEPT !.recipe = r, !.tried = @ \union {r},
                             !.pos = 1, !.parts = {}])
    /\ pc' = "gather"
    /\ UNCHANGED <<others, results, already_using, arg, answer>>

\* A slip: the same cookbook is searched again.
SameBook(f) == [f EXCEPT !.tried = {}]

NextBook(f) == [f EXCEPT !.book = @ + 1, !.tried = {}]

NextCookbook ==
    /\ pc = "choose"
    /\ Untried = {}
    /\ Top.book < Len(m_all_cookbooks)
    /\ SetTop(NextBook(Top))
    /\ UNCHANGED <<others, results, pc, already_using, arg, answer>>

NoMoreRecipes ==
    /\ pc = "choose"
    /\ Untried = {}
    /\ Top.book = Len(m_all_cookbooks)
    /\ stack' = Below
    /\ Answer(FALSE)
    /\ UNCHANGED <<others, results, already_using, arg>>

Ingredients == IngredientsOf[Top.recipe]

NeedIngredient ==
    /\ pc = "gather"
    /\ Top.pos <= Len(Ingredients)
    /\ arg' = Ingredients[Top.pos]
    /\ pc' = "enter"
    /\ UNCHANGED <<others, results, already_using, stack, answer>>

\* prepared_ingredients.push_back(m_ready_items[ingredient]): operator[] adds
\* a null entry when the ingredient is only mocked or selected.
GotIngredient ==
    /\ pc = "answer"
    /\ stack # <<>>
    /\ answer
    /\ LET i == Ingredients[Top.pos]
           entry == IF Ready(i) THEN m_ready_items[i] ELSE "empty"
       IN /\ m_ready_items' = [m_ready_items EXCEPT ![i] = entry]
          /\ SetTop([Top EXCEPT !.pos = @ + 1, !.parts = @ \union {entry}])
    /\ pc' = "gather"
    /\ UNCHANGED <<others, m_selected_recipes, already_using, arg, answer>>

BeforeImpossible ==
    {Ingredients[k] : k \in
        {j \in 1 .. Top.pos : \A l \in 1 .. j : Ingredients[l] # Ingredients[Top.pos]}}

ImpossibleIngredient ==
    /\ pc = "answer"
    /\ stack # <<>>
    /\ ~answer
    /\ already_using' = already_using \ BeforeImpossible
    /\ pc' = "choose"
    /\ UNCHANGED <<others, results, stack, arg, answer>>

-----------------------------------------------------------------------------
(* The recipe is selected, and unless only selecting, prepared.            *)

\* A slip: the last ingredient is left out.
AlmostGathered == pc = "gather" /\ Top.pos >= Len(Ingredients)

AllGathered == pc = "gather" /\ Top.pos > Len(Ingredients)

Select == m_selected_recipes' =
              [m_selected_recipes EXCEPT ![Top.item] = Top.recipe]

SelectOnly ==
    /\ AllGathered
    /\ mode.selectOnly
    /\ Select
    /\ stack' = Below
    /\ Answer(TRUE)
    /\ UNCHANGED <<others, m_ready_items, already_using, arg>>

\* slice_recipe::prepare calls kitchen::prepare_as_reader for an ingredient
\* that cannot be sliced; unless a pantry has it as a reader, it is read to
\* its end and stored in m_pantry.
MustStash == /\ KindOf[Top.recipe] = "slice"
             /\ Top.parts \intersect {"stream", "broken"} # {}
             /\ \A p \in DOMAIN m_all_pantries :
                   m_all_pantries[p][Ingredients[1]] # "reader"

\* A null ingredient is dereferenced at once, except by the codecs, which
\* only keep it; staging a broken one reads through a null pointer.
PrepareCrashes ==
    \/ "empty" \in Top.parts /\ KindOf[Top.recipe] # "codec"
    \/ "broken" \in Top.parts /\ MustStash

PreparedAs ==
    IF KindOf[Top.recipe] = "slice" THEN "reader"
    ELSE IF Top.parts \intersect {"empty", "broken"} # {} THEN "broken"
    ELSE IF KindOf[Top.recipe] = "codec" \/ "stream" \in Top.parts THEN "stream"
    ELSE "reader"

Stash == IF MustStash THEN StoreInPantry(Ingredients[1])
                      ELSE UNCHANGED m_all_pantries

Preparing == AllGathered /\ ~mode.selectOnly /\ Select

\* std::map::insert keeps an entry that is already there.
Prepare ==
    /\ Preparing
    /\ ~PrepareCrashes
    /\ Top.recipe \notin Unpreparable
    /\ Stash
    /\ m_ready_items' =
           [m_ready_items EXCEPT ![Top.item] = IF @ = "absent" THEN PreparedAs ELSE @]
    /\ stack' = Below
    /\ Answer(TRUE)
    /\ UNCHANGED <<m_all_cookbooks, requests, processing, already_using, arg,
                   outcome>>

\* The exception leaves through every frame and process_requested_items().
PrepareThrows ==
    /\ Preparing
    /\ ~PrepareCrashes
    /\ Top.recipe \in Unpreparable
    /\ Stash
    /\ LeaveCall
    /\ pc' = "idle"
    /\ outcome' = "threw"
    /\ UNCHANGED <<m_all_cookbooks, requests, m_ready_items>>

PrepareCrash ==
    /\ Preparing
    /\ PrepareCrashes
    /\ LeaveCall
    /\ pc' = "crashed"
    /\ UNCHANGED <<sources, requests, m_ready_items, outcome>>

-----------------------------------------------------------------------------
Client ==
    \/ \E i \in StoredItems : StoreItem(i)
    \/ \E r \in AddedRecipes : AddRecipe(r)
    \/ \E p \in ArchivePantries : AddPantry(p)
    \/ \E c \in ArchiveCookbooks : AddCookbook(c)
    \/ \E i \in Requests : RequestItem(i)
    \/ ClearRequestedItems
    \/ \E i \in Requests : WriteItem(i)
    \/ \E m \in ProcessModes : ProcessRequestedItems(m)

MakeReady ==
    \/ AnswerAvailable \/ AnswerUnreachable \/ TakeFromPantry
    \/ AnswerAlreadyUsing \/ SearchRecipes
    \/ ChooseRecipe \/ NextCookbook \/ NoMoreRecipes
    \/ NeedIngredient \/ GotIngredient \/ ImpossibleIngredient
    \/ SelectOnly \/ Prepare \/ PrepareThrows \/ PrepareCrash

Process == NextRequest \/ FinishRequest \/ ProcessReturn \/ MakeReady

Next == Client \/ Process

\* A call in progress is run by its thread until it returns.
Spec == Init /\ [][Next]_vars /\ WF_vars(Process)

-----------------------------------------------------------------------------
(* Correctness.                                                            *)

TypeOK ==
    /\ m_all_pantries \in Seq([Items -> Shelf]) /\ m_all_pantries # <<>>
    /\ m_all_cookbooks \in Seq(SUBSET Recipes) /\ m_all_cookbooks # <<>>
    /\ m_requested_items \subseteq Items
    /\ m_unreachable_items \subseteq Items
    /\ m_ready_items \in [Items -> Readiness]
    /\ m_selected_recipes \in [Items -> Recipes \union {NoRecipe}]
    /\ pc \in {"idle", "request", "enter", "choose", "gather", "answer", "crashed"}
    /\ mode \in [selectOnly : BOOLEAN, mocked : SUBSET Items]
    /\ pending \subseteq Items
    /\ target \in Items \union {NoItem}
    /\ already_using \subseteq Items
    /\ stack \in Seq(Frame)
    /\ arg \in Items \union {NoItem}
    /\ answer \in BOOLEAN
    /\ outcome \in {"none", "fulfilled", "unfulfilled", "threw", "wrote"}

D == INSTANCE Derivation
     WITH stock <- {i \in Items : Stocked(i)},
          book <- Book,
          obtained <- {i \in Items : m_ready_items[i] \in Usable}

\* Whatever the order of requests, failures and retries, the kitchen only
\* hands out items that can be derived from its pantries and cookbooks, and
\* keeps what it made (make_dependency_ready, kitchen.cpp:136-243).
DerivesOnlyDerivable == D!Spec

\* The selected recipes never depend on each other in a circle, although
\* cookbooks may: every set of selected items has one that needs no other of
\* the set.  A circular selection could never be followed to its end.
SelectedWellFounded ==
    \A S \in SUBSET {i \in Items : Selected(i)} :
        S = {} \/ \E i \in S : D!Needs(m_selected_recipes[i]) \intersect S = {}

\* While nothing is mocked, what save_selected_recipes() writes is a complete
\* plan: every ingredient of a selected recipe is stocked or selected too.
PlanComplete ==
    \A i \in Items : Selected(i) =>
        \A n \in D!Needs(m_selected_recipes[i]) : Selected(n) \/ Stocked(n)

\* A selection and a usable item stay what they are, over every later call.
ResultsStable ==
    [][\A i \in Items :
          /\ Selected(i) => m_selected_recipes'[i] = m_selected_recipes[i]
          /\ m_ready_items[i] \in Usable => m_ready_items'[i] = m_ready_items[i]]_vars

\* "Returns true if all items were fully available" (kitchen.h:109): a
\* request that process_requested_items() drops can be fetched and read.
DroppedRequestsAreFetchable ==
    [][\A i \in m_requested_items \ m_requested_items' :
          pc # "idle" => m_ready_items'[i] \in Usable]_vars

\* What process_requested_items() returns agrees with its two sets: the
\* requests that failed are still requested and are exactly the unreachable
\* items, and none is left when it returned true.
OutcomeAccounted ==
    /\ outcome = "unfulfilled" => m_requested_items = m_unreachable_items
    /\ outcome = "fulfilled" => m_requested_items \union m_unreachable_items = {}

\* "Any items that are not able to be prepared will be within
\* m_unreachable_items" (kitchen.h:91): an item reported unreachable is one
\* that stock and recipes cannot make, also after either has grown.
UnreachableIsUnderivable ==
    pc = "idle" =>
        m_unreachable_items \intersect
            D!Derivable({i \in Items : Stocked(i)}, Book) = {}

\* No call dereferences a null item.
NeverCrashes == pc # "crashed"

\* Circular recipes do not make the search run forever: every call of
\* process_requested_items() comes to an end.
ProcessReturns == pc = "request" ~> pc \in {"idle", "crashed"}

-----------------------------------------------------------------------------
(* The inductive invariant behind the safety properties.                   *)

\* The stack is there only while make_dependency_ready() runs.
ControlInv ==
    /\ pc \in {"idle", "request", "crashed"} => stack = <<>>
    /\ pc \in {"choose", "gather"} => stack # <<>>
    /\ pc \notin {"idle", "request", "crashed"} => target \in Items
    /\ pc = "enter" => arg \in Items

\* An item in the making is marked as being used, and is neither available
\* nor stocked: it can only be finished by its own frame.
InTheMaking(i) == i \in already_using /\ ~Available(i) /\ ~Stocked(i)

\* A frame that follows a recipe has gathered the ingredients before pos.
Following(f) ==
    /\ f.recipe \in Book
    /\ ResultOf[f.recipe] = f.item
    /\ \A j \in 1 .. f.pos - 1 :
          /\ j <= Len(IngredientsOf[f.recipe])
          /\ m_ready_items[IngredientsOf[f.recipe][j]] \in f.parts

\* A frame that waits for an ingredient.
WaitingFor(f, i) ==
    /\ f.pos <= Len(IngredientsOf[f.recipe])
    /\ i = IngredientsOf[f.recipe][f.pos]

StackInv ==
    \A k \in 1 .. Len(stack) :
       /\ InTheMaking(stack[k].item)
       /\ stack[k].book <= Len(m_all_cookbooks)
       /\ \A l \in 1 .. Len(stack) : l # k => stack[l].item # stack[k].item
       /\ k < Len(stack) \/ pc \in {"enter", "answer", "gather"} => Following(stack[k])
       /\ k < Len(stack) => WaitingFor(stack[k], stack[k + 1].item)

\* The item being entered, or answered, is the one the top frame waits for.
TopInv ==
    stack # <<>> =>
       /\ pc = "enter" => WaitingFor(Top, arg)
       /\ pc = "answer" => /\ Top.pos <= Len(Ingredients)
                           /\ answer => Available(Ingredients[Top.pos])

\* A recipe is selected for its own result, when all it needs has an entry.
SelectedInv ==
    \A i \in Items : Selected(i) =>
        /\ ResultOf[m_selected_recipes[i]] = i
        /\ \A n \in D!Needs(m_selected_recipes[i]) : Ready(n)

IInv ==
    /\ TypeOK
    /\ ControlInv
    /\ StackInv
    /\ TopInv
    /\ SelectedInv
    /\ SelectedWellFounded
=============================================================================

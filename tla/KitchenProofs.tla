---------------------------- MODULE KitchenProofs ----------------------------
(***************************************************************************)
(* What Kitchen keeps for all items, recipes, archives and clients: its    *)
(* type invariant, and the inductive invariant IInv from which follow the  *)
(* well-foundedness of the selected recipes, the stability of the results  *)
(* and that the kitchen implements Derivation.  Then what a client may     *)
(* conclude from the kitchen's answers.                                    *)
(***************************************************************************)
EXTENDS Kitchen, SequenceTheorems, TLAPS

\* Popping the stack keeps the frames below the top one.
LEMMA PopProperties ==
  ASSUME NEW S, NEW s \in Seq(S), s # <<>>
  PROVE  LET below == SubSeq(s, 1, Len(s) - 1)
         IN  /\ below \in Seq(S)
             /\ Len(below) = Len(s) - 1
             /\ \A i \in 1 .. Len(s) - 1 : below[i] = s[i]
             /\ Len(s) \in Nat \ {0}
<1>1. Len(s) \in Nat \ {0} BY EmptySeq
<1>2. \A i \in 1 .. Len(s) - 1 : s[i] \in S BY <1>1, ElementOfSeq
<1>3. Len(s) - 1 \in Int /\ 1 \in Int BY <1>1
<1> DEFINE n == Len(s) - 1
<1> HIDE DEF n
<1>4. /\ SubSeq(s, 1, n) \in Seq(S)
      /\ Len(SubSeq(s, 1, n)) = IF 1 <= n THEN n - 1 + 1 ELSE 0
      /\ \A i \in 1 .. n - 1 + 1 : SubSeq(s, 1, n)[i] = s[1 + i - 1]
  <2>1. n \in Int /\ 1 \in Int BY <1>3 DEF n
  <2>2. \A i \in 1 .. n : s[i] \in S BY <1>2 DEF n
  <2> QED BY <2>1, <2>2, SubSeqProperties
<1>5. n \in Nat BY <1>1 DEF n
<1>6. /\ Len(SubSeq(s, 1, n)) = n
      /\ \A i \in 1 .. n : SubSeq(s, 1, n)[i] = s[i]
  BY <1>4, <1>5
<1> QED BY <1>1, <1>4, <1>6 DEF n

\* Replacing the top frame keeps all others.
LEMMA SetTopProperties ==
  ASSUME NEW S, NEW s \in Seq(S), s # <<>>, NEW e \in S
  PROVE  LET t == [s EXCEPT ![Len(s)] = e]
         IN  /\ t \in Seq(S)
             /\ Len(t) = Len(s)
             /\ \A i \in 1 .. Len(s) : t[i] = IF i = Len(s) THEN e ELSE s[i]
<1>1. Len(s) \in Nat \ {0} BY EmptySeq
<1>2. Len(s) \in 1 .. Len(s) BY <1>1
<1> QED BY <1>2, ExceptSeq

\* The top frame is a frame.
LEMMA TopType ==
  ASSUME stack \in Seq(Frame), stack # <<>>
  PROVE  Top \in Frame /\ Len(stack) \in Nat \ {0}
<1>1. Len(stack) \in Nat \ {0} BY EmptySeq
<1>2. Len(stack) \in 1 .. Len(stack) BY <1>1
<1> QED BY <1>1, <1>2, ElementOfSeq DEF Top

\* Every recipe of a cookbook is one of Recipes, and is in Book.
LEMMA BookType ==
  ASSUME TypeOK
  PROVE  /\ Book \subseteq Recipes
         /\ \A c \in 1 .. Len(m_all_cookbooks) :
               m_all_cookbooks[c] \subseteq Recipes /\ m_all_cookbooks[c] \subseteq Book
<1>1. /\ m_all_cookbooks \in Seq(SUBSET Recipes)
      /\ DOMAIN m_all_cookbooks = 1 .. Len(m_all_cookbooks)
  BY LenProperties DEF TypeOK
<1>2. \A c \in 1 .. Len(m_all_cookbooks) : m_all_cookbooks[c] \in SUBSET Recipes
  BY <1>1, ElementOfSeq
<1> QED BY <1>1, <1>2 DEF Book

\* What the invariant says of the frame on top of the stack.
LEMMA TopFacts ==
  ASSUME KitchenAssumption, TypeOK, StackInv, stack # <<>>
  PROVE  /\ Top \in Frame
         /\ Len(stack) \in Nat \ {0}
         /\ Top.book \in 1 .. Len(m_all_cookbooks)
         /\ InTheMaking(Top.item)
         /\ pc \in {"enter", "answer", "gather"} =>
               /\ Following(Top)
               /\ Top.recipe \in Recipes
               /\ Ingredients \in Seq(Items)
<1>1. Top \in Frame /\ Len(stack) \in Nat \ {0} BY TopType DEF TypeOK
<1>2. Len(stack) \in 1 .. Len(stack) BY <1>1
<1>3. /\ InTheMaking(Top.item)
      /\ Top.book <= Len(m_all_cookbooks)
      /\ pc \in {"enter", "answer", "gather"} => Following(Top)
  BY <1>2 DEF StackInv, Top
<1>4. Top.book \in 1 .. Len(m_all_cookbooks)
  <2>1. Top.book \in Nat \ {0} BY <1>1 DEF Frame
  <2>2. Len(m_all_cookbooks) \in Nat BY LenProperties DEF TypeOK
  <2> QED BY <2>1, <2>2, <1>3
<1>5. Following(Top) => Top.recipe \in Recipes BY BookType DEF Following
<1> QED BY <1>1, <1>3, <1>4, <1>5 DEF KitchenAssumption, Ingredients

\* The changes the actions make to a frame.
LEMMA FrameTypes ==
  ASSUME NEW f \in Frame
  PROVE  /\ \A r \in Recipes :
               [f EXCEPT !.recipe = r, !.tried = @ \union {r},
                         !.pos = 1, !.parts = {}] \in Frame
         /\ [f EXCEPT !.book = @ + 1, !.tried = {}] \in Frame
         /\ \A e \in Prepared :
               [f EXCEPT !.pos = @ + 1, !.parts = @ \union {e}] \in Frame
<1>1. /\ f.tried \subseteq Recipes /\ f.parts \subseteq Prepared
      /\ f.book \in Nat \ {0} /\ f.pos \in Nat \ {0}
  BY DEF Frame
<1>2. ASSUME NEW r \in Recipes
      PROVE  [f EXCEPT !.recipe = r, !.tried = @ \union {r}, !.pos = 1, !.parts = {}] \in Frame
  <2>1. f.tried \union {r} \in SUBSET Recipes BY <1>1
  <2>2. r \in Recipes \union {NoRecipe} /\ 1 \in Nat \ {0} /\ {} \in SUBSET Prepared OBVIOUS
  <2> QED BY <2>1, <2>2 DEF Frame
<1>3. [f EXCEPT !.book = @ + 1, !.tried = {}] \in Frame
  <2>1. f.book + 1 \in Nat \ {0} /\ {} \in SUBSET Recipes BY <1>1
  <2> QED BY <2>1 DEF Frame
<1>4. ASSUME NEW e \in Prepared
      PROVE  [f EXCEPT !.pos = @ + 1, !.parts = @ \union {e}] \in Frame
  <2>1. f.pos + 1 \in Nat \ {0} BY <1>1
  <2>2. f.parts \union {e} \in SUBSET Prepared BY <1>1
  <2> QED BY <2>1, <2>2 DEF Frame
<1> QED BY <1>2, <1>3, <1>4

\* Storing an item keeps the pantries' type.
LEMMA StoreType ==
  ASSUME TypeOK, NEW i, StoreInPantry(i)
  PROVE  m_all_pantries' \in Seq([Items -> Shelf]) /\ m_all_pantries' # <<>>
<1> DEFINE P == [Items -> Shelf]
<1>1. m_all_pantries \in Seq(P) /\ m_all_pantries # <<>> BY DEF TypeOK
<1>2. 1 \in 1 .. Len(m_all_pantries) BY <1>1, EmptySeq
<1>3. m_all_pantries[1] \in P BY <1>1, <1>2, ElementOfSeq
<1>4. Add(m_all_pantries[1], i) \in P BY <1>3 DEF Add, Shelf, Usable
<1>5. m_all_pantries' = [m_all_pantries EXCEPT ![1] = Add(m_all_pantries[1], i)]
  BY DEF StoreInPantry
<1>6. m_all_pantries' \in Seq(P) /\ Len(m_all_pantries') = Len(m_all_pantries)
  <2> HIDE DEF P
  <2> QED BY <1>1, <1>2, <1>4, <1>5, ExceptSeq
<1>7. m_all_pantries' # <<>> BY <1>2, <1>6, EmptySeq
<1> QED BY <1>6, <1>7

\* Every action keeps the variables in their types.
LEMMA TypeStep ==
  ASSUME KitchenAssumption, TypeOK, ControlInv, StackInv, TopInv, Next
  PROVE  TypeOK'
<1> USE DEF KitchenAssumption
<1>1. ASSUME NEW i \in StoredItems, StoreItem(i) PROVE TypeOK'
  BY <1>1, StoreType DEF TypeOK, StoreItem, results, call, others, requests,
     processing, ClearUnreachableItems, sources
<1>2. ASSUME NEW r \in AddedRecipes, AddRecipe(r) PROVE TypeOK'
  BY <1>2 DEF TypeOK, AddRecipe, results, call, others, requests, processing,
     ClearUnreachableItems, sources
<1>3. ASSUME NEW p \in ArchivePantries, AddPantry(p) PROVE TypeOK'
  <2>1. p \in [Items -> Shelf] OBVIOUS
  <2>2. m_all_pantries \in Seq([Items -> Shelf]) /\ m_all_pantries' = Append(m_all_pantries, p)
    BY <1>3 DEF TypeOK, AddPantry, requests, processing, ClearUnreachableItems
  <2>3. m_all_pantries' \in Seq([Items -> Shelf]) /\ m_all_pantries' # <<>>
    <3> HIDE DEF KitchenAssumption
    <3> QED BY <2>1, <2>2, AppendProperties
  <2> QED
    BY <1>3, <2>3 DEF TypeOK, AddPantry, results, call, others, requests,
       processing, ClearUnreachableItems, sources
<1>4. ASSUME NEW c \in ArchiveCookbooks, AddCookbook(c) PROVE TypeOK'
  <2>1. {r \in c : ResultOf[r] \notin ZeroLength} \in SUBSET Recipes OBVIOUS
  <2>2. m_all_cookbooks' \in Seq(SUBSET Recipes) /\ m_all_cookbooks' # <<>>
    BY <1>4, <2>1, AppendProperties, EmptySeq DEF TypeOK, AddCookbook, requests,
       processing, ClearUnreachableItems
  <2> QED
    BY <1>4, <2>2 DEF TypeOK, AddCookbook, results, call, others, requests,
       processing, ClearUnreachableItems, sources
<1>5. ASSUME NEW i \in Requests, RequestItem(i) PROVE TypeOK'
  BY <1>5 DEF TypeOK, RequestItem, sources, results, call, others, requests,
     processing
<1>6. CASE ClearRequestedItems
  BY <1>6 DEF TypeOK, ClearRequestedItems, sources, results, call, others,
     requests, processing
<1>7. ASSUME NEW i \in Requests, WriteItem(i) PROVE TypeOK'
  BY <1>7 DEF TypeOK, WriteItem, sources, results, call, others, requests,
     processing
<1>8. ASSUME NEW m \in ProcessModes, ProcessRequestedItems(m) PROVE TypeOK'
  BY <1>8 DEF TypeOK, ProcessRequestedItems, sources, results, requests,
     processing, ClearUnreachableItems
<1>9. CASE NextRequest
  BY <1>9 DEF TypeOK, NextRequest, sources, results, requests, processing
<1>10. CASE FinishRequest
  BY <1>10 DEF TypeOK, ControlInv, FinishRequest, sources, results, requests,
     processing, Erase
<1>11. CASE ProcessReturn
  BY <1>11, EmptySeq DEF TypeOK, ProcessReturn, LeaveCall, NoMode, sources,
     results, requests, processing
<1>12. CASE AnswerAvailable
  BY <1>12 DEF TypeOK, AnswerAvailable, Answer, sources, results, others,
     requests, processing
<1>13. CASE AnswerUnreachable
  BY <1>13 DEF TypeOK, AnswerUnreachable, Answer, sources, results, others,
     requests, processing
<1>14. CASE TakeFromPantry
  BY <1>14 DEF TypeOK, TakeFromPantry, Answer, ControlInv, StockedIn, Shelf,
               Readiness, Prepared, sources, others, requests, processing, Taken
<1>15. CASE AnswerAlreadyUsing
  BY <1>15 DEF TypeOK, AnswerAlreadyUsing, NeedsRecipe, Answer, sources,
     results, others, requests, processing
<1>16. CASE SearchRecipes
  <2>1. NewFrame(arg) \in Frame
    BY <1>16 DEF TypeOK, SearchRecipes, NeedsRecipe, ControlInv, NewFrame,
       Frame, others, requests, processing, sources
  <2>2. stack' \in Seq(Frame)
    BY <1>16, <2>1, AppendProperties DEF TypeOK, SearchRecipes, others,
       requests, processing, sources
  <2> QED
    BY <1>16, <2>2 DEF TypeOK, SearchRecipes, NeedsRecipe, ControlInv, sources,
       results, others, requests, processing
<1>17. CASE ChooseRecipe
  <2>1. stack # <<>>
    BY <1>17 DEF ControlInv, ChooseRecipe, others, requests, processing, sources
  <2>2. Top \in Frame /\ Top.book \in 1 .. Len(m_all_cookbooks)
    BY <2>1, TopFacts
  <2>3. Untried \subseteq Recipes BY <2>2, BookType DEF Untried
  <2>4. PICK r \in Untried :
          SetTop([Top EXCEPT !.recipe = r, !.tried = @ \union {r}, !.pos = 1, !.parts = {}])
    BY <1>17 DEF ChooseRecipe, others, requests, processing, sources
  <2>5. [Top EXCEPT !.recipe = r, !.tried = @ \union {r}, !.pos = 1, !.parts = {}] \in Frame
    BY <2>2, <2>3, FrameTypes
  <2>6. stack' \in Seq(Frame)
    BY <2>1, <2>4, <2>5, SetTopProperties DEF SetTop, TypeOK
  <2> QED
    BY <1>17, <2>6 DEF TypeOK, ChooseRecipe, sources, results, others, requests,
       processing
<1>18. CASE NextCookbook
  <2>1. stack # <<>>
    BY <1>18 DEF ControlInv, NextCookbook, others, requests, processing,
       NextBook, sources
  <2>2. [Top EXCEPT !.book = @ + 1, !.tried = {}] \in Frame
    BY <2>1, TopFacts, FrameTypes
  <2>3. stack' \in Seq(Frame)
    BY <1>18, <2>1, <2>2, SetTopProperties DEF NextCookbook, SetTop, TypeOK,
       others, requests, processing, NextBook, sources
  <2> QED
    BY <1>18, <2>3 DEF TypeOK, NextCookbook, sources, results, others, requests,
       processing, NextBook
<1>19. CASE NoMoreRecipes
  <2>1. stack' \in Seq(Frame)
    BY <1>19, PopProperties DEF TypeOK, ControlInv, NoMoreRecipes, Below,
       others, requests, processing, sources
  <2> QED
    BY <1>19, <2>1 DEF TypeOK, NoMoreRecipes, Answer, sources, results, others,
       requests, processing
<1>20. CASE NeedIngredient
  <2>1. stack # <<>>
    BY <1>20 DEF ControlInv, NeedIngredient, others, requests, processing,
       sources
  <2>2. /\ Top \in Frame
        /\ Ingredients \in Seq(Items)
    BY <1>20, <2>1, TopFacts DEF NeedIngredient, others, requests, processing,
       sources
  <2>3. Top.pos \in 1 .. Len(Ingredients)
    BY <1>20, <2>2, LenProperties DEF NeedIngredient, Frame, others, requests,
       processing, sources
  <2>4. Ingredients[Top.pos] \in Items BY <2>2, <2>3, ElementOfSeq
  <2> QED
    BY <1>20, <2>4 DEF TypeOK, NeedIngredient, sources, results, others,
       requests, processing
<1>21. CASE GotIngredient
  <2> DEFINE i == Ingredients[Top.pos]
             entry == IF Ready(i) THEN m_ready_items[i] ELSE "empty"
  <2>1. stack # <<>>
    BY <1>21 DEF GotIngredient, others, requests, processing, sources
  <2>2. /\ Top \in Frame
        /\ Ingredients \in Seq(Items)
    BY <1>21, <2>1, TopFacts DEF GotIngredient, others, requests, processing,
       sources
  <2>3. Top.pos \in 1 .. Len(Ingredients)
    BY <1>21, <2>1, <2>2, LenProperties DEF GotIngredient, TopInv, Frame,
       others, requests, processing, sources
  <2>4. i \in Items BY <2>2, <2>3, ElementOfSeq
  <2>5. entry \in Prepared
    BY <2>4 DEF TypeOK, Ready, Readiness, Prepared
  <2>6. [Top EXCEPT !.pos = @ + 1, !.parts = @ \union {entry}] \in Frame
    BY <2>2, <2>5, FrameTypes
  <2>7. /\ m_ready_items' = [m_ready_items EXCEPT ![i] = entry]
        /\ SetTop([Top EXCEPT !.pos = @ + 1, !.parts = @ \union {entry}])
    BY <1>21 DEF GotIngredient, others, requests, processing, sources
  <2>8. m_ready_items' \in [Items -> Readiness]
    BY <2>5, <2>7 DEF TypeOK, Readiness
  <2>9. stack' \in Seq(Frame)
    BY <2>1, <2>6, <2>7, SetTopProperties DEF SetTop, TypeOK
  <2> QED
    BY <1>21, <2>8, <2>9 DEF TypeOK, GotIngredient, sources, others, requests,
       processing
<1>22. CASE ImpossibleIngredient
  BY <1>22 DEF TypeOK, ImpossibleIngredient, sources, results, others, requests,
     processing
<1>23. ASSUME AllGathered, Select
       PROVE  /\ stack # <<>>
              /\ Below \in Seq(Frame)
              /\ m_selected_recipes' \in [Items -> Recipes \union {NoRecipe}]
  <2>1. stack # <<>> BY <1>23 DEF AllGathered, ControlInv
  <2>2. Below \in Seq(Frame) BY <2>1, PopProperties DEF Below, TypeOK
  <2>3. Top.recipe \in Recipes BY <1>23, <2>1, TopFacts DEF AllGathered
  <2> QED BY <1>23, <2>1, <2>2, <2>3 DEF Select, TypeOK
<1>24. CASE SelectOnly
  BY <1>23, <1>24 DEF TypeOK, SelectOnly, Answer, sources, others, requests,
     processing
<1>25. ASSUME Stash PROVE m_all_pantries' \in Seq([Items -> Shelf]) /\ m_all_pantries' # <<>>
  <2>1. CASE UNCHANGED m_all_pantries BY <2>1 DEF TypeOK
  <2>2. CASE StoreInPantry(Ingredients[1]) BY <2>2, StoreType
  <2> QED BY <1>25, <2>1, <2>2 DEF Stash
<1>26. CASE Prepare
  <2>1. PreparedAs \in Readiness BY DEF PreparedAs, Readiness, Prepared, Usable
  <2> QED
    BY <1>23, <1>25, <1>26, <2>1 DEF TypeOK, Prepare, Preparing, Answer,
       requests, processing
<1>27. CASE PrepareThrows
  BY <1>23, <1>25, <1>27, EmptySeq DEF TypeOK, PrepareThrows, Preparing,
     LeaveCall, NoMode, requests, processing
<1>28. CASE PrepareCrash
  BY <1>23, <1>28, EmptySeq DEF TypeOK, PrepareCrash, Preparing, LeaveCall,
     NoMode, sources, requests, processing
<1> QED
  BY <1>1, <1>2, <1>3, <1>4, <1>5, <1>6, <1>7, <1>8, <1>9, <1>10, <1>11, <1>12,
     <1>13, <1>14, <1>15, <1>16, <1>17, <1>18, <1>19, <1>20, <1>21, <1>22, <1>23,
     <1>24, <1>26, <1>27, <1>28
  DEF Next, Client, Process, MakeReady

-----------------------------------------------------------------------------
\* A step that keeps the cookbooks, the mocked items and every entry.
Kept ==
    /\ m_all_cookbooks' = m_all_cookbooks
    /\ mode' = mode
    /\ \A i \in Items : Ready(i) => m_ready_items'[i] = m_ready_items[i]

\* Such a step keeps what a frame has gathered.
LEMMA FollowingKept ==
  ASSUME KitchenAssumption, TypeOK, Kept, NEW f \in Frame, Following(f)
  PROVE  Following(f)'
<1>1. f.recipe \in Recipes BY BookType DEF Following
<1>2. IngredientsOf[f.recipe] \in Seq(Items) BY <1>1 DEF KitchenAssumption
<1>3. f.parts \subseteq Prepared /\ f.pos \in Nat \ {0} BY DEF Frame
<1>4. ASSUME NEW j \in 1 .. f.pos - 1
      PROVE  /\ j <= Len(IngredientsOf[f.recipe])
             /\ m_ready_items'[IngredientsOf[f.recipe][j]] \in f.parts
  <2>1. /\ j <= Len(IngredientsOf[f.recipe])
        /\ m_ready_items[IngredientsOf[f.recipe][j]] \in f.parts
    BY DEF Following
  <2>2. j \in 1 .. Len(IngredientsOf[f.recipe])
    BY <1>2, <1>3, <2>1, LenProperties
  <2>3. IngredientsOf[f.recipe][j] \in Items BY <1>2, <2>2, ElementOfSeq
  <2>4. Ready(IngredientsOf[f.recipe][j])
    BY <1>3, <2>1 DEF Ready, Prepared, Usable
  <2> QED BY <2>1, <2>3, <2>4 DEF Kept
<1>5. Book' = Book BY DEF Kept, Book
<1> QED BY <1>4, <1>5 DEF Following

\* The stack invariant, when the stack stays as it is and no item of it is
\* finished by the step.
LEMMA StackUnchanged ==
  ASSUME KitchenAssumption, TypeOK, StackInv, Kept,
         stack' = stack,
         pc \in {"enter", "answer", "gather"},
         \A k \in 1 .. Len(stack) : InTheMaking(stack[k].item)'
  PROVE  StackInv'
<1> SUFFICES ASSUME NEW k \in 1 .. Len(stack)
             PROVE  /\ InTheMaking(stack[k].item)'
                    /\ stack[k].book <= Len(m_all_cookbooks)
                    /\ \A l \in 1 .. Len(stack) : l # k => stack[l].item # stack[k].item
                    /\ Following(stack[k])'
                    /\ k < Len(stack) => WaitingFor(stack[k], stack[k + 1].item)
  BY DEF StackInv, Kept, WaitingFor
<1>1. stack[k] \in Frame BY ElementOfSeq DEF TypeOK
<1>2. Following(stack[k]) BY DEF StackInv
<1>3. Following(stack[k])' BY <1>1, <1>2, FollowingKept
<1> QED BY <1>3 DEF StackInv

\* ... when the top frame is popped.
LEMMA StackPopped ==
  ASSUME KitchenAssumption, TypeOK, StackInv, Kept,
         stack # <<>>,
         stack' = Below,
         pc' = "answer",
         \A k \in 1 .. Len(stack) - 1 : InTheMaking(stack[k].item)'
  PROVE  /\ StackInv'
         /\ stack' # <<>> => /\ Top'.recipe \in Recipes
                             /\ WaitingFor(Top', Top.item)
<1>1. /\ Len(stack) \in Nat \ {0}
      /\ Len(stack') = Len(stack) - 1
      /\ \A k \in 1 .. Len(stack) - 1 : stack'[k] = stack[k]
  BY PopProperties DEF Below, TypeOK
<1>2. ASSUME NEW k \in 1 .. Len(stack) - 1
      PROVE  /\ stack[k] \in Frame
             /\ Following(stack[k])
             /\ stack[k].recipe \in Recipes
             /\ WaitingFor(stack[k], stack[k + 1].item)
             /\ stack[k].book <= Len(m_all_cookbooks)
             /\ \A l \in 1 .. Len(stack) : l # k => stack[l].item # stack[k].item
  <2>1. k \in 1 .. Len(stack) /\ k < Len(stack) BY <1>1
  <2>2. stack[k] \in Frame BY <2>1, ElementOfSeq DEF TypeOK
  <2>3. Following(stack[k]) BY <2>1 DEF StackInv
  <2>4. stack[k].recipe \in Recipes BY <2>3, BookType DEF Following
  <2> QED BY <2>1, <2>2, <2>3, <2>4 DEF StackInv
<1>3. \A f \in Frame : Following(f) => Following(f)' BY FollowingKept
<1>4. StackInv'
  <2> SUFFICES ASSUME NEW k \in 1 .. Len(stack')
               PROVE  /\ InTheMaking(stack[k].item)'
                      /\ stack'[k].book <= Len(m_all_cookbooks')
                      /\ \A l \in 1 .. Len(stack') : l # k => stack'[l].item # stack'[k].item
                      /\ Following(stack[k])'
                      /\ k < Len(stack') => WaitingFor(stack'[k], stack'[k + 1].item)
    BY DEF StackInv, WaitingFor
  <2>1. k \in 1 .. Len(stack) - 1 /\ stack'[k] = stack[k] BY <1>1
  <2>2. PICK f \in Frame : f = stack'[k] /\ Following(f) BY <1>2, <2>1
  <2>3. Following(f)' BY <1>3, <2>2
  <2>4. Following(stack[k])' BY <2>2, <2>3 DEF Following
  <2>5. InTheMaking(stack[k].item)' BY <2>1
  <2>6. stack'[k].book <= Len(m_all_cookbooks') BY <1>2, <2>1 DEF Kept
  <2>7. \A l \in 1 .. Len(stack') : l # k => stack'[l].item # stack'[k].item
    BY <1>1, <1>2, <2>1
  <2>8. k < Len(stack') => WaitingFor(stack'[k], stack'[k + 1].item)
    BY <1>1, <1>2, <2>1
  <2> QED BY <2>4, <2>5, <2>6, <2>7, <2>8
<1>5. ASSUME stack' # <<>>
      PROVE  Top'.recipe \in Recipes /\ WaitingFor(Top', Top.item)
  <2> DEFINE n == Len(stack) - 1
  <2>1. n \in 1 .. Len(stack) - 1
    <3>1. stack' \in Seq(Frame) BY PopProperties DEF Below, TypeOK
    <3> QED BY <1>1, <1>5, <3>1, EmptySeq
  <2>2. Top' = stack[n] /\ Top = stack[n + 1] BY <1>1, <2>1 DEF Top
  <2> QED BY <1>2, <2>1, <2>2
<1> QED BY <1>4, <1>5

\* ... when the top frame changes but is still about the same item.
LEMMA StackTopSet ==
  ASSUME KitchenAssumption, TypeOK, StackInv, Kept,
         stack # <<>>,
         NEW g \in Frame,
         stack' = [stack EXCEPT ![Len(stack)] = g],
         g.item = Top.item,
         g.book <= Len(m_all_cookbooks),
         pc' \in {"choose", "gather"},
         pc' = "gather" => Following(g)',
         \A k \in 1 .. Len(stack) : InTheMaking(stack[k].item)'
  PROVE  /\ StackInv'
         /\ stack' # <<>>
         /\ Top' = g
<1>n. Len(stack) \in Nat \ {0} BY TopType DEF TypeOK
<1>s. stack' \in Seq(Frame) /\ Len(stack') = Len(stack)
  BY SetTopProperties DEF TypeOK
<1>t. stack'[Len(stack)] = g
  BY <1>n, SetTopProperties DEF TypeOK
<1>1. \A k \in 1 .. Len(stack) : k # Len(stack) => stack'[k] = stack[k]
  BY SetTopProperties DEF TypeOK
<1>2. stack' # <<>> /\ Top' = g
  <2>1. stack' # <<>> BY <1>n, <1>s, EmptySeq
  <2> QED BY <2>1, <1>s, <1>t DEF Top
<1>3. ASSUME NEW k \in 1 .. Len(stack)
      PROVE  /\ stack[k] \in Frame
             /\ stack'[k].item = stack[k].item
             /\ stack'[k].book <= Len(m_all_cookbooks)
             /\ \A l \in 1 .. Len(stack) : l # k => stack[l].item # stack[k].item
             /\ k < Len(stack) => /\ stack'[k] = stack[k]
                                  /\ Following(stack[k])
                                  /\ WaitingFor(stack[k], stack[k + 1].item)
  <2>1. stack[k] \in Frame BY ElementOfSeq DEF TypeOK
  <2>2. stack'[k].item = stack[k].item /\ stack'[k].book <= Len(m_all_cookbooks)
    <3>1. CASE k = Len(stack) BY <3>1, <1>t DEF Top
    <3>2. CASE k # Len(stack) BY <3>2, <1>1 DEF StackInv
    <3> QED BY <3>1, <3>2
  <2>3. k < Len(stack) => stack'[k] = stack[k] BY <1>n, <1>1
  <2> QED BY <2>1, <2>2, <2>3 DEF StackInv
<1>4. \A f \in Frame : Following(f) => Following(f)' BY FollowingKept
<1>5. StackInv'
  <2> SUFFICES ASSUME NEW k \in 1 .. Len(stack')
               PROVE  /\ InTheMaking(stack[k].item)'
                      /\ stack'[k].book <= Len(m_all_cookbooks')
                      /\ \A l \in 1 .. Len(stack') : l # k => stack'[l].item # stack'[k].item
                      /\ k < Len(stack') \/ pc' = "gather" => Following(stack[k])'
                      /\ k < Len(stack') => WaitingFor(stack'[k], stack'[k + 1].item)
    BY DEF StackInv, WaitingFor
  <2>1. k \in 1 .. Len(stack) BY <1>s
  <2>4. k < Len(stack') \/ pc' = "gather" => Following(stack[k])'
    <3>1. k < Len(stack) \/ k = Len(stack) BY <1>n, <2>1
    <3>2. CASE k < Len(stack)
      <4>1. PICK f \in Frame : f = stack'[k] /\ Following(f) BY <1>3, <2>1, <3>2
      <4>2. Following(f)' BY <1>4, <4>1
      <4> QED BY <4>1, <4>2 DEF Following
    <3>3. CASE k = Len(stack)
      <4>1. g = stack'[k] BY <1>t, <3>3
      <4> QED BY <1>s, <3>3, <4>1 DEF Following
    <3> QED BY <3>1, <3>2, <3>3
  <2>5. InTheMaking(stack[k].item)' BY <2>1
  <2>6. stack'[k].book <= Len(m_all_cookbooks') BY <1>3, <2>1 DEF Kept
  <2>7. \A l \in 1 .. Len(stack') : l # k => stack'[l].item # stack'[k].item
    BY <1>s, <1>3, <2>1
  <2>8. k < Len(stack') => WaitingFor(stack'[k], stack'[k + 1].item)
    <3> SUFFICES ASSUME k < Len(stack) PROVE WaitingFor(stack'[k], stack'[k + 1].item)
      BY <1>s
    <3>1. k + 1 \in 1 .. Len(stack) BY <1>n, <2>1
    <3>2. stack'[k + 1].item = stack[k + 1].item BY <1>3, <3>1
    <3> QED BY <1>3, <2>1, <3>2
  <2> QED BY <2>4, <2>5, <2>6, <2>7, <2>8
<1> QED BY <1>2, <1>5

\* ... when a frame is pushed for the item the top frame waits for.
LEMMA StackPushed ==
  ASSUME KitchenAssumption, TypeOK, ControlInv, StackInv, TopInv, SearchRecipes
  PROVE  StackInv' /\ stack' # <<>>
<1>1. /\ arg \in Items /\ NewFrame(arg) \in Frame
      /\ pc = "enter" /\ pc' = "choose"
  BY DEF SearchRecipes, NeedsRecipe, ControlInv, NewFrame, Frame, others,
     requests, processing, sources
<1>2. /\ Len(stack) \in Nat
      /\ Len(stack') = Len(stack) + 1
      /\ stack' # <<>>
      /\ \A k \in 1 .. Len(stack) : stack'[k] = stack[k]
      /\ stack'[Len(stack) + 1] = NewFrame(arg)
  BY <1>1, AppendProperties, LenProperties DEF SearchRecipes, TypeOK, others,
     requests, processing, sources
<1>3. Kept
  BY DEF Kept, SearchRecipes, sources, results, others, requests, processing
<1>4. \A f \in Frame : Following(f) => Following(f)' BY <1>3, FollowingKept
<1>5. /\ m_all_pantries' = m_all_pantries
      /\ m_selected_recipes' = m_selected_recipes
      /\ m_ready_items' = m_ready_items
      /\ already_using' = already_using \union {arg}
      /\ arg \notin already_using
      /\ ~Available(arg) /\ ~Stocked(arg)
  BY DEF SearchRecipes, NeedsRecipe, sources, results, others, requests,
     processing
<1>6. \A i \in Items : i = arg \/ InTheMaking(i) => InTheMaking(i)'
  BY <1>3, <1>5 DEF Kept, InTheMaking, Available, Selected, Ready, Stocked,
     StockedIn
<1>7. ASSUME NEW k \in 1 .. Len(stack)
      PROVE  /\ stack[k] \in Frame
             /\ stack[k].item \in Items
             /\ InTheMaking(stack[k].item)
             /\ stack[k].book <= Len(m_all_cookbooks)
             /\ \A l \in 1 .. Len(stack) : l # k => stack[l].item # stack[k].item
             /\ Following(stack[k])
             /\ k < Len(stack) => WaitingFor(stack[k], stack[k + 1].item)
             /\ k = Len(stack) => WaitingFor(stack[k], arg)
             /\ stack[k].item # arg
  <2>1. stack[k] \in Frame BY ElementOfSeq DEF TypeOK
  <2>2. stack # <<>> BY <1>2, EmptySeq
  <2> QED
    BY <1>1, <1>2, <1>5, <2>1, <2>2 DEF StackInv, TopInv, Top, InTheMaking,
       Frame
<1>8. Len(m_all_cookbooks) \in Nat \ {0} BY EmptySeq DEF TypeOK
<1>9. StackInv'
  <2> SUFFICES ASSUME NEW k \in 1 .. Len(stack')
               PROVE  /\ InTheMaking(stack[k].item)'
                      /\ stack'[k].book <= Len(m_all_cookbooks')
                      /\ \A l \in 1 .. Len(stack') : l # k => stack'[l].item # stack'[k].item
                      /\ k < Len(stack') => Following(stack[k])'
                      /\ k < Len(stack') => WaitingFor(stack'[k], stack'[k + 1].item)
    BY <1>1 DEF StackInv, WaitingFor
  <2>1. k \in 1 .. Len(stack) \/ k = Len(stack) + 1 BY <1>2
  <2>2. PICK i \in Items : i = stack'[k].item /\ (i = arg \/ InTheMaking(i))
    BY <1>1, <1>2, <1>7, <2>1 DEF NewFrame
  <2>3. InTheMaking(stack[k].item)' BY <1>6, <2>2 DEF InTheMaking
  <2>4. stack'[k].book <= Len(m_all_cookbooks')
    BY <1>2, <1>3, <1>7, <1>8, <2>1 DEF Kept, NewFrame
  <2>5. \A l \in 1 .. Len(stack') : l # k => stack'[l].item # stack'[k].item
    BY <1>2, <1>7, <2>1 DEF NewFrame
  <2>6. ASSUME k < Len(stack') PROVE Following(stack[k])'
    <3>1. k \in 1 .. Len(stack) BY <1>2, <2>1, <2>6
    <3>2. PICK f \in Frame : f = stack'[k] /\ Following(f) BY <1>2, <1>7, <3>1
    <3>3. Following(f)' BY <1>4, <3>2
    <3> QED BY <3>2, <3>3 DEF Following
  <2>7. k < Len(stack') => WaitingFor(stack'[k], stack'[k + 1].item)
    BY <1>2, <1>7, <2>1 DEF NewFrame
  <2> QED BY <2>3, <2>4, <2>5, <2>6, <2>7
<1> QED BY <1>2, <1>9

-----------------------------------------------------------------------------
\* Without a stack there is nothing to keep about it.
LEMMA StackEmpty ==
  ASSUME stack' = <<>>
  PROVE  StackInv' /\ TopInv'
BY EmptySeq DEF StackInv, TopInv

\* What a recipe needs are the items at the places of its ingredients.
LEMMA NeedsFacts ==
  ASSUME KitchenAssumption, NEW r \in Recipes
  PROVE  \A n : n \in D!Needs(r) <=>
            \E j \in 1 .. Len(IngredientsOf[r]) : n = IngredientsOf[r][j] /\ n \in Items
<1>1. IngredientsOf[r] \in Seq(Items) BY DEF KitchenAssumption
<1>2. DOMAIN IngredientsOf[r] = 1 .. Len(IngredientsOf[r])
  BY <1>1, LenProperties
<1>3. \A j \in 1 .. Len(IngredientsOf[r]) : IngredientsOf[r][j] \in Items
  BY <1>1, ElementOfSeq
<1> QED BY <1>2, <1>3 DEF D!Needs, D!Range

\* Everything a fully gathered recipe needs has an entry; its result has none.
LEMMA GatheredFacts ==
  ASSUME KitchenAssumption, TypeOK, ControlInv, StackInv, AllGathered
  PROVE  /\ Top.recipe \in Recipes /\ Top.item \in Items
         /\ Top.recipe \in Book
         /\ ResultOf[Top.recipe] = Top.item
         /\ ~Ready(Top.item) /\ ~Selected(Top.item)
         /\ \A n \in D!Needs(Top.recipe) : n \in Items /\ Ready(n) /\ m_ready_items[n] \in Top.parts
<1>1. stack # <<>> BY DEF AllGathered, ControlInv
<1>2. /\ Top \in Frame /\ Following(Top) /\ InTheMaking(Top.item)
      /\ Top.recipe \in Recipes /\ Ingredients \in Seq(Items)
  BY <1>1, TopFacts DEF AllGathered
<1>3. /\ Top.item \in Items /\ Top.pos \in Nat \ {0} /\ Top.parts \subseteq Prepared
  BY <1>2 DEF Frame
<1>4. ASSUME NEW n \in D!Needs(Top.recipe)
      PROVE  n \in Items /\ Ready(n) /\ m_ready_items[n] \in Top.parts
  <2>1. Len(Ingredients) \in Nat BY <1>2, LenProperties
  <2>2. PICK j \in 1 .. Len(Ingredients) : n = Ingredients[j]
    BY <1>2, NeedsFacts DEF Ingredients
  <2>3. j \in 1 .. Top.pos - 1 BY <1>3, <2>1 DEF AllGathered
  <2>4. m_ready_items[n] \in Top.parts
    BY <1>2, <2>2, <2>3 DEF Following, Ingredients
  <2>5. n \in Items BY <1>2, <2>2, ElementOfSeq
  <2> QED BY <1>3, <2>4, <2>5 DEF Ready, Prepared, Usable
<1> QED BY <1>2, <1>3, <1>4 DEF Following, InTheMaking, Available

\* The selection invariants when no recipe is selected ...
LEMMA SelectedUnchanged ==
  ASSUME KitchenAssumption, TypeOK, SelectedInv, SelectedWellFounded,
         m_selected_recipes' = m_selected_recipes,
         \A i \in Items : Ready(i) => m_ready_items'[i] = m_ready_items[i]
  PROVE  SelectedInv' /\ SelectedWellFounded'
<1>1. SelectedWellFounded' BY DEF SelectedWellFounded, Selected
<1>2. ASSUME NEW i \in Items, Selected(i)
      PROVE  \A n \in D!Needs(m_selected_recipes[i]) : n \in Items /\ Ready(n)'
  <2>1. m_selected_recipes[i] \in Recipes BY <1>2 DEF Selected, TypeOK
  <2>2. \A n \in D!Needs(m_selected_recipes[i]) : n \in Items /\ Ready(n)
    BY <1>2, <2>1, NeedsFacts DEF SelectedInv
  <2> QED BY <2>2 DEF Ready
<1> QED BY <1>1, <1>2 DEF SelectedInv, Selected, Ready

\* ... and when the top frame's recipe is.
LEMMA SelectedExtended ==
  ASSUME KitchenAssumption, TypeOK, ControlInv, StackInv, SelectedInv,
         SelectedWellFounded, AllGathered, Select,
         \A i \in Items : Ready(i) => m_ready_items'[i] = m_ready_items[i]
  PROVE  SelectedInv' /\ SelectedWellFounded'
<1> DEFINE t == Top.item
           r == Top.recipe
<1>1. /\ r \in Recipes /\ t \in Items /\ ResultOf[r] = t
      /\ ~Ready(t) /\ ~Selected(t)
      /\ \A n \in D!Needs(r) : n \in Items /\ Ready(n)
  BY GatheredFacts
<1>2. m_selected_recipes' = [m_selected_recipes EXCEPT ![t] = r]
  BY DEF Select
<1>3. /\ m_selected_recipes'[t] = r /\ r # NoRecipe
      /\ \A i \in Items : i # t => m_selected_recipes'[i] = m_selected_recipes[i]
  BY <1>1, <1>2 DEF TypeOK, KitchenAssumption
<1> HIDE DEF t, r
<1>4. SelectedInv'
  <2>1. ASSUME NEW i \in Items, Selected(i)'
        PROVE  /\ ResultOf[m_selected_recipes'[i]] = i
               /\ \A n \in D!Needs(m_selected_recipes'[i]) : Ready(n)'
    <3>1. CASE i = t BY <3>1, <1>1, <1>3 DEF Ready
    <3>2. CASE i # t
      <4>1. m_selected_recipes'[i] = m_selected_recipes[i] /\ Selected(i)
        BY <1>3, <2>1, <3>2 DEF Selected
      <4>2. m_selected_recipes[i] \in Recipes BY <4>1 DEF Selected, TypeOK
      <4>3. \A n \in D!Needs(m_selected_recipes[i]) : n \in Items /\ Ready(n)
        BY <4>1, <4>2, NeedsFacts DEF SelectedInv
      <4> QED BY <4>1, <4>3 DEF SelectedInv, Ready
    <3> QED BY <3>1, <3>2
  <2> QED BY <2>1 DEF SelectedInv
<1>5. SelectedWellFounded'
  <2>1. SUFFICES ASSUME NEW S \in SUBSET {i \in Items : Selected(i)'}, S # {}
                 PROVE  \E i \in S : D!Needs(m_selected_recipes'[i]) \intersect S = {}
    BY DEF SelectedWellFounded
  <2>2. \A i \in S \ {t} : /\ i \in Items /\ Selected(i)
                           /\ m_selected_recipes'[i] = m_selected_recipes[i]
                           /\ t \notin D!Needs(m_selected_recipes[i])
    BY <1>1, <1>3 DEF Selected, SelectedInv
  <2>3. CASE S \ {t} = {}
    <3>1. S = {t} BY <2>1, <2>3
    <3> QED BY <3>1, <1>1, <1>3
  <2>4. CASE S \ {t} # {}
    <3>1. S \ {t} \in SUBSET {i \in Items : Selected(i)} BY <2>2
    <3>2. PICK i \in S \ {t} : D!Needs(m_selected_recipes[i]) \intersect (S \ {t}) = {}
      BY <2>4, <3>1 DEF SelectedWellFounded
    <3> QED BY <2>2, <3>2
  <2> QED BY <2>3, <2>4
<1> QED BY <1>4, <1>5

-----------------------------------------------------------------------------
\* The parts of the invariant beside the types.
Shape == ControlInv /\ StackInv /\ TopInv /\ SelectedInv /\ SelectedWellFounded

\* No entry and no selection is changed once it is there.
EntriesStay ==
    \A i \in Items : /\ Ready(i) => m_ready_items'[i] = m_ready_items[i]
                     /\ Selected(i) => m_selected_recipes'[i] = m_selected_recipes[i]

\* Client calls, and the steps of process_requested_items() between requests.
LEMMA OutsideStep ==
  ASSUME KitchenAssumption, TypeOK, Shape, Client \/ FinishRequest \/ ProcessReturn
  PROVE  Shape' /\ EntriesStay
<1>1. /\ stack' = <<>>
      /\ pc' \in {"idle", "request", "crashed"}
      /\ m_ready_items' = m_ready_items
      /\ m_selected_recipes' = m_selected_recipes
  <2>1. stack = <<>>
    BY DEF Shape, ControlInv, Client, StoreItem, AddRecipe, AddPantry,
       AddCookbook, RequestItem, ClearRequestedItems, WriteItem,
       ProcessRequestedItems, FinishRequest, ProcessReturn, requests,
       processing, ClearUnreachableItems, Erase
  <2> QED
    BY <2>1 DEF TypeOK, Client, StoreItem, AddRecipe, AddPantry, AddCookbook,
       RequestItem, ClearRequestedItems, WriteItem, ProcessRequestedItems,
       FinishRequest, ProcessReturn, LeaveCall, results, call, others, requests,
       processing, ClearUnreachableItems, Erase, sources
<1>2. StackInv' /\ TopInv' BY <1>1, StackEmpty
<1>3. SelectedInv' /\ SelectedWellFounded' BY <1>1, SelectedUnchanged DEF Shape
<1>4. ControlInv' BY <1>1 DEF ControlInv
<1> QED BY <1>1, <1>2, <1>3, <1>4 DEF Shape, EntriesStay

\* A new request begins with an empty stack.
LEMMA NextRequestStep ==
  ASSUME KitchenAssumption, TypeOK, Shape, NextRequest
  PROVE  Shape' /\ EntriesStay
<1>1. /\ stack' = <<>> /\ pc' = "enter"
      /\ m_ready_items' = m_ready_items
      /\ m_selected_recipes' = m_selected_recipes
      /\ target' \in Items /\ arg' \in Items
  BY DEF NextRequest, Shape, ControlInv, TypeOK, results, requests, processing
<1>2. StackInv' /\ TopInv' BY <1>1, StackEmpty
<1>3. SelectedInv' /\ SelectedWellFounded' BY <1>1, SelectedUnchanged DEF Shape
<1>4. ControlInv' BY <1>1 DEF ControlInv
<1> QED BY <1>1, <1>2, <1>3, <1>4 DEF Shape, EntriesStay

\* The answers make_dependency_ready() gives without looking for a recipe.
LEMMA AnswerStep ==
  ASSUME KitchenAssumption, TypeOK, Shape,
         AnswerAvailable \/ AnswerUnreachable \/ AnswerAlreadyUsing \/ TakeFromPantry
  PROVE  Shape' /\ EntriesStay
<1>1. /\ pc = "enter" /\ pc' = "answer" /\ arg \in Items /\ target \in Items
      /\ stack' = stack /\ already_using' = already_using /\ target' = target /\ arg' = arg
      /\ m_all_pantries' = m_all_pantries /\ m_all_cookbooks' = m_all_cookbooks
      /\ mode' = mode
      /\ m_selected_recipes' = m_selected_recipes
      /\ \A i \in Items : Ready(i) \/ ~Stocked(i) => m_ready_items'[i] = m_ready_items[i]
      /\ answer' => Available(arg)'
  <2>1. CASE AnswerAvailable
    BY <2>1 DEF AnswerAvailable, Answer, Shape, ControlInv, sources, results,
                Available, Ready, Selected, others, requests, processing
  <2>2. CASE AnswerUnreachable
    BY <2>2 DEF AnswerUnreachable, Answer, Shape, ControlInv, sources, results,
       others, requests, processing
  <2>3. CASE AnswerAlreadyUsing
    BY <2>3 DEF AnswerAlreadyUsing, NeedsRecipe, Answer, Shape, ControlInv,
       sources, results, others, requests, processing
  <2>4. CASE TakeFromPantry
    <3>1. /\ m_ready_items' \in [Items -> Readiness] /\ arg \in Items
          /\ \A i \in Items \ {arg} : m_ready_items'[i] = m_ready_items[i]
          /\ m_ready_items'[arg] # "absent"
      <4>1. PICK p \in DOMAIN m_all_pantries :
              /\ StockedIn(p, arg)
              /\ m_ready_items' = [m_ready_items EXCEPT ![arg] = m_all_pantries[p][arg]]
        BY <2>4 DEF TakeFromPantry, others, requests, processing, Taken, sources
      <4>2. m_all_pantries[p] \in [Items -> Shelf]
        BY <4>1, LenProperties, ElementOfSeq DEF TypeOK
      <4>3. arg \in Items
        BY <2>4 DEF TakeFromPantry, Shape, ControlInv, others, requests,
           processing, Taken, sources
      <4>4. m_all_pantries[p][arg] \in Usable
        BY <4>1, <4>2, <4>3 DEF StockedIn, Shelf
      <4> QED BY <4>1, <4>3, <4>4 DEF TypeOK, Readiness, Prepared, Usable
    <3>2. ~Ready(arg) /\ Stocked(arg)
      BY <2>4 DEF TakeFromPantry, Available, Stocked, others, requests,
         processing, Taken, sources
    <3> QED
      BY <2>4, <3>1, <3>2 DEF TakeFromPantry, Answer, Shape, ControlInv,
         sources, Available, Ready, others, requests, processing, Taken
  <2> QED BY <2>1, <2>2, <2>3, <2>4
<1>2. Kept BY <1>1 DEF Kept
<1>3. EntriesStay BY <1>1 DEF EntriesStay
<1>4. ASSUME NEW k \in 1 .. Len(stack) PROVE InTheMaking(stack[k].item)'
  <2>1. InTheMaking(stack[k].item) BY DEF Shape, StackInv
  <2>2. stack[k].item \in Items
    <3>1. stack[k] \in Frame BY ElementOfSeq DEF TypeOK
    <3> QED BY <3>1 DEF Frame
  <2> QED
    BY <1>1, <2>1, <2>2 DEF InTheMaking, Available, Ready, Selected, Stocked,
       StockedIn
<1>5. StackInv' BY <1>1, <1>2, <1>4, StackUnchanged DEF Shape
<1>6. TopInv'
  <2>1. ASSUME stack # <<>>
        PROVE  arg = IngredientsOf[Top.recipe][Top.pos] /\ Top.pos <= Len(IngredientsOf[Top.recipe])
    BY <1>1, <2>1 DEF Shape, TopInv, WaitingFor
  <2>2. Top' = Top BY <1>1 DEF Top
  <2>3. ASSUME stack # <<>>, answer' PROVE Available(IngredientsOf[Top.recipe][Top.pos])'
    BY <1>1, <2>1, <2>2, <2>3 DEF Available, Ready, Selected
  <2> QED
    BY <1>1, <2>1, <2>2, <2>3 DEF TopInv, Ingredients, Available, Ready,
       Selected
<1>7. SelectedInv' /\ SelectedWellFounded' BY <1>1, SelectedUnchanged DEF Shape
<1>8. ControlInv' BY <1>1 DEF Shape, ControlInv
<1> QED BY <1>3, <1>5, <1>6, <1>7, <1>8 DEF Shape

\* The steps that change neither an entry nor a selection.
LEMMA QuietFacts ==
  ASSUME TypeOK, already_using' = already_using,
         m_all_pantries' = m_all_pantries, m_all_cookbooks' = m_all_cookbooks,
         m_ready_items' = m_ready_items, m_selected_recipes' = m_selected_recipes,
         mode' = mode
  PROVE  /\ Kept /\ EntriesStay
         /\ \A i \in Items : InTheMaking(i) => InTheMaking(i)'
         /\ \A i \in Items : Available(i) <=> Available(i)'
BY DEF Kept, EntriesStay, InTheMaking, Available, Ready, Selected, Stocked,
   StockedIn

\* Every item in the making is an item.
LEMMA StackItems ==
  ASSUME TypeOK, StackInv
  PROVE  \A k \in 1 .. Len(stack) : stack[k].item \in Items /\ InTheMaking(stack[k].item)
<1>1. \A k \in 1 .. Len(stack) : stack[k] \in Frame BY ElementOfSeq DEF TypeOK
<1> QED BY <1>1 DEF StackInv, Frame

\* SearchRecipes pushes a frame whose item has no entry yet.
LEMMA SearchStep ==
  ASSUME KitchenAssumption, TypeOK, Shape, SearchRecipes
  PROVE  Shape' /\ EntriesStay
<1>1. StackInv' /\ stack' # <<>> BY StackPushed DEF Shape
<1>2. /\ m_ready_items' = m_ready_items /\ m_selected_recipes' = m_selected_recipes
      /\ pc = "enter" /\ pc' = "choose" /\ target' = target
  BY DEF SearchRecipes, NeedsRecipe, results, others, requests, processing,
     sources
<1>3. TopInv' BY <1>2 DEF TopInv
<1>4. ControlInv' BY <1>1, <1>2 DEF Shape, ControlInv
<1>5. SelectedInv' /\ SelectedWellFounded' BY <1>2, SelectedUnchanged DEF Shape
<1> QED BY <1>1, <1>2, <1>3, <1>4, <1>5 DEF Shape, EntriesStay

\* Choosing a recipe, or the next cookbook, changes the top frame only.
LEMMA ChooseStep ==
  ASSUME KitchenAssumption, TypeOK, Shape, ChooseRecipe \/ NextCookbook
  PROVE  Shape' /\ EntriesStay
<1>1. /\ pc = "choose" /\ stack # <<>> /\ target \in Items
      /\ Top \in Frame /\ Top.book \in 1 .. Len(m_all_cookbooks)
  BY TopFacts DEF Shape, ControlInv, ChooseRecipe, NextCookbook, others,
     requests, processing, NextBook, sources
<1>2. /\ already_using' = already_using /\ mode' = mode /\ target' = target
      /\ m_all_pantries' = m_all_pantries /\ m_all_cookbooks' = m_all_cookbooks
      /\ m_ready_items' = m_ready_items /\ m_selected_recipes' = m_selected_recipes
      /\ pc' \in {"choose", "gather"}
  BY <1>1 DEF ChooseRecipe, NextCookbook, sources, results, others, requests,
     processing, NextBook
<1>3. Kept /\ EntriesStay /\ \A i \in Items : InTheMaking(i) => InTheMaking(i)'
  BY <1>2, QuietFacts
<1>4. PICK g \in Frame : /\ stack' = [stack EXCEPT ![Len(stack)] = g]
                         /\ g.item = Top.item
                         /\ g.book <= Len(m_all_cookbooks)
                         /\ pc' = "gather" => Following(g)
  <2>1. CASE ChooseRecipe
    <3>1. PICK r \in Untried :
            SetTop([Top EXCEPT !.recipe = r, !.tried = @ \union {r}, !.pos = 1, !.parts = {}])
      BY <2>1 DEF ChooseRecipe, others, requests, processing, sources
    <3>2. r \in Recipes /\ r \in Book /\ ResultOf[r] = Top.item
      BY <1>1, BookType DEF Untried
    <3> DEFINE h == [Top EXCEPT !.recipe = r, !.tried = @ \union {r}, !.pos = 1, !.parts = {}]
    <3>3. h \in Frame BY <1>1, <3>2, FrameTypes
    <3>4. h.item = Top.item /\ h.book = Top.book /\ h.recipe = r /\ h.pos = 1
      BY <1>1 DEF Frame
    <3>5. Following(h) BY <3>2, <3>4 DEF Following
    <3>6. stack' = [stack EXCEPT ![Len(stack)] = h] BY <3>1 DEF SetTop
    <3>7. h.book <= Len(m_all_cookbooks) BY <1>1, <3>4
    <3> HIDE DEF h
    <3> QED BY <3>3, <3>4, <3>5, <3>6, <3>7
  <2>2. CASE NextCookbook
    <3> DEFINE h == [Top EXCEPT !.book = @ + 1, !.tried = {}]
    <3>1. h \in Frame BY <1>1, FrameTypes
    <3>2. h.item = Top.item /\ h.book = Top.book + 1 BY <1>1 DEF Frame
    <3>3. stack' = [stack EXCEPT ![Len(stack)] = h] /\ pc' = "choose"
      BY <1>1, <2>2 DEF SetTop, NextCookbook, others, requests, processing,
         NextBook, sources
    <3>4. Len(m_all_cookbooks) \in Nat BY LenProperties DEF TypeOK
    <3>5. h.book <= Len(m_all_cookbooks)
      BY <1>1, <2>2, <3>2, <3>4 DEF NextCookbook, others, requests, processing,
         NextBook, sources
    <3> HIDE DEF h
    <3> QED BY <3>1, <3>2, <3>3, <3>5
  <2> QED BY <2>1, <2>2
<1>5. pc' = "gather" => Following(g)' BY <1>3, <1>4, FollowingKept
<1>6. \A k \in 1 .. Len(stack) : InTheMaking(stack[k].item)'
  <2>1. TAKE k \in 1 .. Len(stack)
  <2>2. stack'[k].item = stack[k].item
    <3>1. k # Len(stack) => stack'[k] = stack[k]
      BY <1>1, <1>4, SetTopProperties DEF TypeOK
    <3>2. k = Len(stack) => stack'[k] = g /\ stack[k] = Top
      BY <1>1, <1>4, SetTopProperties DEF TypeOK, Top
    <3> QED BY <1>4, <3>1, <3>2
  <2>3. PICK i \in Items : i = stack[k].item /\ InTheMaking(i)
    BY StackItems DEF Shape
  <2> QED BY <1>3, <2>2, <2>3 DEF InTheMaking
<1>7. StackInv' /\ stack' # <<>>
  BY <1>1, <1>2, <1>3, <1>4, <1>5, <1>6, StackTopSet DEF Shape
<1>8. TopInv' BY <1>2 DEF TopInv
<1>9. ControlInv' BY <1>1, <1>2, <1>7 DEF ControlInv
<1>10. SelectedInv' /\ SelectedWellFounded' BY <1>2, SelectedUnchanged DEF Shape
<1> QED BY <1>3, <1>7, <1>8, <1>9, <1>10 DEF Shape

\* An ingredient becomes the argument of a nested call.
LEMMA NeedStep ==
  ASSUME KitchenAssumption, TypeOK, TypeOK', Shape, NeedIngredient
  PROVE  Shape' /\ EntriesStay
<1>1. /\ pc = "gather" /\ pc' = "enter" /\ stack # <<>>
      /\ stack' = stack /\ target' = target /\ target \in Items
      /\ Top \in Frame /\ Ingredients \in Seq(Items)
      /\ Top.pos <= Len(Ingredients) /\ arg' = Ingredients[Top.pos]
  BY TopFacts DEF Shape, ControlInv, NeedIngredient, others, requests,
     processing, sources
<1>2. Top.pos \in 1 .. Len(Ingredients) BY <1>1, LenProperties DEF Frame
<1>3. arg' \in Items BY <1>1, <1>2, ElementOfSeq
<1>4. /\ already_using' = already_using /\ mode' = mode
      /\ m_all_pantries' = m_all_pantries /\ m_all_cookbooks' = m_all_cookbooks
      /\ m_ready_items' = m_ready_items /\ m_selected_recipes' = m_selected_recipes
  BY DEF NeedIngredient, sources, results, others, requests, processing
<1>5. Kept /\ EntriesStay /\ \A i \in Items : InTheMaking(i) => InTheMaking(i)'
  BY <1>4, QuietFacts
<1>6. ASSUME NEW k \in 1 .. Len(stack) PROVE InTheMaking(stack[k].item)'
  <2>1. PICK i \in Items : i = stack[k].item /\ InTheMaking(i)
    BY StackItems DEF Shape
  <2> QED BY <1>1, <1>5, <2>1 DEF InTheMaking
<1>7. StackInv' BY <1>1, <1>5, <1>6, StackUnchanged DEF Shape
<1>8. TopInv'
  <2>1. Top' = Top BY <1>1 DEF Top
  <2> QED BY <1>1, <2>1 DEF TopInv, WaitingFor, Ingredients
<1>9. ControlInv' BY <1>1, <1>3 DEF ControlInv
<1>10. SelectedInv' /\ SelectedWellFounded' BY <1>4, SelectedUnchanged DEF Shape
<1> QED BY <1>5, <1>7, <1>8, <1>9, <1>10 DEF Shape

\* Giving a recipe up frees only ingredients that have an entry already, so
\* every item in the making stays marked.
LEMMA ImpossibleStep ==
  ASSUME KitchenAssumption, TypeOK, Shape, ImpossibleIngredient
  PROVE  Shape' /\ EntriesStay
<1>1. /\ pc = "answer" /\ pc' = "choose" /\ stack # <<>>
      /\ stack' = stack /\ target' = target /\ target \in Items
      /\ Top \in Frame /\ Following(Top) /\ Ingredients \in Seq(Items)
      /\ Top.pos <= Len(Ingredients)
  BY TopFacts DEF Shape, ControlInv, TopInv, ImpossibleIngredient, others,
     requests, processing, sources
<1>2. /\ mode' = mode
      /\ m_all_pantries' = m_all_pantries /\ m_all_cookbooks' = m_all_cookbooks
      /\ m_ready_items' = m_ready_items /\ m_selected_recipes' = m_selected_recipes
      /\ already_using' = already_using \ BeforeImpossible
  BY DEF ImpossibleIngredient, sources, results, others, requests, processing
<1>3. \A i \in BeforeImpossible : Ready(i)
  <2>1. Top.pos \in Nat \ {0} /\ Top.parts \subseteq Prepared BY <1>1 DEF Frame
  <2>2. ASSUME NEW j \in 1 .. Top.pos,
               \A l \in 1 .. j : Ingredients[l] # Ingredients[Top.pos]
        PROVE  Ready(Ingredients[j])
    <3>1. j # Top.pos BY <2>1, <2>2
    <3>2. j \in 1 .. Top.pos - 1 BY <2>1, <3>1
    <3>3. m_ready_items[Ingredients[j]] \in Top.parts
      BY <1>1, <3>2 DEF Following, Ingredients
    <3> QED BY <2>1, <3>3 DEF Ready, Prepared, Usable
  <2> QED BY <2>2 DEF BeforeImpossible
<1>4. Kept /\ EntriesStay BY <1>2 DEF Kept, EntriesStay
<1>5. ASSUME NEW k \in 1 .. Len(stack) PROVE InTheMaking(stack[k].item)'
  <2>1. stack[k].item \in Items /\ InTheMaking(stack[k].item)
    BY StackItems DEF Shape
  <2>2. stack[k].item \notin BeforeImpossible
    BY <1>3, <2>1 DEF InTheMaking, Available
  <2> QED
    BY <1>1, <1>2, <2>1, <2>2
    DEF InTheMaking, Available, Ready, Selected, Stocked, StockedIn
<1>6. StackInv' BY <1>1, <1>4, <1>5, StackUnchanged DEF Shape
<1>7. TopInv' BY <1>1 DEF TopInv
<1>8. ControlInv' BY <1>1 DEF ControlInv
<1>9. SelectedInv' /\ SelectedWellFounded' BY <1>2, SelectedUnchanged DEF Shape
<1> QED BY <1>4, <1>6, <1>7, <1>8, <1>9 DEF Shape

\* Popping the frame of an item that failed.
LEMMA NoMoreStep ==
  ASSUME KitchenAssumption, TypeOK, Shape, NoMoreRecipes
  PROVE  Shape' /\ EntriesStay
<1>1. /\ pc = "choose" /\ pc' = "answer" /\ ~answer' /\ stack # <<>>
      /\ stack' = Below /\ target' = target /\ target \in Items
  BY DEF Shape, ControlInv, NoMoreRecipes, Answer, others, requests, processing,
     sources
<1>2. /\ already_using' = already_using /\ mode' = mode
      /\ m_all_pantries' = m_all_pantries /\ m_all_cookbooks' = m_all_cookbooks
      /\ m_ready_items' = m_ready_items /\ m_selected_recipes' = m_selected_recipes
  BY DEF NoMoreRecipes, sources, results, others, requests, processing
<1>3. Kept /\ EntriesStay /\ \A i \in Items : InTheMaking(i) => InTheMaking(i)'
  BY <1>2, QuietFacts
<1>4. ASSUME NEW k \in 1 .. Len(stack) - 1 PROVE InTheMaking(stack[k].item)'
  <2>1. stack'[k] = stack[k] /\ k \in 1 .. Len(stack)
    BY <1>1, PopProperties DEF Below, TypeOK
  <2>2. PICK i \in Items : i = stack[k].item /\ InTheMaking(i)
    BY <2>1, StackItems DEF Shape
  <2> QED BY <1>3, <2>1, <2>2 DEF InTheMaking
<1>5. /\ StackInv'
      /\ stack' # <<>> => Top'.recipe \in Recipes /\ WaitingFor(Top', Top.item)
  BY <1>1, <1>3, <1>4, StackPopped DEF Shape
<1>6. TopInv' BY <1>1, <1>5 DEF TopInv, WaitingFor, Ingredients
<1>7. ControlInv' BY <1>1 DEF ControlInv
<1>8. SelectedInv' /\ SelectedWellFounded' BY <1>2, SelectedUnchanged DEF Shape
<1> QED BY <1>3, <1>5, <1>6, <1>7, <1>8 DEF Shape

\* The entry that GotIngredient adds belongs to an available item, so to none
\* in the making.
LEMMA GotStep ==
  ASSUME KitchenAssumption, TypeOK, Shape, GotIngredient
  PROVE  Shape' /\ EntriesStay
<1> DEFINE i == Ingredients[Top.pos]
           entry == IF Ready(i) THEN m_ready_items[i] ELSE "empty"
           h == [Top EXCEPT !.pos = @ + 1, !.parts = @ \union {entry}]
<1>1. /\ pc = "answer" /\ pc' = "gather" /\ stack # <<>>
      /\ target' = target /\ target \in Items
      /\ Top \in Frame /\ Following(Top) /\ Ingredients \in Seq(Items)
      /\ Top.recipe \in Recipes
      /\ Top.pos <= Len(Ingredients) /\ Available(i)
      /\ Top.book \in 1 .. Len(m_all_cookbooks)
  BY TopFacts DEF Shape, ControlInv, TopInv, GotIngredient, others, requests,
     processing, sources
<1>2. /\ mode' = mode /\ already_using' = already_using
      /\ m_all_pantries' = m_all_pantries /\ m_all_cookbooks' = m_all_cookbooks
      /\ m_selected_recipes' = m_selected_recipes
      /\ m_ready_items' = [m_ready_items EXCEPT ![i] = entry]
      /\ stack' = [stack EXCEPT ![Len(stack)] = h]
  BY DEF GotIngredient, sources, SetTop, others, requests, processing
<1>3. Top.pos \in 1 .. Len(Ingredients) /\ Top.pos \in Nat \ {0}
  BY <1>1, LenProperties DEF Frame
<1>4. i \in Items BY <1>1, <1>3, ElementOfSeq
<1>5. entry \in Prepared /\ (Ready(i) => entry = m_ready_items[i])
  BY <1>4 DEF TypeOK, Ready, Readiness, Prepared
<1>6. h \in Frame BY <1>1, <1>5, FrameTypes
<1>7. /\ h.item = Top.item /\ h.book = Top.book /\ h.recipe = Top.recipe
      /\ h.pos = Top.pos + 1 /\ h.parts = Top.parts \union {entry}
  BY <1>1 DEF Frame
<1> HIDE DEF entry, h
<1>8. /\ m_ready_items'[i] = entry
      /\ \A n \in Items : n # i => m_ready_items'[n] = m_ready_items[n]
  BY <1>2, <1>4 DEF TypeOK
<1>9. /\ Kept /\ EntriesStay
      /\ \A n \in Items : Ready(n) => m_ready_items'[n] = m_ready_items[n]
  BY <1>2, <1>5, <1>8 DEF Kept, EntriesStay, Ready
<1>10. PICK g \in Frame : g = h /\ g.item = Top.item /\ g.book <= Len(m_all_cookbooks)
                          /\ g.recipe = Top.recipe /\ g.pos = Top.pos + 1
                          /\ g.parts = Top.parts \union {entry}
  BY <1>1, <1>6, <1>7
<1>11. Following(g)'
  <2>1. Top.recipe \in Book' /\ ResultOf[Top.recipe] = Top.item
    BY <1>1, <1>2 DEF Following, Book
  <2>2. ASSUME NEW j \in 1 .. Top.pos
        PROVE  /\ j <= Len(IngredientsOf[Top.recipe])
               /\ m_ready_items'[IngredientsOf[Top.recipe][j]] \in Top.parts \union {entry}
    <3>1. CASE j = Top.pos BY <3>1, <1>1, <1>8 DEF Ingredients
    <3>2. CASE j # Top.pos
      <4>1. j \in 1 .. Top.pos - 1 BY <1>3, <3>2
      <4>2. /\ j <= Len(IngredientsOf[Top.recipe])
            /\ m_ready_items[Ingredients[j]] \in Top.parts
        BY <1>1, <4>1 DEF Following, Ingredients
      <4>3. j \in 1 .. Len(Ingredients) BY <1>1, <1>3, <4>1, LenProperties
      <4>4. Ingredients[j] \in Items BY <1>1, <4>3, ElementOfSeq
      <4>5. Ready(Ingredients[j])
        BY <1>1, <4>2 DEF Frame, Ready, Prepared, Usable
      <4> QED BY <1>9, <4>2, <4>4, <4>5 DEF Ingredients
    <3> QED BY <3>1, <3>2
  <2>3. g.pos - 1 = Top.pos BY <1>3, <1>10
  <2> QED BY <1>10, <2>1, <2>2, <2>3 DEF Following
<1>12. ASSUME NEW k \in 1 .. Len(stack) PROVE InTheMaking(stack[k].item)'
  <2>1. PICK n \in Items : n = stack[k].item /\ InTheMaking(n)
    BY StackItems DEF Shape
  <2>2. stack'[k].item = n
    <3>1. k # Len(stack) => stack'[k] = stack[k]
      BY <1>1, <1>2, <1>6, SetTopProperties DEF TypeOK
    <3>2. k = Len(stack) => stack'[k] = h /\ stack[k] = Top
      BY <1>1, <1>2, <1>6, SetTopProperties DEF TypeOK, Top
    <3> QED BY <1>7, <2>1, <3>1, <3>2
  <2>3. n # i BY <1>1, <2>1 DEF InTheMaking
  <2>4. m_ready_items'[n] = m_ready_items[n] BY <1>8, <2>3
  <2> QED
    BY <1>2, <2>1, <2>2, <2>4
    DEF InTheMaking, Available, Ready, Selected, Stocked, StockedIn
<1>13. StackInv' /\ stack' # <<>>
  BY <1>1, <1>2, <1>9, <1>10, <1>11, <1>12, StackTopSet DEF Shape
<1>14. TopInv' BY <1>1 DEF TopInv
<1>15. ControlInv' BY <1>1, <1>13 DEF ControlInv
<1>16. SelectedInv' /\ SelectedWellFounded'
  BY <1>2, <1>9, SelectedUnchanged DEF Shape
<1> QED BY <1>9, <1>13, <1>14, <1>15, <1>16 DEF Shape

\* What prepare_as_reader() stores has an entry already.
LEMMA StashFacts ==
  ASSUME KitchenAssumption, TypeOK, ControlInv, StackInv, AllGathered, Stash
  PROVE  \A i \in Items : ~Ready(i) => (Stocked(i) <=> Stocked(i)')
<1>1. CASE m_all_pantries' = m_all_pantries BY <1>1 DEF Stocked, StockedIn
<1>2. CASE MustStash /\ StoreInPantry(Ingredients[1])
  <2>1. Top.recipe \in Recipes BY GatheredFacts
  <2>2. Len(Ingredients) = 1
    BY <1>2, <2>1 DEF MustStash, KitchenAssumption, Ingredients
  <2>3. 1 \in 1 .. Len(Ingredients) BY <2>2
  <2>4. IngredientsOf[Top.recipe] \in Seq(Items) BY <2>1 DEF KitchenAssumption
  <2>5. Ingredients[1] \in Items BY <2>3, <2>4, ElementOfSeq DEF Ingredients
  <2>6. Ingredients[1] \in D!Needs(Top.recipe)
    BY <2>1, <2>3, <2>5, NeedsFacts DEF Ingredients
  <2>7. Ready(Ingredients[1]) BY <2>6, GatheredFacts
  <2>8. /\ m_all_pantries \in Seq([Items -> Shelf]) /\ m_all_pantries # <<>>
        /\ m_all_pantries' = [m_all_pantries EXCEPT ![1] = Add(m_all_pantries[1], Ingredients[1])]
        /\ DOMAIN m_all_pantries = 1 .. Len(m_all_pantries)
    BY <1>2, LenProperties DEF TypeOK, StoreInPantry
  <2>9. \A p \in DOMAIN m_all_pantries : m_all_pantries[p] \in [Items -> Shelf]
    BY <2>8, ElementOfSeq
  <2>10. DOMAIN m_all_pantries' = DOMAIN m_all_pantries BY <2>8
  <2>11. \A p \in DOMAIN m_all_pantries, i \in Items :
            i # Ingredients[1] => m_all_pantries'[p][i] = m_all_pantries[p][i]
    BY <2>8, <2>9 DEF Add
  <2> QED BY <2>7, <2>10, <2>11 DEF Stocked, StockedIn
<1> QED BY <1>1, <1>2 DEF Stash

\* The top frame's item is finished; no other frame is about it.
LEMMA SelectStep ==
  ASSUME KitchenAssumption, TypeOK, Shape, SelectOnly \/ Prepare
  PROVE  Shape' /\ EntriesStay
<1> DEFINE t == Top.item
<1>1. /\ AllGathered /\ Select
      /\ pc = "gather" /\ pc' = "answer" /\ stack # <<>>
      /\ stack' = Below /\ target' = target /\ target \in Items
      /\ mode' = mode /\ already_using' = already_using
      /\ m_all_cookbooks' = m_all_cookbooks
  BY DEF Shape, ControlInv, SelectOnly, Prepare, Preparing, AllGathered, Answer,
     sources, others, requests, processing
<1>2. /\ t \in Items /\ ~Ready(t) /\ ~Selected(t) /\ Top.recipe \in Recipes
  BY <1>1, GatheredFacts DEF Shape
<1>3. /\ \A i \in Items : i # t => m_selected_recipes'[i] = m_selected_recipes[i]
      /\ m_selected_recipes'[t] = Top.recipe
  BY <1>1, <1>2 DEF Select, TypeOK
<1>4. \A i \in Items : i # t => m_ready_items'[i] = m_ready_items[i]
  BY <1>2 DEF SelectOnly, Prepare, TypeOK, others, requests, processing, sources
<1>5. \A i \in Items : ~Ready(i) => (Stocked(i) <=> Stocked(i)')
  <2>1. CASE SelectOnly
    BY <2>1 DEF SelectOnly, sources, Stocked, StockedIn, others, requests,
       processing
  <2>2. CASE Prepare
    BY <1>1, <2>2, StashFacts DEF Prepare, Shape, requests, processing
  <2> QED BY <2>1, <2>2
<1>6. /\ Kept /\ EntriesStay
      /\ \A n \in Items : Ready(n) => m_ready_items'[n] = m_ready_items[n]
  BY <1>1, <1>2, <1>3, <1>4 DEF Kept, EntriesStay
<1> HIDE DEF t
<1>7. ASSUME NEW k \in 1 .. Len(stack) - 1 PROVE InTheMaking(stack[k].item)'
  <2>1. /\ stack'[k] = stack[k] /\ k \in 1 .. Len(stack)
        /\ Len(stack) \in 1 .. Len(stack) /\ k # Len(stack)
    BY <1>1, PopProperties DEF Below, TypeOK
  <2>2. PICK i \in Items : i = stack[k].item /\ InTheMaking(i)
    BY <2>1, StackItems DEF Shape
  <2>3. i # t BY <2>1, <2>2 DEF Shape, StackInv, t, Top
  <2> QED
    BY <1>1, <1>3, <1>4, <1>5, <2>1, <2>2, <2>3
    DEF InTheMaking, Available, Ready, Selected
<1>8. /\ StackInv'
      /\ stack' # <<>> => Top'.recipe \in Recipes /\ WaitingFor(Top', Top.item)
  BY <1>1, <1>6, <1>7, StackPopped DEF Shape
<1>9. PICK u \in Items : u = t BY <1>2
<1>10. m_selected_recipes'[u] # NoRecipe
  BY <1>2, <1>3, <1>9 DEF KitchenAssumption
<1>11. TopInv'
  <2>1. stack' # <<>> =>
            /\ Top'.pos <= Len(IngredientsOf[Top'.recipe])
            /\ IngredientsOf[Top'.recipe][Top'.pos] = u
    BY <1>8, <1>9 DEF WaitingFor, t
  <2>2. Available(u)' BY <1>10 DEF Available, Selected
  <2>3. stack' # <<>> => /\ Top'.pos <= Len(Ingredients)'
                         /\ Available(Ingredients[Top.pos])'
    BY <2>1, <2>2 DEF Ingredients, Available, Selected, Ready
  <2> QED BY <1>1, <2>3 DEF TopInv
<1>12. ControlInv' BY <1>1 DEF ControlInv
<1>13. SelectedInv' /\ SelectedWellFounded'
  BY <1>1, <1>6, SelectedExtended DEF Shape
<1> QED BY <1>6, <1>8, <1>11, <1>12, <1>13 DEF Shape

\* prepare() ends the call, by an exception or with the process.
LEMMA LeaveStep ==
  ASSUME KitchenAssumption, TypeOK, Shape, PrepareThrows \/ PrepareCrash
  PROVE  Shape' /\ EntriesStay
<1>1. /\ AllGathered /\ Select /\ stack' = <<>>
      /\ pc' \in {"idle", "crashed"}
      /\ m_ready_items' = m_ready_items
  BY DEF PrepareThrows, PrepareCrash, Preparing, LeaveCall, requests, processing
<1>2. ~Selected(Top.item) /\ Top.item \in Items BY <1>1, GatheredFacts DEF Shape
<1>3. EntriesStay BY <1>1, <1>2 DEF EntriesStay, Select, TypeOK
<1>4. StackInv' /\ TopInv' BY <1>1, StackEmpty
<1>5. ControlInv' BY <1>1 DEF ControlInv
<1>6. SelectedInv' /\ SelectedWellFounded' BY <1>1, SelectedExtended DEF Shape
<1> QED BY <1>3, <1>4, <1>5, <1>6 DEF Shape

-----------------------------------------------------------------------------
(* The theorems about the kitchen's state.                                 *)

\* The kitchen starts in IInv.
LEMMA InitInv ==
  ASSUME KitchenAssumption, Init
  PROVE  IInv
<1>1. TypeOK
  <2>1. [i \in Items |-> "absent"] \in [Items -> Shelf] BY DEF Shelf
  <2> HIDE DEF KitchenAssumption
  <2>2. m_all_pantries \in Seq([Items -> Shelf]) /\ m_all_pantries # <<>>
    BY <2>1 DEF Init
  <2>3. m_all_cookbooks \in Seq(SUBSET Recipes) /\ m_all_cookbooks # <<>>
    BY DEF Init
  <2>4. m_ready_items \in [Items -> Readiness] BY DEF Init, Readiness
  <2>5. stack \in Seq(Frame) BY EmptySeq DEF Init
  <2> QED BY <2>2, <2>3, <2>4, <2>5 DEF TypeOK, Init, NoMode
<1>2. ControlInv BY DEF Init, ControlInv
<1>3. StackInv BY EmptySeq DEF Init, StackInv
<1>4. TopInv BY DEF Init, TopInv
<1>5. SelectedInv /\ SelectedWellFounded
  BY DEF Init, SelectedInv, SelectedWellFounded, Selected
<1> QED BY <1>1, <1>2, <1>3, <1>4, <1>5 DEF IInv

\* IInv is inductive, and no entry of the results is taken back.
LEMMA InvStep ==
  ASSUME KitchenAssumption, IInv, Next
  PROVE  IInv' /\ EntriesStay
<1>1. TypeOK /\ Shape BY DEF IInv, Shape
<1>2. TypeOK' BY TypeStep DEF IInv
<1>3. Shape' /\ EntriesStay
  <2>1. CASE Client \/ FinishRequest \/ ProcessReturn BY <1>1, <2>1, OutsideStep
  <2>2. CASE NextRequest BY <1>1, <2>2, NextRequestStep
  <2>3. CASE AnswerAvailable \/ AnswerUnreachable \/ AnswerAlreadyUsing \/ TakeFromPantry
    BY <1>1, <2>3, AnswerStep
  <2>4. CASE SearchRecipes BY <1>1, <2>4, SearchStep
  <2>5. CASE ChooseRecipe \/ NextCookbook BY <1>1, <2>5, ChooseStep
  <2>6. CASE NeedIngredient BY <1>1, <1>2, <2>6, NeedStep
  <2>7. CASE ImpossibleIngredient BY <1>1, <2>7, ImpossibleStep
  <2>8. CASE NoMoreRecipes BY <1>1, <2>8, NoMoreStep
  <2>9. CASE GotIngredient BY <1>1, <2>9, GotStep
  <2>10. CASE SelectOnly \/ Prepare BY <1>1, <2>10, SelectStep
  <2>11. CASE PrepareThrows \/ PrepareCrash BY <1>1, <2>11, LeaveStep
  <2> QED
    BY <2>1, <2>2, <2>3, <2>4, <2>5, <2>6, <2>7, <2>8, <2>9, <2>10, <2>11
    DEF Next, Process, MakeReady
<1> QED BY <1>2, <1>3 DEF IInv, Shape

\* IInv is about vars alone.
LEMMA InvStutter ==
  ASSUME IInv, UNCHANGED vars
  PROVE  IInv'
<1>1. TypeOK'
  BY DEF IInv, TypeOK, vars, call, sources, results, others, requests,
     processing
<1>2. ControlInv'
  BY DEF IInv, ControlInv, vars, call, sources, results, others, requests,
     processing
<1>3. StackInv'
  BY DEF IInv, StackInv, InTheMaking, Available, Ready, Selected, Stocked,
     StockedIn, Following, WaitingFor, Book, vars, call, sources, results,
     others, requests, processing
<1>4. TopInv'
  BY DEF IInv, TopInv, Top, Ingredients, WaitingFor, Available, Ready, Selected,
     vars, call, sources, results, others, requests, processing
<1>5. SelectedInv'
  BY DEF IInv, SelectedInv, Ready, Selected, vars, call, sources, results,
     others, requests, processing
<1>6. SelectedWellFounded'
  BY DEF IInv, SelectedWellFounded, Selected, vars, call, sources, results,
     others, requests, processing
<1> QED BY <1>1, <1>2, <1>3, <1>4, <1>5, <1>6 DEF IInv

\* The invariant that carries the proofs: frames, marks, entries and
\* selections agree at every step of make_dependency_ready().
THEOREM Invariance == Spec => []IInv
<1>1. Init => IInv BY KitchenAssumption, InitInv
<1>2. IInv /\ [Next]_vars => IInv' BY KitchenAssumption, InvStep, InvStutter
<1> QED BY <1>1, <1>2, PTL DEF Spec

\* Every variable keeps its type, also after an exception or a crash.
THEOREM TypeCorrect == Spec => []TypeOK
<1>1. IInv => TypeOK BY DEF IInv
<1> QED BY <1>1, Invariance, PTL

\* The recipes the kitchen selects never depend on each other in a circle.
THEOREM SelectionWellFounded == Spec => []SelectedWellFounded
<1>1. IInv => SelectedWellFounded BY DEF IInv
<1> QED BY <1>1, Invariance, PTL

\* A selected recipe and a usable item stay what they are.
THEOREM Stability == Spec => ResultsStable
<1> DEFINE Stays == \A i \in Items :
              /\ Selected(i) => m_selected_recipes'[i] = m_selected_recipes[i]
              /\ m_ready_items[i] \in Usable => m_ready_items'[i] = m_ready_items[i]
<1>1. IInv /\ [Next]_vars => [Stays]_vars
  <2> SUFFICES ASSUME IInv, Next PROVE Stays OBVIOUS
  <2>1. EntriesStay BY KitchenAssumption, InvStep
  <2>2. \A i \in Items : m_ready_items[i] \in Usable => Ready(i)
    BY DEF Usable, Ready
  <2> QED BY <2>1, <2>2 DEF EntriesStay
<1> QED BY <1>1, Invariance, PTL DEF Spec, ResultsStable

-----------------------------------------------------------------------------
(* The kitchen implements Derivation: every step of process_requested_     *)
(* items() obtains an item that may be obtained, adds to the sources, or   *)
(* changes nothing the client can tell.                                    *)

Stock == {i \in Items : Stocked(i)}
Obtained == {i \in Items : m_ready_items[i] \in Usable}

SourcesGrow == Stock \subseteq Stock' /\ Book \subseteq Book'

\* Storing an item adds it to the stock.
LEMMA StoreAddsToStock ==
  ASSUME TypeOK, NEW i \in Items, StoreInPantry(i)
  PROVE  Stock' = Stock \union {i}
<1>1. /\ m_all_pantries \in Seq([Items -> Shelf]) /\ m_all_pantries # <<>>
      /\ m_all_pantries' = [m_all_pantries EXCEPT ![1] = Add(m_all_pantries[1], i)]
      /\ DOMAIN m_all_pantries = 1 .. Len(m_all_pantries)
  BY LenProperties DEF TypeOK, StoreInPantry
<1>2. 1 \in DOMAIN m_all_pantries BY <1>1, EmptySeq
<1>3. \A p \in DOMAIN m_all_pantries : m_all_pantries[p] \in [Items -> Shelf]
  BY <1>1, ElementOfSeq
<1>4. DOMAIN m_all_pantries' = DOMAIN m_all_pantries BY <1>1
<1>5. \A p \in DOMAIN m_all_pantries, n \in Items :
         n # i => m_all_pantries'[p][n] = m_all_pantries[p][n]
  BY <1>1, <1>3 DEF Add
<1>6. m_all_pantries'[1][i] # "absent" BY <1>1, <1>2, <1>3 DEF Add
<1>7. Stocked(i)' BY <1>2, <1>4, <1>6 DEF Stocked, StockedIn
<1>8. ASSUME NEW n \in Items, n # i PROVE Stocked(n) <=> Stocked(n)'
  BY <1>4, <1>5, <1>8 DEF Stocked, StockedIn
<1> QED BY <1>7, <1>8 DEF Stock

\* Client calls add to the sources and make nothing.
LEMMA ClientGrows ==
  ASSUME KitchenAssumption, TypeOK, Client
  PROVE  SourcesGrow /\ m_ready_items' = m_ready_items
<1>1. ASSUME NEW i \in StoredItems, StoreItem(i)
      PROVE  SourcesGrow /\ m_ready_items' = m_ready_items
  <2>1. i \in Items BY DEF KitchenAssumption
  <2> QED
    BY <1>1, <2>1, StoreAddsToStock DEF StoreItem, SourcesGrow, Book, results,
       requests, processing, ClearUnreachableItems
<1>2. ASSUME NEW r \in AddedRecipes, AddRecipe(r)
      PROVE  SourcesGrow /\ m_ready_items' = m_ready_items
  <2>1. m_all_cookbooks \in Seq(SUBSET Recipes) /\ m_all_cookbooks # <<>>
    BY DEF TypeOK
  <2>2. \A c \in DOMAIN m_all_cookbooks :
           m_all_cookbooks[c] \subseteq m_all_cookbooks'[c]
    BY <1>2, <2>1 DEF AddRecipe, requests, processing, ClearUnreachableItems
  <2>3. DOMAIN m_all_cookbooks' = DOMAIN m_all_cookbooks
    BY <1>2 DEF AddRecipe, requests, processing, ClearUnreachableItems
  <2>4. Book \subseteq Book' BY <2>2, <2>3 DEF Book
  <2>5. Stock' = Stock
    BY <1>2 DEF AddRecipe, Stock, Stocked, StockedIn, requests, processing,
       ClearUnreachableItems
  <2> QED
    BY <1>2, <2>4, <2>5 DEF AddRecipe, SourcesGrow, results, requests,
       processing, ClearUnreachableItems
<1>3. ASSUME NEW p \in ArchivePantries, AddPantry(p)
      PROVE  SourcesGrow /\ m_ready_items' = m_ready_items
  <2>1. /\ m_all_pantries \in Seq([Items -> Shelf])
        /\ m_all_pantries' = Append(m_all_pantries, p)
        /\ p \in [Items -> Shelf]
        /\ DOMAIN m_all_pantries = 1 .. Len(m_all_pantries)
    BY <1>3, LenProperties DEF AddPantry, TypeOK, KitchenAssumption, requests,
       processing, ClearUnreachableItems
  <2>2. /\ DOMAIN m_all_pantries \subseteq DOMAIN m_all_pantries'
        /\ \A q \in DOMAIN m_all_pantries : m_all_pantries'[q] = m_all_pantries[q]
    BY <2>1, AppendProperties, LenProperties
  <2>3. Stock \subseteq Stock' BY <2>2 DEF Stock, Stocked, StockedIn
  <2> QED
    BY <1>3, <2>3 DEF AddPantry, SourcesGrow, Book, results, requests,
       processing, ClearUnreachableItems
<1>4. ASSUME NEW c \in ArchiveCookbooks, AddCookbook(c)
      PROVE  SourcesGrow /\ m_ready_items' = m_ready_items
  <2> DEFINE e == {r \in c : ResultOf[r] \notin ZeroLength}
  <2>1. /\ m_all_cookbooks \in Seq(SUBSET Recipes)
        /\ m_all_cookbooks' = Append(m_all_cookbooks, e)
        /\ e \in SUBSET Recipes
        /\ DOMAIN m_all_cookbooks = 1 .. Len(m_all_cookbooks)
    BY <1>4, LenProperties DEF AddCookbook, TypeOK, KitchenAssumption, requests,
       processing, ClearUnreachableItems
  <2> HIDE DEF e
  <2>2. /\ DOMAIN m_all_cookbooks \subseteq DOMAIN m_all_cookbooks'
        /\ \A q \in DOMAIN m_all_cookbooks : m_all_cookbooks'[q] = m_all_cookbooks[q]
    BY <2>1, AppendProperties, LenProperties
  <2>3. Book \subseteq Book' BY <2>2 DEF Book
  <2>4. Stock' = Stock
    BY <1>4 DEF AddCookbook, Stock, Stocked, StockedIn, requests, processing,
       ClearUnreachableItems
  <2> QED
    BY <1>4, <2>3, <2>4 DEF AddCookbook, SourcesGrow, results, requests,
       processing, ClearUnreachableItems
<1>5. ASSUME NEW i \in Requests,
             \/ RequestItem(i) \/ ClearRequestedItems \/ WriteItem(i)
             \/ \E m \in ProcessModes : ProcessRequestedItems(m)
      PROVE  SourcesGrow /\ m_ready_items' = m_ready_items
  BY <1>5 DEF RequestItem, ClearRequestedItems, WriteItem,
     ProcessRequestedItems, SourcesGrow, Stock, Stocked, StockedIn, Book,
     sources, results, requests, processing, ClearUnreachableItems
<1>6. CASE ClearRequestedItems \/ \E m \in ProcessModes : ProcessRequestedItems(m)
  BY <1>6 DEF ClearRequestedItems, ProcessRequestedItems, SourcesGrow, Stock,
     Stocked, StockedIn, Book, sources, results, requests, processing,
     ClearUnreachableItems
<1> QED BY <1>1, <1>2, <1>3, <1>4, <1>5, <1>6 DEF Client

\* Growing sources are a supply.
LEMMA GrowthIsSupply ==
  ASSUME KitchenAssumption, TypeOK, TypeOK', SourcesGrow, Obtained' = Obtained
  PROVE  D!Next
<1>1. Stock' \in SUBSET Items /\ Book' \in SUBSET Recipes
  <2>1. \A c \in DOMAIN m_all_cookbooks' : m_all_cookbooks'[c] \subseteq Recipes
    BY ElementOfSeq, LenProperties DEF TypeOK
  <2> QED BY <2>1 DEF Stock, Book
<1>2. PICK from \in SUBSET Items, using \in SUBSET Recipes : from = Stock' /\ using = Book'
  BY <1>1
<1>3. D!Supply(from, using) BY <1>2 DEF D!Supply, SourcesGrow, Stock, Obtained
<1> QED BY <1>3 DEF D!Next

\* Steps that leave the entries and the sources alone.
LEMMA QuietStep ==
  ASSUME KitchenAssumption, TypeOK,
         \/ FinishRequest \/ ProcessReturn \/ NextRequest
         \/ AnswerAvailable \/ AnswerUnreachable \/ AnswerAlreadyUsing
         \/ SearchRecipes \/ ChooseRecipe \/ NextCookbook \/ NoMoreRecipes
         \/ NeedIngredient \/ GotIngredient \/ ImpossibleIngredient
         \/ SelectOnly \/ PrepareCrash
  PROVE  SourcesGrow /\ Obtained' = Obtained
<1>1. /\ m_all_pantries' = m_all_pantries /\ m_all_cookbooks' = m_all_cookbooks
      /\ \A i \in Items : m_ready_items[i] \in Usable <=> m_ready_items'[i] \in Usable
  <2>1. CASE GotIngredient
    <3>1. /\ m_all_pantries' = m_all_pantries /\ m_all_cookbooks' = m_all_cookbooks
          /\ m_ready_items' = [m_ready_items EXCEPT ![Ingredients[Top.pos]] =
                IF Ready(Ingredients[Top.pos]) THEN m_ready_items[Ingredients[Top.pos]]
                                               ELSE "empty"]
      BY <2>1 DEF GotIngredient, sources, others, requests, processing
    <3> QED BY <3>1 DEF TypeOK, Ready, Usable
  <2>2. CASE SelectOnly
    BY <2>2 DEF SelectOnly, sources, others, requests, processing
  <2>3. CASE PrepareCrash
    BY <2>3 DEF PrepareCrash, sources, requests, processing
  <2>4. CASE FinishRequest \/ ProcessReturn \/ NextRequest
    BY <2>4 DEF FinishRequest, ProcessReturn, NextRequest, sources, results,
       requests, processing, Erase
  <2>5. CASE AnswerAvailable \/ AnswerUnreachable \/ AnswerAlreadyUsing
    BY <2>5 DEF AnswerAvailable, AnswerUnreachable, AnswerAlreadyUsing, sources,
       results, others, requests, processing
  <2>6. CASE SearchRecipes \/ ChooseRecipe \/ NextCookbook \/ NoMoreRecipes
    BY <2>6 DEF SearchRecipes, ChooseRecipe, NextCookbook, NoMoreRecipes,
       sources, results, others, requests, processing, NextBook
  <2>7. CASE NeedIngredient \/ ImpossibleIngredient
    BY <2>7 DEF NeedIngredient, ImpossibleIngredient, sources, results, others,
       requests, processing
  <2> QED BY <2>1, <2>2, <2>3, <2>4, <2>5, <2>6, <2>7
<1> QED BY <1>1 DEF SourcesGrow, Stock, Stocked, StockedIn, Book, Obtained

\* A pantry's item is obtained from the stock.
LEMMA TakeObtains ==
  ASSUME KitchenAssumption, TypeOK, ControlInv, TakeFromPantry
  PROVE  D!Next
<1>1. PICK i \in Items : i = arg
  BY DEF ControlInv, TakeFromPantry, others, requests, processing, Taken,
     sources
<1>2. PICK p \in DOMAIN m_all_pantries :
         /\ StockedIn(p, i)
         /\ m_ready_items' = [m_ready_items EXCEPT ![i] = m_all_pantries[p][i]]
  BY <1>1 DEF TakeFromPantry, others, requests, processing, Taken, sources
<1>3. m_all_pantries[p][i] \in Usable
  <2>1. m_all_pantries[p] \in [Items -> Shelf]
    BY ElementOfSeq, LenProperties DEF TypeOK
  <2> QED BY <1>2, <2>1 DEF StockedIn, Shelf
<1>4. Stock' = Stock /\ Book' = Book
  BY DEF TakeFromPantry, sources, Stock, Stocked, StockedIn, Book, others,
     requests, processing, Taken
<1>5. Obtained' = Obtained \union {i} BY <1>2, <1>3 DEF TypeOK, Obtained
<1>6. i \in Stock BY <1>2 DEF Stock, Stocked
<1>7. D!Obtain(i, {})
  BY <1>4, <1>5, <1>6 DEF D!Obtain, D!Obtainable, Stock, Obtained
<1> QED BY <1>7 DEF D!Next

\* What prepare_as_reader() stores has been obtained before.
LEMMA StashKeepsObtained ==
  ASSUME KitchenAssumption, TypeOK, ControlInv, StackInv, Preparing, ~PrepareCrashes, Stash
  PROVE  \E kept \in SUBSET Obtained : Stock' = Stock \union kept
<1>1. CASE m_all_pantries' = m_all_pantries
  <2>1. Stock' = Stock \union {} BY <1>1 DEF Stock, Stocked, StockedIn
  <2> QED BY <2>1
<1>2. CASE MustStash /\ StoreInPantry(Ingredients[1])
  <2>1. Top.recipe \in Recipes /\ AllGathered BY GatheredFacts DEF Preparing
  <2>2. Len(Ingredients) = 1
    BY <1>2, <2>1 DEF MustStash, KitchenAssumption, Ingredients
  <2>3. IngredientsOf[Top.recipe] \in Seq(Items) BY <2>1 DEF KitchenAssumption
  <2>4. PICK i \in Items : i = Ingredients[1]
    <3>1. 1 \in 1 .. Len(Ingredients) BY <2>2
    <3> QED BY <2>3, <3>1, ElementOfSeq DEF Ingredients
  <2>5. i \in D!Needs(Top.recipe)
    BY <2>1, <2>2, <2>4, NeedsFacts DEF Ingredients
  <2>6. Ready(i) /\ m_ready_items[i] \in Top.parts BY <2>1, <2>5, GatheredFacts
  <2>7. "empty" \notin Top.parts /\ "broken" \notin Top.parts
    BY <1>2 DEF PrepareCrashes, MustStash
  <2>8. m_ready_items[i] \in Usable
    BY <2>6, <2>7 DEF TypeOK, Ready, Readiness, Prepared
  <2>9. i \in Obtained BY <2>8 DEF Obtained
  <2>10. Stock' = Stock \union {i} BY <1>2, <2>4, StoreAddsToStock
  <2> QED BY <2>9, <2>10
<1> QED BY <1>1, <1>2 DEF Stash

\* A usable result is made only from usable ingredients, or from one that
\* some pantry can replace.
LEMMA UsableMeansObtainable ==
  ASSUME KitchenAssumption, TypeOK, ControlInv, StackInv, AllGathered,
         ~PrepareCrashes, PreparedAs \in Usable
  PROVE  /\ Top.recipe \in Book /\ ResultOf[Top.recipe] = Top.item
         /\ D!Needs(Top.recipe) \subseteq Obtained \union Stock
<1>1. /\ Top.recipe \in Recipes /\ Top.recipe \in Book
      /\ ResultOf[Top.recipe] = Top.item
      /\ \A n \in D!Needs(Top.recipe) :
            n \in Items /\ Ready(n) /\ m_ready_items[n] \in Top.parts
  BY GatheredFacts
<1>2. CASE Top.parts \intersect {"empty", "broken"} = {}
  <2>1. \A n \in D!Needs(Top.recipe) : m_ready_items[n] \in Usable
    BY <1>1, <1>2 DEF TypeOK, Ready, Readiness, Prepared
  <2> QED BY <1>1, <2>1 DEF Obtained
<1>3. CASE Top.parts \intersect {"empty", "broken"} # {}
  <2>1. KindOf[Top.recipe] = "slice" BY <1>3 DEF PreparedAs, Usable
  <2>2. "broken" \in Top.parts /\ ~MustStash BY <1>3, <2>1 DEF PrepareCrashes
  <2>3. PICK p \in DOMAIN m_all_pantries : m_all_pantries[p][Ingredients[1]] = "reader"
    BY <2>1, <2>2 DEF MustStash
  <2>4. Stocked(Ingredients[1]) BY <2>3 DEF Stocked, StockedIn
  <2>5. Len(IngredientsOf[Top.recipe]) = 1 BY <1>1, <2>1 DEF KitchenAssumption
  <2>6. \A n \in D!Needs(Top.recipe) : n = Ingredients[1]
    BY <1>1, <2>5, NeedsFacts DEF Ingredients
  <2>7. \A n \in D!Needs(Top.recipe) : n \in Items /\ Stocked(n)
    BY <1>1, <2>4, <2>6
  <2> QED BY <1>1, <2>7 DEF Stock
<1> QED BY <1>2, <1>3

\* A prepared item is obtained by its recipe, or cannot be used.
LEMMA PrepareObtains ==
  ASSUME KitchenAssumption, TypeOK, TypeOK', ControlInv, StackInv, Prepare
  PROVE  D!Next
<1>1. AllGathered /\ Preparing /\ ~PrepareCrashes /\ Stash
  BY DEF Prepare, Preparing, requests, processing
<1>2. PICK i \in Items : i = Top.item /\ ~Ready(i) BY <1>1, GatheredFacts
<1>3. /\ m_ready_items' = [m_ready_items EXCEPT ![i] = PreparedAs]
      /\ m_all_cookbooks' = m_all_cookbooks
  BY <1>2 DEF Prepare, Ready, TypeOK, requests, processing
<1>4. Book' = Book BY <1>3 DEF Book
<1>5. PICK kept \in SUBSET Obtained : Stock' = Stock \union kept
  BY <1>1, StashKeepsObtained
<1>6. CASE PreparedAs \in Usable
  <2>1. Obtained' = Obtained \union {i} BY <1>3, <1>6 DEF TypeOK, Obtained
  <2>2. PICK r \in Book : ResultOf[r] = i /\ D!Needs(r) \subseteq Obtained \union Stock
    BY <1>1, <1>2, <1>6, UsableMeansObtainable
  <2>3. D!Obtain(i, kept)
    BY <1>4, <1>5, <2>1, <2>2 DEF D!Obtain, D!Obtainable, Stock, Obtained
  <2> QED BY <2>3 DEF D!Next, Obtained
<1>7. CASE PreparedAs \notin Usable
  <2>1. Obtained' = Obtained
    BY <1>2, <1>3, <1>7 DEF TypeOK, Obtained, Ready, Usable
  <2> QED BY <1>4, <1>5, <2>1, GrowthIsSupply DEF SourcesGrow
<1> QED BY <1>6, <1>7

\* Every step of the kitchen is a step of the abstract one.
LEMMA StepRefines ==
  ASSUME KitchenAssumption, IInv, IInv', Next
  PROVE  D!Next
<1>1. TypeOK /\ TypeOK' /\ ControlInv /\ StackInv BY DEF IInv
<1>2. CASE Client
  <2>1. SourcesGrow /\ Obtained' = Obtained
    BY <1>1, <1>2, ClientGrows DEF Obtained
  <2> QED BY <1>1, <2>1, GrowthIsSupply
<1>3. CASE TakeFromPantry BY <1>1, <1>3, TakeObtains
<1>4. CASE Prepare BY <1>1, <1>4, PrepareObtains
<1>5. CASE PrepareThrows
  <2>1. Preparing /\ ~PrepareCrashes /\ Stash
    BY <1>5 DEF PrepareThrows, requests, processing
  <2>2. \E kept \in SUBSET Obtained : Stock' = Stock \union kept
    BY <1>1, <2>1, StashKeepsObtained
  <2>3. SourcesGrow /\ Obtained' = Obtained
    BY <1>5, <2>2 DEF PrepareThrows, SourcesGrow, Book, Obtained, requests,
       processing
  <2> QED BY <1>1, <2>3, GrowthIsSupply
<1>6. CASE ~Client /\ ~TakeFromPantry /\ ~Prepare /\ ~PrepareThrows
  <2>1. SourcesGrow /\ Obtained' = Obtained
    BY <1>1, <1>6, QuietStep DEF Next, Process, MakeReady
  <2> QED BY <1>1, <2>1, GrowthIsSupply
<1> QED BY <1>2, <1>3, <1>4, <1>5, <1>6

\* The kitchen only hands out what stock and recipes can make, and keeps it.
THEOREM Implementation == Spec => DerivesOnlyDerivable
<1>1. Init => D!Init
  <2> SUFFICES ASSUME Init PROVE D!Init OBVIOUS
  <2>1. \A i \in Items : ~Stocked(i) BY DEF Init, Stocked, StockedIn
  <2>2. Book = {} BY DEF Init, Book
  <2>3. \A i \in Items : m_ready_items[i] \notin Usable BY DEF Init, Usable
  <2> QED BY <2>1, <2>2, <2>3 DEF D!Init
<1>2. IInv /\ IInv' /\ [Next]_vars => [D!Next]_(D!vars)
  <2>1. ASSUME IInv, IInv', Next PROVE D!Next
    BY <2>1, KitchenAssumption, StepRefines
  <2>2. ASSUME UNCHANGED vars PROVE UNCHANGED D!vars
    BY <2>2 DEF vars, sources, results, call, D!vars, Stocked, StockedIn, Book,
       others, requests, processing
  <2> QED BY <2>1, <2>2
<1> QED BY <1>1, <1>2, Invariance, PTL DEF Spec, DerivesOnlyDerivable, D!Spec

-----------------------------------------------------------------------------
(* What Derivation promises: what is obtained can be derived.              *)

\* A set that is closed under more stock and more recipes is closed under
\* less, so derivable items stay derivable.
LEMMA DerivableGrows ==
  ASSUME NEW from, NEW using, NEW from2, NEW using2,
         from \subseteq from2, using \subseteq using2
  PROVE  D!Derivable(from, using) \subseteq D!Derivable(from2, using2)
BY DEF D!Derivable, D!Closed

\* What is in stock stays derivable: more stock and recipes derive no less.
LEMMA SoundStep ==
  ASSUME D!TypeOK, D!Sound, D!Next
  PROVE  D!TypeOK' /\ D!Sound'
<1>1. ASSUME NEW from \in SUBSET Items, NEW using \in SUBSET Recipes,
             D!Supply(from, using)
      PROVE  D!TypeOK' /\ D!Sound'
  <2>1. D!Derivable(Stock, Book) \subseteq D!Derivable(Stock', Book')
    BY <1>1, DerivableGrows DEF Stock, Obtained, D!Supply
  <2> QED BY <1>1, <2>1 DEF Stock, Obtained, D!Supply, D!TypeOK, D!Sound
<1>2. ASSUME NEW i \in Items, NEW kept \in SUBSET Obtained, D!Obtain(i, kept)
      PROVE  D!TypeOK' /\ D!Sound'
  <2>1. Stock' = Stock \union kept /\ Book' = Book /\ Obtained' = Obtained \union {i}
    BY <1>2 DEF Stock, Obtained, D!Obtain
  <2>2. D!Derivable(Stock, Book) \subseteq D!Derivable(Stock', Book')
    BY <2>1, DerivableGrows
  <2>3. ASSUME NEW S \in SUBSET Items, D!Closed(S, Stock', Book')
        PROVE  i \in S
    <3>1. Obtained \subseteq S BY <2>2, <2>3 DEF Stock, Obtained, D!Sound, D!Derivable
    <3>2. Stock \subseteq S BY <2>1, <2>3 DEF Stock, D!Closed
    <3> QED BY <1>2, <2>1, <2>3, <3>1, <3>2
            DEF Stock, Obtained, D!Obtain, D!Obtainable, D!Closed
  <2>4. i \in D!Derivable(Stock', Book') BY <2>3 DEF Stock, Obtained, D!Derivable
  <2>5. D!TypeOK' BY <2>1 DEF Stock, Obtained, D!TypeOK
  <2> QED BY <2>1, <2>2, <2>4, <2>5 DEF Stock, Obtained, D!Sound
<1> QED BY <1>1, <1>2 DEF Obtained, D!Next

\* Everything that the kitchen hands out has a derivation from its stock and its
\* recipes, as Derivation promises.
THEOREM Soundness == Spec => [](D!TypeOK /\ D!Sound)
<1>1. D!Init => D!TypeOK /\ D!Sound BY DEF Stock, Obtained, D!Init, D!TypeOK, D!Sound
<1>2. D!TypeOK /\ D!Sound /\ [D!Next]_(D!vars) => (D!TypeOK /\ D!Sound)'
  <2>1. CASE D!Next BY <2>1, SoundStep
  <2>2. CASE UNCHANGED D!vars BY <2>2 DEF Stock, Obtained, D!vars, D!TypeOK, D!Sound
  <2> QED BY <2>1, <2>2
<1> QED BY <1>1, <1>2, Implementation, PTL DEF D!Spec, DerivesOnlyDerivable

\* Nothing that the kitchen can hand out is lost again, as Derivation promises.
THEOREM NothingLost == Spec => D!Kept
<1>1. [D!Next]_(D!vars) => [Obtained \subseteq Obtained']_(D!vars)
  BY DEF Stock, Obtained, D!Next, D!Supply, D!Obtain
<1> QED BY <1>1, Implementation, PTL DEF Obtained, D!Spec, D!Kept, DerivesOnlyDerivable

-----------------------------------------------------------------------------
(***************************************************************************)
(* The kitchen's answers.  The outcome of process_requested_items() agrees *)
(* with its two sets in every use.  The rest depends on how the kitchen is *)
(* used: while nothing is mocked, the selected recipes are a complete plan; *)
(* while moreover items are always prepared and no prepare() throws,       *)
(* nothing null is dereferenced and a request that is dropped can be       *)
(* fetched; and while no recipes run in a circle, what is reported         *)
(* unreachable cannot be made.                                             *)
(***************************************************************************)

\* The uses of the kitchen the theorems below tell apart.
NothingMocked == \A m \in ProcessModes : m.mocked = {}
AlwaysPrepares == (\A m \in ProcessModes : m = NoMode) /\ Unpreparable = {}

-----------------------------------------------------------------------------
(* The outcome.                                                            *)

\* While a call is in progress, every request that is still kept is either
\* to be tried or was found unreachable, and never both.
AccountInv ==
    /\ OutcomeAccounted
    /\ pc \notin {"idle", "crashed"} =>
          /\ outcome = "none"
          /\ m_requested_items = pending \union m_unreachable_items
          /\ pending \intersect m_unreachable_items = {}
          /\ pc # "request" => target \in pending

\* The search leaves the requests and the loop over them alone, until it
\* ends by an answer, an exception or a crash.
LEMMA SearchKeepsRequests ==
  ASSUME MakeReady
  PROVE  /\ requests' = requests
         /\ pc \in {"enter", "choose", "gather", "answer"}
         /\ \/ /\ outcome' = outcome /\ processing' = processing
               /\ pc' \in {"enter", "choose", "gather", "answer"}
            \/ outcome' = "threw" /\ pc' = "idle"
            \/ outcome' = outcome /\ pc' = "crashed"
<1>1. CASE \/ AnswerAvailable \/ AnswerUnreachable \/ TakeFromPantry
           \/ AnswerAlreadyUsing \/ SearchRecipes
  BY <1>1 DEF AnswerAvailable, AnswerUnreachable, TakeFromPantry, Answer,
     AnswerAlreadyUsing, SearchRecipes, NeedsRecipe, others
<1>2. CASE ChooseRecipe \/ NextCookbook \/ NoMoreRecipes
  BY <1>2 DEF ChooseRecipe, NextCookbook, NoMoreRecipes, Answer, others
<1>3. CASE NeedIngredient \/ GotIngredient \/ ImpossibleIngredient
  BY <1>3 DEF NeedIngredient, GotIngredient, ImpossibleIngredient, others
<1>4. CASE SelectOnly \/ Prepare
  BY <1>4 DEF SelectOnly, Prepare, Preparing, AllGathered, Answer, others
<1>5. CASE PrepareThrows \/ PrepareCrash
  BY <1>5 DEF PrepareThrows, PrepareCrash, Preparing, AllGathered
<1> QED BY <1>1, <1>2, <1>3, <1>4, <1>5 DEF MakeReady

\* Every step of a client or of a call keeps the account.
LEMMA AccountStep ==
  ASSUME IInv, AccountInv, Next
  PROVE  AccountInv'
<1>1. CASE Client
  <2>1. ASSUME NEW i \in Requests, WriteItem(i) PROVE AccountInv'
    BY <2>1 DEF WriteItem, AccountInv, OutcomeAccounted, requests
  <2>2. ASSUME NEW m \in ProcessModes, ProcessRequestedItems(m) PROVE AccountInv'
    BY <2>2 DEF ProcessRequestedItems, ClearUnreachableItems, AccountInv,
       OutcomeAccounted
  <2>3. \/ \E i \in StoredItems : StoreItem(i)
        \/ \E r \in AddedRecipes : AddRecipe(r)
        \/ \E p \in ArchivePantries : AddPantry(p)
        \/ \E c \in ArchiveCookbooks : AddCookbook(c)
        \/ \E i \in Requests : RequestItem(i)
        \/ ClearRequestedItems
        => pc' = "idle" /\ outcome' = "none"
    BY DEF StoreItem, AddRecipe, AddPantry, AddCookbook, RequestItem,
       ClearRequestedItems
  <2>4. pc' = "idle" /\ outcome' = "none" => AccountInv'
    BY DEF AccountInv, OutcomeAccounted
  <2> QED BY <1>1, <2>1, <2>2, <2>3, <2>4 DEF Client
<1>2. CASE NextRequest
  BY <1>2 DEF NextRequest, AccountInv, OutcomeAccounted, requests
<1>3. CASE FinishRequest
  <2>1. /\ pc = "answer" /\ pc' = "request" /\ outcome' = outcome
        /\ pending' = pending \ {target}
        /\ m_requested_items' = m_requested_items \ Erase
        /\ m_unreachable_items' = m_unreachable_items \union ({target} \ Erase)
    BY <1>3 DEF FinishRequest
  <2>2. /\ outcome = "none" /\ target \in pending
        /\ m_requested_items = pending \union m_unreachable_items
        /\ pending \intersect m_unreachable_items = {}
    BY <2>1 DEF AccountInv
  <2>3. Erase = {target} \/ Erase = {} BY DEF Erase
  <2>4. /\ m_requested_items' = pending' \union m_unreachable_items'
        /\ pending' \intersect m_unreachable_items' = {}
    BY <2>1, <2>2, <2>3
  <2> QED BY <2>1, <2>2, <2>4 DEF AccountInv, OutcomeAccounted
<1>4. CASE ProcessReturn
  BY <1>4 DEF ProcessReturn, AccountInv, OutcomeAccounted, requests
<1>5. CASE MakeReady
  BY <1>5, SearchKeepsRequests DEF AccountInv, OutcomeAccounted, requests,
     processing
<1> QED BY <1>1, <1>2, <1>3, <1>4, <1>5 DEF Next, Process

\* What process_requested_items() returns agrees with the requests that
\* remain and the items found unreachable, whatever is mocked or thrown.
THEOREM OutcomeTrue == Spec => []OutcomeAccounted
<1>1. Init => AccountInv BY DEF Init, AccountInv, OutcomeAccounted
<1>2. IInv /\ AccountInv /\ [Next]_vars => AccountInv'
  <2>1. ASSUME AccountInv, UNCHANGED vars PROVE AccountInv'
    BY <2>1 DEF AccountInv, OutcomeAccounted, vars, others, requests, processing
  <2> QED BY <2>1, AccountStep
<1>3. AccountInv => OutcomeAccounted BY DEF AccountInv
<1> QED BY <1>1, <1>2, <1>3, Invariance, PTL DEF Spec

-----------------------------------------------------------------------------
(* Complete plans.                                                         *)

\* Without mocked items every entry is stocked or made by a selected recipe.
EntriesInv ==
    /\ mode.mocked = {}
    /\ \A i \in Items : Ready(i) => Selected(i) \/ Stocked(i)

\* What is selected or stocked stays so.
LEMMA SourcesStay ==
  ASSUME KitchenAssumption, IInv, Next
  PROVE  \A i \in Items : Selected(i) \/ Stocked(i) => (Selected(i) \/ Stocked(i))'
<1>1. EntriesStay BY InvStep
<1>2. Stock \subseteq Stock'
  <2>1. D!Next BY InvStep, StepRefines
  <2>2. ASSUME NEW from \in SUBSET Items, NEW using \in SUBSET Recipes,
               D!Supply(from, using)
        PROVE  Stock \subseteq Stock'
    BY <2>2 DEF D!Supply, Stock
  <2>3. ASSUME NEW i \in Items,
               NEW kept \in SUBSET {n \in Items : m_ready_items[n] \in Usable},
               D!Obtain(i, kept)
        PROVE  Stock \subseteq Stock'
    BY <2>3 DEF D!Obtain, Stock
  <2> QED BY <2>1, <2>2, <2>3 DEF D!Next
<1>3. ASSUME NEW i \in Items, Selected(i) PROVE Selected(i)'
  BY <1>1, <1>3 DEF EntriesStay, Selected
<1>4. ASSUME NEW i \in Items, Stocked(i) PROVE Stocked(i)'
  BY <1>2, <1>4 DEF Stock
<1> QED BY <1>3, <1>4

\* The mode is the client's, or that of no call.
LEMMA ModeStep ==
  ASSUME Next
  PROVE  mode' = mode \/ mode' = NoMode \/ mode' \in ProcessModes
<1>1. CASE Client
  BY <1>1 DEF Client, StoreItem, AddRecipe, AddPantry, AddCookbook, RequestItem,
     ClearRequestedItems, WriteItem, ProcessRequestedItems, call, processing
<1>2. CASE NextRequest \/ FinishRequest \/ ProcessReturn
  BY <1>2 DEF NextRequest, FinishRequest, ProcessReturn, LeaveCall
<1>3. CASE \/ AnswerAvailable \/ AnswerUnreachable \/ TakeFromPantry
           \/ AnswerAlreadyUsing \/ SearchRecipes \/ ChooseRecipe
           \/ NextCookbook \/ NoMoreRecipes \/ NeedIngredient
           \/ GotIngredient \/ ImpossibleIngredient \/ SelectOnly
  BY <1>3 DEF AnswerAvailable, AnswerUnreachable, TakeFromPantry,
     AnswerAlreadyUsing, SearchRecipes, ChooseRecipe, NextCookbook,
     NoMoreRecipes, NeedIngredient, GotIngredient, ImpossibleIngredient,
     SelectOnly, others, processing
<1>4. CASE Prepare BY <1>4 DEF Prepare, processing
<1>5. CASE PrepareThrows \/ PrepareCrash
  BY <1>5 DEF PrepareThrows, PrepareCrash, LeaveCall
<1> QED BY <1>1, <1>2, <1>3, <1>4, <1>5 DEF Next, Process, MakeReady

\* A step that makes an entry takes it from a pantry, selects a recipe for
\* it, or finds it available.
LEMMA NewEntries ==
  ASSUME KitchenAssumption, IInv, Next,
         NEW i \in Items, ~Ready(i), Ready(i)'
  PROVE  Selected(i)' \/ Stocked(i) \/ Available(i)
<1>1. CASE Client
  <2>1. m_ready_items' = m_ready_items BY <1>1, ClientGrows DEF IInv
  <2> QED BY <2>1 DEF Ready
<1>2. CASE TakeFromPantry
  <2>1. PICK p \in DOMAIN m_all_pantries :
              StockedIn(p, arg) /\ m_ready_items' = Taken(p)
    BY <1>2 DEF TakeFromPantry
  <2>2. i = arg BY <2>1 DEF Taken, Ready, IInv, TypeOK
  <2> QED BY <2>1, <2>2 DEF Stocked
<1>3. CASE GotIngredient
  <2>1. /\ pc = "answer" /\ stack # <<>> /\ answer
        /\ \E entry : m_ready_items' =
              [m_ready_items EXCEPT ![Ingredients[Top.pos]] = entry]
    BY <1>3 DEF GotIngredient
  <2>2. Available(Ingredients[Top.pos]) BY <2>1 DEF IInv, TopInv
  <2>3. i = Ingredients[Top.pos] BY <2>1 DEF Ready, IInv, TypeOK
  <2> QED BY <2>2, <2>3
<1>4. CASE Prepare
  <2>1. AllGathered /\ Select
        /\ m_ready_items' = [m_ready_items EXCEPT ![Top.item] =
                                IF @ = "absent" THEN PreparedAs ELSE @]
    BY <1>4 DEF Prepare, Preparing
  <2>2. Top.recipe \in Recipes BY <2>1, GatheredFacts DEF IInv
  <2>3. i = Top.item BY <2>1 DEF Ready, IInv, TypeOK
  <2>4. m_selected_recipes'[i] = Top.recipe
    BY <2>1, <2>3 DEF Select, IInv, TypeOK
  <2> QED BY <2>2, <2>4 DEF Selected, KitchenAssumption
<1>5. CASE \/ NextRequest \/ FinishRequest \/ ProcessReturn \/ AnswerAvailable
           \/ AnswerUnreachable \/ AnswerAlreadyUsing \/ SearchRecipes
           \/ ChooseRecipe \/ NextCookbook \/ NoMoreRecipes \/ NeedIngredient
           \/ ImpossibleIngredient \/ SelectOnly \/ PrepareThrows \/ PrepareCrash
  <2>1. m_ready_items' = m_ready_items
    BY <1>5 DEF NextRequest, FinishRequest, ProcessReturn, AnswerAvailable,
       AnswerUnreachable, AnswerAlreadyUsing, SearchRecipes, ChooseRecipe,
       NextCookbook, NoMoreRecipes, NeedIngredient, ImpossibleIngredient,
       SelectOnly, PrepareThrows, PrepareCrash, results
  <2> QED BY <2>1 DEF Ready
<1> QED BY <1>1, <1>2, <1>3, <1>4, <1>5 DEF Next, Process, MakeReady

\* Every step keeps entries explained.
LEMMA EntriesStep ==
  ASSUME KitchenAssumption, NothingMocked, IInv, EntriesInv, Next
  PROVE  EntriesInv'
<1>1. mode'.mocked = {}
  BY ModeStep DEF NothingMocked, EntriesInv, NoMode
<1>2. ASSUME NEW i \in Items, Ready(i)' PROVE (Selected(i) \/ Stocked(i))'
  <2>1. CASE Ready(i) BY <2>1, SourcesStay DEF EntriesInv
  <2>2. CASE ~Ready(i)
    <3>1. Selected(i)' \/ Stocked(i) \/ Available(i) BY <1>2, <2>2, NewEntries
    <3>2. Available(i) => Selected(i)
      BY <2>2 DEF Available, EntriesInv
    <3> QED BY <3>1, <3>2, SourcesStay
  <2> QED BY <2>1, <2>2
<1> QED BY <1>1, <1>2 DEF EntriesInv

\* While nothing is mocked, every ingredient of a selected recipe is stocked
\* or has a selected recipe itself: the recipes saved make all of it.
THEOREM PlansAreComplete ==
  ASSUME NothingMocked
  PROVE  Spec => []PlanComplete
<1>1. Init => EntriesInv BY DEF Init, EntriesInv, NoMode, Ready
<1>2. IInv /\ EntriesInv /\ [Next]_vars => EntriesInv'
  <2>1. ASSUME EntriesInv, UNCHANGED vars PROVE EntriesInv'
    BY <2>1 DEF EntriesInv, Ready, Selected, Stocked, StockedIn, vars, others,
       sources, results, processing
  <2> QED BY <2>1, KitchenAssumption, EntriesStep
<1>3. IInv /\ EntriesInv => PlanComplete
  <2> SUFFICES ASSUME IInv, EntriesInv, NEW i \in Items, Selected(i),
                      NEW n \in D!Needs(m_selected_recipes[i])
               PROVE  Selected(n) \/ Stocked(n)
    BY DEF PlanComplete
  <2>1. m_selected_recipes[i] \in Recipes BY DEF IInv, TypeOK, Selected
  <2>2. n \in Items BY <2>1, KitchenAssumption, NeedsFacts
  <2>3. Ready(n) BY DEF IInv, SelectedInv
  <2> QED BY <2>2, <2>3 DEF EntriesInv
<1> QED BY <1>1, <1>2, <1>3, Invariance, PTL DEF Spec

-----------------------------------------------------------------------------
(* Preparing everything.                                                   *)

\* Every entry can be read, and every selected item has one.
PreparedInv ==
    /\ mode = NoMode
    /\ \A i \in Items : m_ready_items[i] \in Usable \union {"absent"}
    /\ \A i \in Items : Selected(i) => Ready(i)
    /\ \A k \in 1 .. Len(stack) : stack[k].parts \subseteq Usable
    /\ pc # "crashed"

\* The first frame is about the request, and a request is answered for itself.
AskedInv ==
    /\ stack = <<>> /\ pc = "enter" => arg = target
    /\ stack = <<>> /\ pc = "answer" /\ answer => Available(target)
    /\ stack # <<>> => stack[1].item = target

\* What was gathered for the top frame's recipe can be read.
LEMMA TopParts ==
  ASSUME TypeOK, PreparedInv, stack # <<>>
  PROVE  Top.parts \subseteq Usable
<1>1. Len(stack) \in 1 .. Len(stack) BY TopType DEF TypeOK
<1> QED BY <1>1 DEF PreparedInv, Top

\* So neither preparing nor writing goes through a null pointer, and
\* preparing does not throw.
LEMMA NoCrash ==
  ASSUME AlwaysPrepares, IInv, PreparedInv
  PROVE  /\ ~PrepareThrows /\ ~PrepareCrash
         /\ \A i \in Items : WriteItem(i) => pc' # "crashed"
<1>1. ASSUME Preparing PROVE ~PrepareCrashes /\ Top.recipe \notin Unpreparable
  <2>1. stack # <<>> BY <1>1 DEF Preparing, AllGathered, IInv, ControlInv
  <2>2. Top.parts \subseteq Usable BY <2>1, TopParts DEF IInv
  <2>3. "empty" \notin Top.parts /\ "broken" \notin Top.parts
    BY <2>2 DEF Usable
  <2> QED BY <2>3 DEF PrepareCrashes, AlwaysPrepares
<1>2. ASSUME NEW i \in Items, WriteItem(i) PROVE pc' # "crashed"
  BY <1>2 DEF WriteItem, PreparedInv, Usable
<1> QED BY <1>1, <1>2 DEF PrepareThrows, PrepareCrash

\* The parts of the frames stay readable.
LEMMA PartsStep ==
  ASSUME KitchenAssumption, AlwaysPrepares, IInv, PreparedInv, Next
  PROVE  \A k \in 1 .. Len(stack') : stack'[k].parts \subseteq Usable
<1> DEFINE Good(s) == \A k \in 1 .. Len(s) : s[k].parts \subseteq Usable
<1>1. Good(stack) /\ stack \in Seq(Frame) BY DEF PreparedInv, IInv, TypeOK
<1>2. ASSUME stack' = stack PROVE Good(stack') BY <1>1, <1>2
<1>3. ASSUME stack' = <<>> PROVE Good(stack') BY <1>3, EmptySeq
<1>4. ASSUME stack # <<>>, stack' = Below PROVE Good(stack')
  <2>1. /\ Len(stack) \in Nat \ {0}
        /\ Len(Below) = Len(stack) - 1
        /\ \A i \in 1 .. Len(stack) - 1 : Below[i] = stack[i]
    BY <1>1, <1>4, PopProperties DEF Below
  <2> QED BY <1>1, <1>4, <2>1
<1>5. ASSUME NEW f \in Frame, f.parts \subseteq Usable, stack # <<>>, SetTop(f)
      PROVE  Good(stack')
  BY <1>1, <1>5, SetTopProperties DEF SetTop
<1>6. CASE Client
  BY <1>2, <1>3, <1>6 DEF Client, StoreItem, AddRecipe, AddPantry, AddCookbook,
     RequestItem, ClearRequestedItems, WriteItem, ProcessRequestedItems, call
<1>7. CASE NextRequest \/ FinishRequest \/ ProcessReturn
  BY <1>2, <1>3, <1>7 DEF NextRequest, FinishRequest, ProcessReturn, LeaveCall
<1>8. CASE \/ AnswerAvailable \/ AnswerUnreachable \/ TakeFromPantry
           \/ AnswerAlreadyUsing \/ NeedIngredient \/ ImpossibleIngredient
  BY <1>2, <1>8 DEF AnswerAvailable, AnswerUnreachable, TakeFromPantry,
     AnswerAlreadyUsing, NeedIngredient, ImpossibleIngredient
<1>9. CASE SearchRecipes
  <2>1. stack' = Append(stack, NewFrame(arg)) BY <1>9 DEF SearchRecipes
  <2>2. NewFrame(arg).parts = {} BY DEF NewFrame
  <2>3. NewFrame(arg) \in Frame
    BY <1>9 DEF SearchRecipes, NeedsRecipe, IInv, ControlInv, NewFrame, Frame
  <2>4. /\ Len(stack') = Len(stack) + 1 /\ Len(stack) \in Nat
        /\ \A k \in 1 .. Len(stack) : stack'[k] = stack[k]
        /\ stack'[Len(stack) + 1] = NewFrame(arg)
    BY <1>1, <2>1, <2>3, AppendProperties, LenProperties
  <2> QED BY <1>1, <2>2, <2>4
<1>10. CASE ChooseRecipe
  <2>1. stack # <<>> BY <1>10 DEF ChooseRecipe, IInv, ControlInv
  <2>2. Top \in Frame /\ Top.book \in 1 .. Len(m_all_cookbooks)
    BY <2>1, TopFacts DEF IInv
  <2>3. Untried \subseteq Recipes BY <2>2, BookType DEF Untried, IInv
  <2>4. PICK r \in Untried :
          SetTop([Top EXCEPT !.recipe = r, !.tried = @ \union {r}, !.pos = 1, !.parts = {}])
    BY <1>10 DEF ChooseRecipe
  <2> DEFINE f == [Top EXCEPT !.recipe = r, !.tried = @ \union {r}, !.pos = 1, !.parts = {}]
  <2>5. f \in Frame BY <2>2, <2>3, FrameTypes
  <2>6. f.parts = {} BY <2>2 DEF Frame
  <2> QED BY <1>5, <2>1, <2>4, <2>5, <2>6
<1>11. CASE NextCookbook
  <2>1. stack # <<>> BY <1>11 DEF NextCookbook, IInv, ControlInv
  <2>2. Top \in Frame BY <2>1, TopFacts DEF IInv
  <2>3. NextBook(Top) \in Frame BY <2>2, FrameTypes DEF NextBook
  <2>4. NextBook(Top).parts = Top.parts BY <2>2 DEF Frame, NextBook
  <2>5. Top.parts \subseteq Usable BY <2>1, TopParts DEF IInv
  <2> QED BY <1>5, <1>11, <2>1, <2>3, <2>4, <2>5 DEF NextCookbook
<1>12. CASE NoMoreRecipes \/ SelectOnly \/ Prepare
  BY <1>4, <1>12 DEF NoMoreRecipes, SelectOnly, Prepare, Preparing, AllGathered,
     IInv, ControlInv
<1>13. CASE GotIngredient
  <2> DEFINE i == Ingredients[Top.pos]
             entry == IF Ready(i) THEN m_ready_items[i] ELSE "empty"
             f == [Top EXCEPT !.pos = @ + 1, !.parts = @ \union {entry}]
  <2>1. pc = "answer" /\ stack # <<>> /\ answer /\ SetTop(f)
    BY <1>13 DEF GotIngredient
  <2>2. /\ Top \in Frame /\ Ingredients \in Seq(Items)
    BY <2>1, TopFacts DEF IInv
  <2>3. Top.pos \in 1 .. Len(Ingredients)
    BY <2>1, <2>2, LenProperties DEF IInv, TopInv, Frame
  <2>4. i \in Items BY <2>2, <2>3, ElementOfSeq
  <2>5. Available(i) BY <2>1 DEF IInv, TopInv
  <2>6. Ready(i) BY <2>4, <2>5 DEF Available, PreparedInv, NoMode
  <2>7. entry \in Usable BY <2>4, <2>6 DEF PreparedInv, Ready
  <2>8. f \in Frame BY <2>2, <2>7, FrameTypes DEF Prepared
  <2>9. f.parts = Top.parts \union {entry} BY <2>2 DEF Frame
  <2>10. Top.parts \subseteq Usable BY <2>1, TopParts DEF IInv
  <2> QED BY <1>5, <2>1, <2>7, <2>8, <2>9, <2>10
<1>14. ~PrepareThrows /\ ~PrepareCrash BY NoCrash
<1> QED
  BY <1>6, <1>7, <1>8, <1>9, <1>10, <1>11, <1>12, <1>13, <1>14
  DEF Next, Process, MakeReady

\* An entry that is made can be read.
LEMMA UsableStep ==
  ASSUME KitchenAssumption, AlwaysPrepares, IInv, PreparedInv, Next
  PROVE  \A i \in Items : m_ready_items'[i] \in Usable \union {"absent"}
<1>1. ASSUME m_ready_items' = m_ready_items
      PROVE  \A i \in Items : m_ready_items'[i] \in Usable \union {"absent"}
  BY <1>1 DEF PreparedInv
<1>2. ASSUME NEW n, NEW e \in Usable \union {"absent"},
             m_ready_items' = [m_ready_items EXCEPT ![n] = e]
      PROVE  \A i \in Items : m_ready_items'[i] \in Usable \union {"absent"}
  BY <1>2 DEF PreparedInv, IInv, TypeOK
<1>3. CASE Client BY <1>1, <1>3, ClientGrows DEF IInv
<1>4. CASE TakeFromPantry
  <2>1. PICK p \in DOMAIN m_all_pantries : m_ready_items' = Taken(p)
    BY <1>4 DEF TakeFromPantry
  <2>2. arg \in Items BY <1>4 DEF TakeFromPantry, IInv, ControlInv
  <2>3. m_all_pantries[p] \in [Items -> Shelf]
    BY ElementOfSeq, LenProperties DEF IInv, TypeOK
  <2>4. m_all_pantries[p][arg] \in Usable \union {"absent"} BY <2>2, <2>3 DEF Shelf
  <2> QED BY <1>2, <2>1, <2>4 DEF Taken
<1>5. CASE GotIngredient
  <2> DEFINE i == Ingredients[Top.pos]
  <2>1. /\ pc = "answer" /\ stack # <<>> /\ answer
        /\ m_ready_items' =
              [m_ready_items EXCEPT ![i] = IF Ready(i) THEN m_ready_items[i] ELSE "empty"]
    BY <1>5 DEF GotIngredient
  <2>2. Available(i) BY <2>1 DEF IInv, TopInv
  <2>3. i \in Items => Ready(i) BY <2>2 DEF Available, PreparedInv, NoMode
  <2>4. m_ready_items' = m_ready_items BY <2>1, <2>3 DEF IInv, TypeOK
  <2> QED BY <1>1, <2>4
<1>6. CASE Prepare
  <2>1. /\ AllGathered
        /\ m_ready_items' = [m_ready_items EXCEPT ![Top.item] =
                                IF @ = "absent" THEN PreparedAs ELSE @]
    BY <1>6 DEF Prepare, Preparing
  <2>2. Top.item \in Items /\ stack # <<>>
    BY <2>1, GatheredFacts DEF IInv, AllGathered, ControlInv
  <2>3. "empty" \notin Top.parts /\ "broken" \notin Top.parts
    BY <2>2, TopParts DEF IInv, Usable
  <2>4. PreparedAs \in Usable BY <2>3 DEF PreparedAs, Usable
  <2>5. m_ready_items[Top.item] \in Usable \union {"absent"}
    BY <2>2 DEF PreparedInv
  <2> QED BY <1>2, <2>1, <2>4, <2>5
<1>7. CASE \/ NextRequest \/ FinishRequest \/ ProcessReturn \/ AnswerAvailable
           \/ AnswerUnreachable \/ AnswerAlreadyUsing \/ SearchRecipes
           \/ ChooseRecipe \/ NextCookbook \/ NoMoreRecipes \/ NeedIngredient
           \/ ImpossibleIngredient \/ SelectOnly \/ PrepareThrows \/ PrepareCrash
  <2>1. m_ready_items' = m_ready_items
    BY <1>7 DEF NextRequest, FinishRequest, ProcessReturn, AnswerAvailable,
       AnswerUnreachable, AnswerAlreadyUsing, SearchRecipes, ChooseRecipe,
       NextCookbook, NoMoreRecipes, NeedIngredient, ImpossibleIngredient,
       SelectOnly, PrepareThrows, PrepareCrash, results
  <2> QED BY <1>1, <2>1
<1> QED BY <1>3, <1>4, <1>5, <1>6, <1>7 DEF Next, Process, MakeReady

\* A recipe is selected where its item is prepared, in the same step.
LEMMA SelectedStep ==
  ASSUME KitchenAssumption, AlwaysPrepares, IInv, PreparedInv, Next
  PROVE  \A i \in Items : Selected(i)' => Ready(i)'
<1>1. EntriesStay BY InvStep
<1>2. ASSUME m_selected_recipes' = m_selected_recipes
      PROVE  \A i \in Items : Selected(i)' => Ready(i)'
  BY <1>1, <1>2 DEF EntriesStay, PreparedInv, Selected, Ready
<1>3. CASE Prepare
  <2>1. /\ AllGathered /\ Select /\ m_selected_recipes \in [Items -> Recipes \union {NoRecipe}]
        /\ m_ready_items' = [m_ready_items EXCEPT ![Top.item] =
                                IF @ = "absent" THEN PreparedAs ELSE @]
    BY <1>3 DEF Prepare, Preparing, IInv, TypeOK
  <2>2. Top.item \in Items BY <2>1, GatheredFacts DEF IInv
  <2>3. PreparedAs # "absent" BY DEF PreparedAs
  <2>4. m_ready_items'[Top.item] # "absent" BY <2>1, <2>2, <2>3 DEF IInv, TypeOK
  <2>5. \A i \in Items : i # Top.item => m_selected_recipes'[i] = m_selected_recipes[i]
    BY <2>1, <2>2 DEF Select
  <2>6. ASSUME NEW i \in Items, Selected(i)' PROVE Ready(i)'
    <3>1. CASE i = Top.item BY <2>4, <3>1 DEF Ready
    <3>2. CASE i # Top.item
      BY <1>1, <2>5, <2>6, <3>2 DEF Selected, Ready, PreparedInv, EntriesStay
    <3> QED BY <3>1, <3>2
  <2> QED BY <2>6
<1>4. CASE Client
  BY <1>2, <1>4 DEF Client, StoreItem, AddRecipe, AddPantry, AddCookbook,
     RequestItem, ClearRequestedItems, WriteItem, ProcessRequestedItems, results
<1>5. ~SelectOnly BY DEF SelectOnly, PreparedInv, NoMode
<1>6. ~PrepareThrows /\ ~PrepareCrash BY NoCrash
<1>7. CASE \/ NextRequest \/ FinishRequest \/ ProcessReturn \/ AnswerAvailable
           \/ AnswerUnreachable \/ AnswerAlreadyUsing \/ SearchRecipes
           \/ ChooseRecipe \/ NextCookbook \/ NoMoreRecipes \/ NeedIngredient
           \/ ImpossibleIngredient \/ GotIngredient \/ TakeFromPantry
  BY <1>2, <1>7 DEF NextRequest, FinishRequest, ProcessReturn, AnswerAvailable,
     AnswerUnreachable, AnswerAlreadyUsing, SearchRecipes, ChooseRecipe,
     NextCookbook, NoMoreRecipes, NeedIngredient, ImpossibleIngredient,
     GotIngredient, TakeFromPantry, results
<1> QED BY <1>3, <1>4, <1>5, <1>6, <1>7 DEF Next, Process, MakeReady

\* Only a write and prepare() could crash.
LEMMA PcStep ==
  ASSUME KitchenAssumption, AlwaysPrepares, IInv, PreparedInv, Next
  PROVE  pc' # "crashed"
<1>1. ASSUME NEW i \in Requests, WriteItem(i) PROVE pc' # "crashed"
  BY <1>1, NoCrash DEF KitchenAssumption
<1>2. CASE Client
  BY <1>1, <1>2 DEF PreparedInv, Client, StoreItem, AddRecipe, AddPantry, AddCookbook,
     RequestItem, ClearRequestedItems, ProcessRequestedItems
<1>3. CASE NextRequest \/ FinishRequest \/ ProcessReturn
  BY <1>3 DEF NextRequest, FinishRequest, ProcessReturn
<1>4. CASE \/ AnswerAvailable \/ AnswerUnreachable \/ AnswerAlreadyUsing
           \/ TakeFromPantry \/ NoMoreRecipes \/ SelectOnly \/ Prepare
  BY <1>4 DEF AnswerAvailable, AnswerUnreachable, AnswerAlreadyUsing,
     TakeFromPantry, NoMoreRecipes, SelectOnly, Prepare, Answer
<1>5. CASE \/ SearchRecipes \/ ChooseRecipe \/ NextCookbook \/ NeedIngredient
           \/ ImpossibleIngredient \/ GotIngredient
  BY <1>5 DEF SearchRecipes, ChooseRecipe, NextCookbook, NeedIngredient,
     ImpossibleIngredient, GotIngredient
<1>6. ~PrepareThrows /\ ~PrepareCrash BY NoCrash
<1> QED BY <1>2, <1>3, <1>4, <1>5, <1>6 DEF Next, Process, MakeReady

\* Together: everything prepared stays so.
LEMMA PreparedStep ==
  ASSUME KitchenAssumption, AlwaysPrepares, IInv, PreparedInv, Next
  PROVE  PreparedInv'
<1>1. mode' = NoMode BY ModeStep DEF AlwaysPrepares, PreparedInv
<1> QED
  BY <1>1, PartsStep, UsableStep, SelectedStep, PcStep DEF PreparedInv

\* So it is in every state such a use of the kitchen reaches.
LEMMA AllPrepared ==
  ASSUME AlwaysPrepares
  PROVE  Spec => []PreparedInv
<1>1. Init => PreparedInv BY EmptySeq DEF Init, PreparedInv, Selected
<1>2. IInv /\ PreparedInv /\ [Next]_vars => PreparedInv'
  <2>1. ASSUME PreparedInv, UNCHANGED vars PROVE PreparedInv'
    BY <2>1 DEF PreparedInv, Ready, Selected, vars, others, results, processing
  <2> QED BY <2>1, KitchenAssumption, PreparedStep
<1> QED BY <1>1, <1>2, Invariance, PTL DEF Spec

\* No call goes through a null item, while nothing is mocked, items are
\* always prepared and no prepare() throws.
THEOREM CrashFree ==
  ASSUME AlwaysPrepares
  PROVE  Spec => []NeverCrashes
<1>1. PreparedInv => NeverCrashes BY DEF PreparedInv, NeverCrashes
<1> QED BY <1>1, AllPrepared, PTL

-----------------------------------------------------------------------------
(* Requests that are dropped.                                              *)

\* Every step of the search works towards the request it was begun for.
LEMMA AskedStep ==
  ASSUME KitchenAssumption, IInv, AskedInv, Next
  PROVE  AskedInv'
<1>1. CASE Client
  <2>1. pc = "idle" /\ stack = <<>> /\ pc' \in {"idle", "request", "crashed"} /\ stack' = stack
    BY <1>1 DEF IInv, ControlInv, Client, StoreItem, AddRecipe, AddPantry,
       AddCookbook, RequestItem, ClearRequestedItems, WriteItem,
       ProcessRequestedItems, call
  <2> QED BY <2>1 DEF AskedInv
<1>2. CASE NextRequest BY <1>2 DEF NextRequest, IInv, ControlInv, AskedInv
<1>3. CASE FinishRequest \/ ProcessReturn \/ PrepareThrows \/ PrepareCrash
  BY <1>3 DEF FinishRequest, ProcessReturn, PrepareThrows, PrepareCrash,
     LeaveCall, AskedInv
<1>4. CASE AnswerAvailable \/ AnswerUnreachable \/ AnswerAlreadyUsing
  BY <1>4 DEF AnswerAvailable, AnswerUnreachable, AnswerAlreadyUsing,
     NeedsRecipe, Answer, others, results, processing, AskedInv, Available,
     Selected, Ready
<1>5. CASE TakeFromPantry
  <2>1. PICK p \in DOMAIN m_all_pantries :
              StockedIn(p, arg) /\ m_ready_items' = Taken(p)
    BY <1>5 DEF TakeFromPantry
  <2>2. arg \in Items BY <1>5 DEF TakeFromPantry, IInv, ControlInv
  <2>3. m_ready_items'[arg] # "absent"
    BY <2>1, <2>2 DEF StockedIn, Taken, IInv, TypeOK
  <2> QED
    BY <1>5, <2>3 DEF TakeFromPantry, Answer, others, processing, AskedInv,
       Available, Ready
<1>6. CASE SearchRecipes
  <2>1. stack' = Append(stack, NewFrame(arg)) /\ pc = "enter" /\ pc' = "choose"
        /\ target' = target /\ stack \in Seq(Frame)
    BY <1>6 DEF SearchRecipes, NeedsRecipe, others, processing, IInv, TypeOK
  <2>2. NewFrame(arg) \in Frame
    BY <1>6 DEF SearchRecipes, NeedsRecipe, IInv, ControlInv, NewFrame, Frame
  <2>3. /\ Len(stack) \in Nat
        /\ \A k \in 1 .. Len(stack) : stack'[k] = stack[k]
        /\ stack'[Len(stack) + 1] = NewFrame(arg)
    BY <2>1, <2>2, AppendProperties, LenProperties
  <2>4. stack'[1].item = target
    <3>1. CASE stack = <<>>
      <4>1. Len(stack) = 0 BY <3>1
      <4>2. stack'[1] = NewFrame(arg) BY <2>3, <4>1
      <4> QED BY <2>1, <3>1, <4>2 DEF NewFrame, AskedInv
    <3>2. CASE stack # <<>>
      <4>1. Len(stack) # 0 BY <2>1, <3>2, EmptySeq
      <4> QED BY <2>3, <3>2, <4>1 DEF AskedInv
    <3> QED BY <3>1, <3>2
  <2> QED BY <2>1, <2>4 DEF AskedInv
<1>7. ASSUME stack # <<>>, target' = target, NEW f \in Frame, f.item = Top.item,
             SetTop(f), pc' \in {"choose", "gather"}
      PROVE  AskedInv'
  <2>1. Len(stack) \in Nat \ {0} BY <1>7, EmptySeq DEF IInv, TypeOK
  <2>2. stack'[1] = IF Len(stack) = 1 THEN f ELSE stack[1]
    BY <1>7, <2>1, SetTopProperties DEF SetTop, IInv, TypeOK
  <2>3. stack[1].item = target BY <1>7 DEF AskedInv
  <2>4. stack'[1].item = target BY <1>7, <2>2, <2>3 DEF Top
  <2> QED BY <1>7, <2>4 DEF AskedInv
<1>8. CASE ChooseRecipe
  <2>1. stack # <<>> BY <1>8 DEF ChooseRecipe, IInv, ControlInv
  <2>2. Top \in Frame /\ Top.book \in 1 .. Len(m_all_cookbooks)
    BY <2>1, TopFacts DEF IInv
  <2>3. Untried \subseteq Recipes BY <2>2, BookType DEF Untried, IInv
  <2>4. PICK r \in Untried :
          SetTop([Top EXCEPT !.recipe = r, !.tried = @ \union {r}, !.pos = 1, !.parts = {}])
    BY <1>8 DEF ChooseRecipe
  <2> DEFINE f == [Top EXCEPT !.recipe = r, !.tried = @ \union {r}, !.pos = 1, !.parts = {}]
  <2>5. f \in Frame /\ f.item = Top.item BY <2>2, <2>3, FrameTypes DEF Frame
  <2>6. target' = target /\ pc' = "gather"
    BY <1>8 DEF ChooseRecipe, others, processing
  <2> QED BY <1>7, <2>1, <2>4, <2>5, <2>6
<1>9. CASE NextCookbook
  <2>1. /\ stack # <<>> /\ SetTop(NextBook(Top))
        /\ target' = target /\ pc' = "choose"
    BY <1>9 DEF NextCookbook, IInv, ControlInv, others, processing
  <2>2. Top \in Frame BY <2>1, TopFacts DEF IInv
  <2>3. NextBook(Top) \in Frame /\ NextBook(Top).item = Top.item
    BY <2>2, FrameTypes DEF NextBook, Frame
  <2> QED BY <1>7, <2>1, <2>3
<1>10. CASE NeedIngredient
  BY <1>10 DEF NeedIngredient, IInv, ControlInv, others, processing, AskedInv
<1>11. CASE ImpossibleIngredient
  BY <1>11 DEF ImpossibleIngredient, others, processing, AskedInv
<1>12. CASE GotIngredient
  <2> DEFINE i == Ingredients[Top.pos]
             entry == IF Ready(i) THEN m_ready_items[i] ELSE "empty"
             f == [Top EXCEPT !.pos = @ + 1, !.parts = @ \union {entry}]
  <2>1. /\ pc = "answer" /\ stack # <<>> /\ answer /\ SetTop(f)
        /\ target' = target /\ pc' = "gather"
    BY <1>12 DEF GotIngredient, others, processing
  <2>2. /\ Top \in Frame /\ Ingredients \in Seq(Items)
    BY <2>1, TopFacts DEF IInv
  <2>3. Top.pos \in 1 .. Len(Ingredients)
    BY <2>1, <2>2, LenProperties DEF IInv, TopInv, Frame
  <2>4. i \in Items BY <2>2, <2>3, ElementOfSeq
  <2>5. entry \in Prepared BY <2>4 DEF IInv, TypeOK, Ready, Readiness, Prepared
  <2>6. f \in Frame /\ f.item = Top.item BY <2>2, <2>5, FrameTypes DEF Frame
  <2> QED BY <1>7, <2>1, <2>6
<1>13. ASSUME stack # <<>>, stack' = Below, target' = target, pc' = "answer",
              answer' => \A i \in Items : i = Top.item => Available(i)'
       PROVE  AskedInv'
  <2>1. /\ Len(stack) \in Nat \ {0} /\ Len(Below) = Len(stack) - 1
        /\ \A k \in 1 .. Len(stack) - 1 : Below[k] = stack[k]
        /\ Below \in Seq(Frame)
    BY <1>13, PopProperties DEF Below, IInv, TypeOK
  <2>2. stack[1].item = target BY <1>13 DEF AskedInv
  <2>3. CASE Len(stack) = 1
    <3>1. stack' = <<>> BY <1>13, <2>1, <2>3, EmptySeq
    <3>2. Top.item = target BY <2>2, <2>3 DEF Top
    <3>3. target \in Items BY <3>2, <1>13, TopType DEF IInv, TypeOK, Frame
    <3>4. PICK t \in Items : t = target BY <3>3
    <3>5. answer' => Available(t)' BY <1>13, <3>2, <3>4
    <3> QED BY <1>13, <3>1, <3>4, <3>5 DEF AskedInv, Available, Selected, Ready
  <2>4. CASE Len(stack) # 1
    <3>1. stack'[1] = stack[1] /\ Len(stack') # 0 BY <1>13, <2>1, <2>4
    <3>2. stack' # <<>> BY <3>1
    <3> QED BY <1>13, <2>2, <3>1, <3>2 DEF AskedInv
  <2> QED BY <2>3, <2>4
<1>14. CASE NoMoreRecipes
  BY <1>13, <1>14 DEF NoMoreRecipes, Answer, IInv, ControlInv, others, processing
<1>15. CASE SelectOnly \/ Prepare
  <2>1. /\ AllGathered /\ Select /\ stack' = Below /\ target' = target
        /\ pc' = "answer" /\ stack # <<>>
    BY <1>15 DEF SelectOnly, Prepare, Preparing, Answer, AllGathered, IInv,
       ControlInv, others, processing
  <2>2. Top.recipe \in Recipes BY <2>1, GatheredFacts DEF IInv
  <2>3. ASSUME NEW i \in Items, i = Top.item PROVE Available(i)'
    <3>1. m_selected_recipes'[i] = Top.recipe
      BY <2>1, <2>3 DEF Select, IInv, TypeOK
    <3> QED BY <2>2, <3>1 DEF Available, Selected, KitchenAssumption
  <2> QED BY <1>13, <2>1, <2>3
<1> QED
  BY <1>1, <1>2, <1>3, <1>4, <1>5, <1>6, <1>8, <1>9, <1>10, <1>11, <1>12, <1>14,
     <1>15
  DEF Next, Process, MakeReady

\* In the same uses, a request that process_requested_items() drops can be
\* fetched and read.
THEOREM DroppedAreReady ==
  ASSUME AlwaysPrepares
  PROVE  Spec => DroppedRequestsAreFetchable
<1> DEFINE Fetchable == \A i \in m_requested_items \ m_requested_items' :
                           pc # "idle" => m_ready_items'[i] \in Usable
<1>1. Init => AskedInv BY DEF Init, AskedInv
<1>2. IInv /\ AskedInv /\ [Next]_vars => AskedInv'
  <2>1. ASSUME AskedInv, UNCHANGED vars PROVE AskedInv'
    BY <2>1 DEF AskedInv, Available, Ready, Selected, vars, others, results,
       processing
  <2> QED BY <2>1, KitchenAssumption, AskedStep
<1>3. IInv /\ AskedInv /\ PreparedInv /\ [Next]_vars => [Fetchable]_vars
  <2> SUFFICES ASSUME IInv, AskedInv, PreparedInv, Next, pc # "idle",
                      NEW i \in m_requested_items \ m_requested_items'
               PROVE  m_ready_items'[i] \in Usable
    OBVIOUS
  <2>1. FinishRequest
    <3>1. ~Client
      BY DEF Client, StoreItem, AddRecipe, AddPantry, AddCookbook, RequestItem,
         ClearRequestedItems, WriteItem, ProcessRequestedItems
    <3>2. ~MakeReady BY SearchKeepsRequests DEF requests
    <3>3. ~NextRequest /\ ~ProcessReturn BY DEF NextRequest, ProcessReturn, requests
    <3> QED BY <3>1, <3>2, <3>3 DEF Next, Process
  <2>2. /\ pc = "answer" /\ stack = <<>> /\ m_ready_items' = m_ready_items
        /\ i \in Erase
    BY <2>1 DEF FinishRequest, results
  <2>3. i = target /\ Available(i) BY <2>2 DEF Erase, AskedInv
  <2>4. i \in Items BY DEF IInv, TypeOK
  <2>5. Ready(i) BY <2>3, <2>4 DEF Available, PreparedInv, NoMode
  <2> QED BY <2>2, <2>4, <2>5 DEF PreparedInv, Ready
<1> QED
  BY <1>1, <1>2, <1>3, Invariance, AllPrepared, PTL DEF Spec,
     DroppedRequestsAreFetchable

-----------------------------------------------------------------------------
(* Items reported unreachable.                                             *)

\* Recipes without circles: every recipe needs only items of a lower rank
\* than the one it makes.
Ranks == {rank \in [Items -> Nat] :
              \A r \in Recipes : \A n \in D!Needs(r) : rank[n] < rank[ResultOf[r]]}

\* What stock and recipes can make, and the recipes it does not suffice for.
Der == D!Derivable({i \in Items : Stocked(i)}, Book)
Barren(r) == ~(D!Needs(r) \subseteq Der)

\* What was made can be derived, and what is unreachable cannot.
ReachedInv ==
    /\ Obtained \subseteq Der
    /\ m_unreachable_items \intersect Der = {}

\* An item that was refused cannot be derived.
Answered == IF stack = <<>> THEN target ELSE Ingredients[Top.pos]
RefusedInv == pc = "answer" /\ ~answer => Answered \notin Der

\* An item that is marked as being used is in the making, made, or was
\* searched for in vain.
InCall == pc \notin {"idle", "request", "crashed"}
OnStack(i) == \E k \in 1 .. Len(stack) : stack[k].item = i
UsedInv == InCall => \A i \in already_using : OnStack(i) \/ Available(i) \/ i \notin Der

\* The recipes a frame has left behind do not suffice: those of earlier
\* cookbooks, and those it tried except the one it follows.
LeftBehind(f, following) ==
    /\ \A c \in 1 .. f.book - 1 : \A r \in m_all_cookbooks[c] :
          ResultOf[r] = f.item => Barren(r)
    /\ \A r \in f.tried : r # f.recipe \/ ~following => Barren(r)
FramesInv ==
    \A k \in 1 .. Len(stack) : LeftBehind(stack[k], k # Len(stack) \/ pc # "choose")

\* The ranks of the items in the making decrease up the stack.
RanksInv(rank) ==
    \A k, l \in 1 .. Len(stack) : k < l => rank[stack[l].item] < rank[stack[k].item]

SearchInv(rank) ==
    ReachedInv /\ RefusedInv /\ UsedInv /\ FramesInv /\ RanksInv(rank) /\ AskedInv

-----------------------------------------------------------------------------
\* More stock that could be derived anyway makes nothing more derivable.
LEMMA DerivableClosed ==
  ASSUME NEW from, NEW using, NEW more \in SUBSET D!Derivable(from, using)
  PROVE  D!Derivable(from \union more, using) = D!Derivable(from, using)
BY DEF D!Derivable, D!Closed

\* More stock and recipes make no less derivable.
LEMMA DerivableMore ==
  ASSUME NEW from, NEW using, NEW from2, NEW using2,
         from \subseteq from2, using \subseteq using2
  PROVE  D!Derivable(from, using) \subseteq D!Derivable(from2, using2)
BY DEF D!Derivable, D!Closed

\* What is stocked, or made of derivable items, can be derived.
LEMMA DerFacts ==
  ASSUME KitchenAssumption, TypeOK
  PROVE  /\ Stock \subseteq Der /\ Der \subseteq Items
         /\ \A r \in Book : ~Barren(r) => ResultOf[r] \in Der
<1>1. Stock \subseteq Der /\ Der \subseteq Items
  BY DEF Stock, Der, D!Derivable, D!Closed
<1>2. ASSUME NEW r \in Book, ~Barren(r) PROVE ResultOf[r] \in Der
  <2>1. ResultOf[r] \in Items BY BookType DEF KitchenAssumption
  <2>2. ASSUME NEW S \in SUBSET Items,
               D!Closed(S, {i \in Items : Stocked(i)}, Book)
        PROVE  ResultOf[r] \in S
    <3>1. Der \subseteq S BY <2>2 DEF Der, D!Derivable
    <3> QED BY <1>2, <2>2, <3>1 DEF Barren, D!Closed
  <2> QED BY <2>1, <2>2 DEF Der, D!Derivable
<1> QED BY <1>1, <1>2

\* An item that is not stocked and whose recipes all fail cannot be derived:
\* the derivable items without it are closed.
LEMMA AllBarren ==
  ASSUME KitchenAssumption, TypeOK, NEW i \in Items, ~Stocked(i),
         \A r \in Book : ResultOf[r] = i => Barren(r)
  PROVE  i \notin Der
<1> DEFINE S == Der \ {i}
<1>1. S \in SUBSET Items BY DerFacts
<1>2. {n \in Items : Stocked(n)} \subseteq S BY DerFacts DEF Stock
<1>3. ASSUME NEW r \in Book, D!Needs(r) \subseteq S PROVE ResultOf[r] \in S
  <2>1. ~Barren(r) BY <1>3 DEF Barren
  <2> QED BY <2>1, DerFacts
<1>4. D!Closed(S, {n \in Items : Stocked(n)}, Book) BY <1>2, <1>3 DEF D!Closed
<1> QED BY <1>1, <1>4 DEF Der, D!Derivable

\* During a call the derivable items stay what they are: prepare_as_reader()
\* only stores what was obtained.
LEMMA DerStays ==
  ASSUME KitchenAssumption, IInv, ReachedInv, Process
  PROVE  m_all_cookbooks' = m_all_cookbooks /\ Der' = Der
<1>1. CASE Prepare \/ PrepareThrows
  <2>1. Preparing /\ ~PrepareCrashes /\ Stash /\ m_all_cookbooks' = m_all_cookbooks
    BY <1>1 DEF Prepare, PrepareThrows
  <2>2. PICK kept \in SUBSET Obtained : Stock' = Stock \union kept
    BY <2>1, StashKeepsObtained DEF IInv
  <2>3. kept \in SUBSET D!Derivable(Stock, Book) BY DEF ReachedInv, Der, Stock
  <2>4. D!Derivable(Stock \union kept, Book) = D!Derivable(Stock, Book)
    BY <2>3, DerivableClosed
  <2>5. Book' = Book BY <2>1 DEF Book
  <2>6. Der = D!Derivable(Stock, Book) BY DEF Der, Stock
  <2>7. Der' = D!Derivable(Stock', Book') BY DEF Der, Stock
  <2> QED BY <2>1, <2>2, <2>4, <2>5, <2>6, <2>7
<1>2. CASE ~Prepare /\ ~PrepareThrows
  <2>1. m_all_pantries' = m_all_pantries /\ m_all_cookbooks' = m_all_cookbooks
    <3>1. CASE NextRequest \/ FinishRequest \/ ProcessReturn
      BY <3>1 DEF NextRequest, FinishRequest, ProcessReturn, sources
    <3>2. CASE \/ AnswerAvailable \/ AnswerUnreachable \/ AnswerAlreadyUsing
               \/ TakeFromPantry \/ SearchRecipes \/ ChooseRecipe \/ NextCookbook
      BY <3>2 DEF AnswerAvailable, AnswerUnreachable, AnswerAlreadyUsing,
         TakeFromPantry, SearchRecipes, ChooseRecipe, NextCookbook, others, sources
    <3>3. CASE \/ NoMoreRecipes \/ NeedIngredient \/ GotIngredient
               \/ ImpossibleIngredient \/ SelectOnly \/ PrepareCrash
      BY <3>3 DEF NoMoreRecipes, NeedIngredient, GotIngredient,
         ImpossibleIngredient, SelectOnly, PrepareCrash, others, sources
    <3> QED BY <1>2, <3>1, <3>2, <3>3 DEF Process, MakeReady
  <2> QED BY <2>1 DEF Der, Stocked, StockedIn, Book
<1> QED BY <1>1, <1>2

\* What a step obtains can be derived.
LEMMA ObtainedStep ==
  ASSUME KitchenAssumption, IInv, Obtained \subseteq Der, Next
  PROVE  Obtained' \subseteq Der'
<1>1. D!Next BY InvStep, StepRefines
<1>2. /\ Der = D!Derivable(Stock, Book) /\ Der' = D!Derivable(Stock', Book')
  BY DEF Der, Stock
<1>3. ASSUME NEW from \in SUBSET Items, NEW using \in SUBSET Recipes,
             D!Supply(from, using)
      PROVE  Obtained' \subseteq Der'
  <2>1. Obtained' = Obtained /\ Stock \subseteq Stock' /\ Book \subseteq Book'
    BY <1>3 DEF D!Supply, Obtained, Stock
  <2> QED BY <1>2, <2>1, DerivableMore
<1>4. ASSUME NEW i \in Items,
             NEW kept \in SUBSET {n \in Items : m_ready_items[n] \in Usable},
             D!Obtain(i, kept)
      PROVE  Obtained' \subseteq Der'
  <2>1. /\ Obtained' = Obtained \union {i} /\ Stock' = Stock \union kept
        /\ Book' = Book
        /\ i \in Stock \/ \E r \in Book : /\ ResultOf[r] = i
                                          /\ D!Needs(r) \subseteq Obtained \union Stock
    BY <1>4 DEF D!Obtain, D!Obtainable, Obtained, Stock
  <2>2. kept \subseteq Der BY DEF Obtained
  <2>3. Der' = Der BY <1>2, <2>1, <2>2, DerivableClosed
  <2>4. i \in Der BY <2>1, DerFacts DEF Barren, IInv
  <2> QED BY <2>1, <2>3, <2>4
<1> QED BY <1>1, <1>3, <1>4 DEF D!Next

\* The steps of a search, by what they do to the stack.
LEMMA StackMoves ==
  ASSUME KitchenAssumption, IInv, MakeReady
  PROVE  \/ stack' = stack
         \/ SearchRecipes
         \/ stack # <<>> /\ \E f \in Frame : f.item = Top.item /\ SetTop(f)
         \/ stack # <<>> /\ stack' = Below /\ (NoMoreRecipes \/ SelectOnly \/ Prepare)
         \/ stack' = <<>> /\ pc' \in {"idle", "crashed"}
<1>1. CASE \/ AnswerAvailable \/ AnswerUnreachable \/ TakeFromPantry
           \/ AnswerAlreadyUsing \/ NeedIngredient \/ ImpossibleIngredient
  BY <1>1 DEF AnswerAvailable, AnswerUnreachable, TakeFromPantry,
     AnswerAlreadyUsing, NeedIngredient, ImpossibleIngredient
<1>2. CASE ChooseRecipe
  <2>1. stack # <<>> BY <1>2 DEF ChooseRecipe, IInv, ControlInv
  <2>2. Top \in Frame /\ Top.book \in 1 .. Len(m_all_cookbooks)
    BY <2>1, TopFacts DEF IInv
  <2>3. Untried \subseteq Recipes BY <2>2, BookType DEF Untried, IInv
  <2>4. PICK r \in Untried :
          SetTop([Top EXCEPT !.recipe = r, !.tried = @ \union {r}, !.pos = 1, !.parts = {}])
    BY <1>2 DEF ChooseRecipe
  <2>5. [Top EXCEPT !.recipe = r, !.tried = @ \union {r}, !.pos = 1, !.parts = {}] \in Frame
    BY <2>2, <2>3, FrameTypes
  <2>6. [Top EXCEPT !.recipe = r, !.tried = @ \union {r},
                    !.pos = 1, !.parts = {}].item = Top.item
    BY <2>2 DEF Frame
  <2> QED BY <2>1, <2>4, <2>5, <2>6
<1>3. CASE NextCookbook
  <2>1. stack # <<>> /\ SetTop(NextBook(Top))
    BY <1>3 DEF NextCookbook, IInv, ControlInv
  <2>2. Top \in Frame BY <2>1, TopFacts DEF IInv
  <2>3. NextBook(Top) \in Frame /\ NextBook(Top).item = Top.item
    BY <2>2, FrameTypes DEF NextBook, Frame
  <2> QED BY <2>1, <2>3
<1>4. CASE GotIngredient
  <2> DEFINE i == Ingredients[Top.pos]
             entry == IF Ready(i) THEN m_ready_items[i] ELSE "empty"
             f == [Top EXCEPT !.pos = @ + 1, !.parts = @ \union {entry}]
  <2>1. pc = "answer" /\ stack # <<>> /\ answer /\ SetTop(f)
    BY <1>4 DEF GotIngredient
  <2>2. Top \in Frame /\ Ingredients \in Seq(Items) BY <2>1, TopFacts DEF IInv
  <2>3. Top.pos \in 1 .. Len(Ingredients)
    BY <2>1, <2>2, LenProperties DEF IInv, TopInv, Frame
  <2>4. i \in Items BY <2>2, <2>3, ElementOfSeq
  <2>5. entry \in Prepared BY <2>4 DEF IInv, TypeOK, Ready, Readiness, Prepared
  <2>6. f \in Frame /\ f.item = Top.item BY <2>2, <2>5, FrameTypes DEF Frame
  <2> QED BY <2>1, <2>6
<1>5. CASE NoMoreRecipes \/ SelectOnly \/ Prepare
  BY <1>5 DEF NoMoreRecipes, SelectOnly, Prepare, Preparing, AllGathered, IInv,
     ControlInv
<1>6. CASE PrepareThrows \/ PrepareCrash
  BY <1>6 DEF PrepareThrows, PrepareCrash, LeaveCall
<1> QED BY <1>1, <1>2, <1>3, <1>4, <1>5, <1>6 DEF MakeReady

\* What the invariants say of the item about to be looked for.
LEMMA EnteredItem ==
  ASSUME KitchenAssumption, IInv, AskedInv, pc = "enter"
  PROVE  arg = Answered /\ arg \in Items
BY DEF AskedInv, IInv, TopInv, ControlInv, WaitingFor, Answered, Ingredients

\* Without circles it ranks below everything in the making.
LEMMA EnteredIsLower ==
  ASSUME KitchenAssumption, IInv, NEW rank \in Ranks, RanksInv(rank), pc = "enter"
  PROVE  \A k \in 1 .. Len(stack) : rank[arg] < rank[stack[k].item]
<1> SUFFICES ASSUME NEW k \in 1 .. Len(stack)
             PROVE  rank[arg] < rank[stack[k].item]
  OBVIOUS
<1>1. stack # <<>> /\ Len(stack) \in Nat \ {0}
  BY EmptySeq, LenProperties DEF IInv, TypeOK
<1>2. Top \in Frame /\ Following(Top) /\ Top.recipe \in Recipes /\ WaitingFor(Top, arg)
  BY <1>1, TopFacts DEF IInv, TopInv
<1>3. arg \in Items BY DEF IInv, ControlInv
<1>4. /\ Top.pos \in 1 .. Len(IngredientsOf[Top.recipe])
      /\ arg = IngredientsOf[Top.recipe][Top.pos]
  <2>1. Top.pos \in Nat \ {0} BY <1>2 DEF Frame
  <2>2. Len(IngredientsOf[Top.recipe]) \in Nat
    BY <1>2, LenProperties DEF KitchenAssumption
  <2> QED BY <1>2, <2>1, <2>2 DEF WaitingFor
<1>5. arg \in D!Needs(Top.recipe) BY <1>2, <1>3, <1>4, NeedsFacts
<1>6. rank[arg] < rank[Top.item] BY <1>2, <1>5 DEF Ranks, Following
<1>7. stack[k].item \in Items /\ Top.item \in Items
  BY <1>2, StackItems DEF IInv, Frame
<1>8. /\ rank[arg] \in Nat /\ rank[Top.item] \in Nat /\ rank[stack[k].item] \in Nat
  BY <1>3, <1>7 DEF Ranks
<1>9. CASE k = Len(stack) BY <1>6, <1>9 DEF Top
<1>10. CASE k # Len(stack)
  <2>1. rank[Top.item] < rank[stack[k].item] BY <1>1, <1>10 DEF RanksInv, Top
  <2> QED BY <1>6, <1>8, <2>1
<1> QED BY <1>9, <1>10

\* The ranks keep decreasing up the stack.
LEMMA RanksStep ==
  ASSUME KitchenAssumption, IInv, NEW rank \in Ranks, RanksInv(rank), Next
  PROVE  RanksInv(rank)'
<1>1. stack \in Seq(Frame) /\ Len(stack) \in Nat BY LenProperties DEF IInv, TypeOK
<1>2. CASE stack' = stack BY <1>2 DEF RanksInv
<1>3. CASE stack' = <<>> BY <1>3, EmptySeq DEF RanksInv
<1>4. CASE SearchRecipes
  <2>1. stack' = Append(stack, NewFrame(arg)) /\ pc = "enter"
    BY <1>4 DEF SearchRecipes, NeedsRecipe
  <2>2. NewFrame(arg) \in Frame
    BY <2>1 DEF IInv, ControlInv, NewFrame, Frame
  <2>3. /\ Len(stack') = Len(stack) + 1
        /\ \A k \in 1 .. Len(stack) : stack'[k] = stack[k]
        /\ stack'[Len(stack) + 1] = NewFrame(arg)
    BY <1>1, <2>1, <2>2, AppendProperties
  <2>4. \A k \in 1 .. Len(stack) : rank[arg] < rank[stack[k].item]
    BY <2>1, EnteredIsLower
  <2> SUFFICES ASSUME NEW k \in 1 .. Len(stack'), NEW l \in 1 .. Len(stack'), k < l
               PROVE  rank[stack'[l].item] < rank[stack'[k].item]
    BY DEF RanksInv
  <2>5. k \in 1 .. Len(stack) /\ stack'[k] = stack[k] BY <1>1, <2>3
  <2>6. CASE l = Len(stack) + 1 BY <2>3, <2>4, <2>5, <2>6 DEF NewFrame
  <2>7. CASE l # Len(stack) + 1 BY <1>1, <2>3, <2>5, <2>7 DEF RanksInv
  <2> QED BY <2>6, <2>7
<1>5. CASE stack # <<>> /\ \E f \in Frame : f.item = Top.item /\ SetTop(f)
  <2>1. PICK f \in Frame : f.item = Top.item /\ SetTop(f) BY <1>5
  <2>2. /\ Len(stack') = Len(stack)
        /\ \A k \in 1 .. Len(stack) : stack'[k] = IF k = Len(stack) THEN f ELSE stack[k]
    BY <1>1, <1>5, <2>1, SetTopProperties DEF SetTop
  <2>3. \A k \in 1 .. Len(stack) : stack'[k].item = stack[k].item
    BY <2>1, <2>2 DEF Top
  <2> QED BY <2>2, <2>3 DEF RanksInv
<1>6. CASE stack # <<>> /\ stack' = Below
  <2>1. /\ Len(Below) = Len(stack) - 1
        /\ \A k \in 1 .. Len(stack) - 1 : Below[k] = stack[k]
    BY <1>1, <1>6, PopProperties DEF Below
  <2> QED BY <1>1, <1>6, <2>1 DEF RanksInv
<1>7. CASE Client \/ NextRequest \/ FinishRequest \/ ProcessReturn
  BY <1>2, <1>3, <1>7 DEF Client, StoreItem, AddRecipe, AddPantry, AddCookbook,
     RequestItem, ClearRequestedItems, WriteItem, ProcessRequestedItems, call,
     NextRequest, FinishRequest, ProcessReturn, LeaveCall
<1> QED BY <1>2, <1>3, <1>4, <1>5, <1>6, <1>7, StackMoves DEF Next, Process

\* The item of a frame that has no more recipes cannot be derived.
LEMMA RefusedTop ==
  ASSUME KitchenAssumption, IInv, FramesInv, NoMoreRecipes
  PROVE  Top.item \notin Der
<1>1. /\ pc = "choose" /\ Untried = {} /\ Top.book = Len(m_all_cookbooks)
      /\ stack # <<>>
  BY DEF NoMoreRecipes, IInv, ControlInv
<1>2. /\ Top \in Frame /\ Len(stack) \in Nat \ {0} /\ InTheMaking(Top.item)
      /\ Top.item \in Items
  BY <1>1, TopFacts DEF IInv, Frame
<1>3. LeftBehind(Top, FALSE)
  <2>1. Len(stack) \in 1 .. Len(stack) BY <1>2
  <2> QED BY <1>1, <2>1 DEF FramesInv, Top
<1>4. ASSUME NEW r \in Book, ResultOf[r] = Top.item PROVE Barren(r)
  <2>1. DOMAIN m_all_cookbooks = 1 .. Len(m_all_cookbooks) /\ Len(m_all_cookbooks) \in Nat
    BY LenProperties DEF IInv, TypeOK
  <2>2. PICK c \in 1 .. Len(m_all_cookbooks) : r \in m_all_cookbooks[c]
    BY <2>1 DEF Book
  <2>3. CASE c = Top.book
    <3>1. r \in Top.tried BY <1>1, <1>4, <2>2, <2>3 DEF Untried
    <3> QED BY <1>3, <3>1 DEF LeftBehind
  <2>4. CASE c # Top.book
    <3>1. PICK n \in Nat : n = Len(m_all_cookbooks) /\ n = Top.book BY <1>1, <2>1
    <3>2. c \in 1 .. n /\ c # n BY <2>4, <3>1
    <3>3. c \in 1 .. n - 1 BY <3>2
    <3>4. c \in 1 .. Top.book - 1 BY <3>1, <3>3
    <3> QED BY <1>3, <1>4, <2>2, <3>4 DEF LeftBehind
  <2> QED BY <2>3, <2>4
<1> QED BY <1>2, <1>4, AllBarren DEF IInv, InTheMaking

\* A step that refuses an item refuses one that cannot be derived.
LEMMA RefusedStep ==
  ASSUME KitchenAssumption, IInv, NEW rank \in Ranks, SearchInv(rank), Next
  PROVE  RefusedInv'
<1> SUFFICES ASSUME pc' = "answer", ~answer'
             PROVE  Answered' \notin Der'
  BY DEF RefusedInv
<1>1. Process /\ (AnswerUnreachable \/ AnswerAlreadyUsing \/ NoMoreRecipes)
  <2>1. ~Client
    BY DEF Client, StoreItem, AddRecipe, AddPantry, AddCookbook, RequestItem,
       ClearRequestedItems, WriteItem, ProcessRequestedItems
  <2>2. ~NextRequest /\ ~FinishRequest /\ ~ProcessReturn
    BY DEF NextRequest, FinishRequest, ProcessReturn
  <2>3. ~AnswerAvailable /\ ~TakeFromPantry /\ ~SearchRecipes
    BY DEF AnswerAvailable, TakeFromPantry, SearchRecipes, Answer
  <2>4. ~ChooseRecipe /\ ~NextCookbook /\ ~NeedIngredient
    BY DEF ChooseRecipe, NextCookbook, NeedIngredient
  <2>5. ~GotIngredient /\ ~ImpossibleIngredient
    BY DEF GotIngredient, ImpossibleIngredient
  <2>6. ~SelectOnly /\ ~Prepare /\ ~PrepareThrows /\ ~PrepareCrash
    BY DEF SelectOnly, Prepare, PrepareThrows, PrepareCrash, Answer
  <2> QED BY <2>1, <2>2, <2>3, <2>4, <2>5, <2>6 DEF Next, Process, MakeReady
<1>2. Der' = Der BY <1>1, DerStays DEF SearchInv
<1>3. CASE AnswerUnreachable \/ AnswerAlreadyUsing
  <2>1. stack' = stack /\ target' = target /\ pc = "enter" /\ ~Available(arg)
    BY <1>3 DEF AnswerUnreachable, AnswerAlreadyUsing, NeedsRecipe, others, processing
  <2>2. arg = Answered /\ arg \in Items BY <2>1, EnteredItem DEF SearchInv
  <2>3. Answered' = arg BY <2>1, <2>2 DEF Answered, Top, Ingredients
  <2>4. CASE AnswerUnreachable
    BY <1>2, <2>3, <2>4 DEF AnswerUnreachable, SearchInv, ReachedInv
  <2>5. CASE AnswerAlreadyUsing
    <3>1. arg \in already_using BY <2>5 DEF AnswerAlreadyUsing
    <3>2. ASSUME NEW k \in 1 .. Len(stack), stack[k].item = arg PROVE FALSE
      <4>1. rank[arg] < rank[arg] BY <2>1, <3>2, EnteredIsLower DEF SearchInv
      <4>2. rank[arg] \in Nat BY <2>2 DEF Ranks
      <4> QED BY <4>1, <4>2
    <3>3. arg \notin Der
      BY <2>1, <3>1, <3>2 DEF SearchInv, UsedInv, InCall, OnStack
    <3> QED BY <1>2, <2>3, <3>3
  <2> QED BY <1>3, <2>4, <2>5
<1>4. CASE NoMoreRecipes
  <2>1. /\ pc = "choose" /\ Untried = {} /\ Top.book = Len(m_all_cookbooks)
        /\ stack' = Below /\ target' = target /\ stack # <<>>
    BY <1>4 DEF NoMoreRecipes, IInv, ControlInv, others, processing
  <2>2. Len(stack) \in Nat \ {0} BY <2>1, TopFacts DEF IInv
  <2>5. Top.item \notin Der BY <1>4, RefusedTop DEF SearchInv
  <2>6. Answered' = Top.item
    <3>1. /\ Len(Below) = Len(stack) - 1 /\ stack \in Seq(Frame)
          /\ \A k \in 1 .. Len(stack) - 1 : Below[k] = stack[k]
      BY <2>1, PopProperties DEF Below, IInv, TypeOK
    <3>2. CASE Len(stack) = 1
      <4>1. Below = <<>>
        <5>1. Below \in Seq(Frame) BY <2>1, <3>1, PopProperties DEF Below
        <5> QED BY <3>1, <3>2, <5>1, EmptySeq
      <4>2. Top.item = target
        BY <2>1, <3>2 DEF SearchInv, AskedInv, Top
      <4> QED BY <2>1, <4>1, <4>2 DEF Answered
    <3>3. CASE Len(stack) # 1
      <4> DEFINE n == Len(stack) - 1
      <4>1. n \in 1 .. Len(stack) /\ n < Len(stack) /\ n \in 1 .. Len(stack) - 1
            /\ n + 1 = Len(stack)
        <5>1. PICK m \in Nat \ {0} : m = Len(stack) /\ m # 1 BY <2>2, <3>3
        <5>2. n = m - 1 BY <5>1
        <5>3. n \in 1 .. m /\ n < m /\ n \in 1 .. m - 1 /\ n + 1 = m
          BY <5>1, <5>2
        <5> QED BY <5>1, <5>3
      <4>2. WaitingFor(stack[n], stack[n + 1].item)
        BY <4>1 DEF IInv, StackInv
      <4>3. Top.item = IngredientsOf[stack[n].recipe][stack[n].pos]
        BY <4>1, <4>2 DEF WaitingFor, Top
      <4>4. stack'[Len(stack')] = stack[n] /\ stack' # <<>>
        BY <2>1, <3>1, <4>1
      <4> QED BY <4>3, <4>4 DEF Answered, Top, Ingredients
    <3> QED BY <3>2, <3>3
  <2> QED BY <1>2, <2>5, <2>6
<1> QED BY <1>1, <1>3, <1>4

\* What is available stays so until the call ends.
LEMMA AvailableStays ==
  ASSUME KitchenAssumption, IInv, MakeReady, InCall', NEW i \in Items, Available(i)
  PROVE  Available(i)'
<1>1. mode' = mode
  BY SearchKeepsRequests DEF InCall, processing
<1>2. EntriesStay BY InvStep DEF Next, Process
<1> QED BY <1>1, <1>2 DEF Available, EntriesStay, Ready, Selected

\* What is marked as being used is in the making, made, or refused.
LEMMA UsedStep ==
  ASSUME KitchenAssumption, IInv, NEW rank \in Ranks, SearchInv(rank), Next
  PROVE  UsedInv'
<1> SUFFICES ASSUME InCall', NEW i \in already_using'
             PROVE  OnStack(i)' \/ Available(i)' \/ i \notin Der'
  BY DEF UsedInv
<1>1. CASE Client
  BY <1>1 DEF InCall, Client, StoreItem, AddRecipe, AddPantry, AddCookbook,
     RequestItem, ClearRequestedItems, WriteItem, ProcessRequestedItems
<1>2. CASE NextRequest BY <1>2 DEF NextRequest
<1>3. CASE FinishRequest \/ ProcessReturn
  BY <1>3 DEF FinishRequest, ProcessReturn, InCall
<1>4. CASE MakeReady
  <2>1. Der' = Der /\ InCall
    BY <1>4, DerStays, SearchKeepsRequests DEF SearchInv, Process, InCall
  <2>2. stack \in Seq(Frame) /\ Len(stack) \in Nat BY LenProperties DEF IInv, TypeOK
  <2>3. CASE SearchRecipes
    <3>1. /\ already_using' = already_using \union {arg} /\ pc = "enter"
          /\ stack' = Append(stack, NewFrame(arg))
      BY <2>3 DEF SearchRecipes, NeedsRecipe
    <3>2. NewFrame(arg) \in Frame BY <3>1 DEF IInv, ControlInv, NewFrame, Frame
    <3>3. /\ Len(stack') = Len(stack) + 1
          /\ \A k \in 1 .. Len(stack) : stack'[k] = stack[k]
          /\ stack'[Len(stack) + 1] = NewFrame(arg)
      BY <2>2, <3>1, <3>2, AppendProperties
    <3>4. CASE i = arg
      <4>1. Len(stack) + 1 \in 1 .. Len(stack') /\ stack'[Len(stack) + 1].item = i
        BY <2>2, <3>3, <3>4 DEF NewFrame
      <4> QED BY <4>1 DEF OnStack
    <3>5. CASE i # arg
      <4>1. i \in already_using /\ i \in Items BY <3>1, <3>5 DEF IInv, TypeOK
      <4>2. CASE OnStack(i) BY <2>2, <3>3, <4>2 DEF OnStack
      <4>3. CASE Available(i) BY <1>4, <4>1, <4>3, AvailableStays
      <4> QED BY <2>1, <4>1, <4>2, <4>3 DEF SearchInv, UsedInv
    <3> QED BY <3>4, <3>5
  <2>4. CASE ~SearchRecipes
    <3>1. already_using' \subseteq already_using
      <4>1. CASE \/ AnswerAvailable \/ AnswerUnreachable \/ AnswerAlreadyUsing
                 \/ TakeFromPantry \/ ChooseRecipe \/ NextCookbook \/ NoMoreRecipes
        BY <4>1 DEF AnswerAvailable, AnswerUnreachable, AnswerAlreadyUsing,
           TakeFromPantry, ChooseRecipe, NextCookbook, NoMoreRecipes
      <4>2. CASE \/ NeedIngredient \/ GotIngredient \/ ImpossibleIngredient
                 \/ SelectOnly \/ Prepare \/ PrepareThrows \/ PrepareCrash
        BY <4>2 DEF NeedIngredient, GotIngredient, ImpossibleIngredient,
           SelectOnly, Prepare, PrepareThrows, PrepareCrash, LeaveCall
      <4> QED BY <1>4, <2>4, <4>1, <4>2 DEF MakeReady
    <3>2. i \in already_using /\ i \in Items BY <3>1 DEF IInv, TypeOK
    <3>3. CASE Available(i) BY <1>4, <3>2, <3>3, AvailableStays
    <3>4. CASE i \notin Der BY <2>1, <3>4
    <3>5. CASE OnStack(i)
      <4>1. PICK k \in 1 .. Len(stack) : stack[k].item = i BY <3>5 DEF OnStack
      <4>2. CASE stack' = stack BY <3>5, <4>2 DEF OnStack
      <4>3. CASE stack # <<>> /\ \E f \in Frame : f.item = Top.item /\ SetTop(f)
        <5>1. PICK f \in Frame : f.item = Top.item /\ SetTop(f) BY <4>3
        <5>2. /\ Len(stack') = Len(stack)
              /\ stack'[k] = IF k = Len(stack) THEN f ELSE stack[k]
          BY <2>2, <4>3, <5>1, SetTopProperties DEF SetTop
        <5>3. stack'[k].item = i BY <4>1, <5>1, <5>2 DEF Top
        <5> QED BY <5>2, <5>3 DEF OnStack
      <4>4. CASE stack # <<>> /\ stack' = Below /\ (NoMoreRecipes \/ SelectOnly \/ Prepare)
        <5>1. /\ Len(Below) = Len(stack) - 1
              /\ \A l \in 1 .. Len(stack) - 1 : Below[l] = stack[l]
          BY <2>2, <4>4, PopProperties DEF Below
        <5>2. CASE k # Len(stack)
          <6>1. k \in 1 .. Len(stack') /\ stack'[k].item = i
            BY <2>2, <4>1, <4>4, <5>1, <5>2
          <6> QED BY <6>1 DEF OnStack
        <5>3. CASE k = Len(stack) /\ NoMoreRecipes
          <6>1. i = Top.item /\ ~Available(i)
            BY <4>1, <4>4, <5>3, TopFacts DEF Top, IInv, InTheMaking
          <6>2. Top.item \notin Der BY <5>3, RefusedTop DEF SearchInv
          <6> QED BY <2>1, <6>1, <6>2
        <5>4. CASE k = Len(stack) /\ (SelectOnly \/ Prepare)
          <6>1. AllGathered /\ Select /\ i = Top.item
            BY <4>1, <5>4 DEF SelectOnly, Prepare, Preparing, Top
          <6>2. Top.recipe \in Recipes BY <6>1, GatheredFacts DEF IInv
          <6>3. m_selected_recipes'[i] = Top.recipe
            BY <3>2, <6>1 DEF Select, IInv, TypeOK
          <6> QED BY <6>2, <6>3 DEF Available, Selected, KitchenAssumption
        <5> QED BY <4>4, <5>2, <5>3, <5>4
      <4>5. pc' \notin {"idle", "crashed"} BY DEF InCall
      <4> QED BY <1>4, <2>4, <4>2, <4>3, <4>4, <4>5, StackMoves
    <3> QED BY <2>1, <2>4, <3>2, <3>3, <3>4, <3>5 DEF SearchInv, UsedInv
  <2> QED BY <2>3, <2>4
<1> QED BY <1>1, <1>2, <1>3, <1>4 DEF Next, Process

\* What a frame has left behind stays so while books and derivability do.
LEMMA LeftBehindStays ==
  ASSUME m_all_cookbooks' = m_all_cookbooks, Der' = Der,
         NEW f, NEW following \in BOOLEAN, LeftBehind(f, following)
  PROVE  LeftBehind(f, following)' /\ LeftBehind(f, TRUE)'
BY DEF LeftBehind, Barren

\* The frames, when the top one is replaced or nothing is.
LEMMA FramesSet ==
  ASSUME KitchenAssumption, IInv, FramesInv, stack # <<>>,
         m_all_cookbooks' = m_all_cookbooks, Der' = Der,
         NEW f \in Frame,
         Len(stack') = Len(stack),
         \A k \in 1 .. Len(stack) : stack'[k] = IF k = Len(stack) THEN f ELSE stack[k],
         NEW following \in BOOLEAN, following = (pc' # "choose"),
         LeftBehind(f, following)'
  PROVE  FramesInv'
<1> SUFFICES ASSUME NEW k \in 1 .. Len(stack')
             PROVE  LeftBehind(stack[k], k # Len(stack) \/ pc # "choose")'
  BY DEF FramesInv, LeftBehind
<1>1. CASE k = Len(stack)
  <2>1. stack'[k] = f /\ k = Len(stack') BY <1>1
  <2> QED BY <2>1 DEF LeftBehind
<1>2. CASE k # Len(stack)
  <2>1. stack'[k] = stack[k] /\ k # Len(stack') BY <1>2
  <2>2. LeftBehind(stack[k], TRUE) BY <1>2 DEF FramesInv
  <2>3. PICK g : g = stack[k] OBVIOUS
  <2>4. LeftBehind(g, TRUE)' BY <2>2, <2>3, LeftBehindStays
  <2> QED BY <2>1, <2>3, <2>4 DEF LeftBehind
<1> QED BY <1>1, <1>2

\* The ingredient that was refused makes the recipe that is followed barren.
LEMMA RefusedRecipe ==
  ASSUME KitchenAssumption, IInv, RefusedInv, stack # <<>>, pc = "answer", ~answer
  PROVE  Barren(Top.recipe)
<1>1. Top \in Frame /\ Top.recipe \in Recipes /\ Ingredients \in Seq(Items)
  BY TopFacts DEF IInv
<1>2. Top.pos \in 1 .. Len(Ingredients)
  <2>1. Top.pos \in Nat \ {0} /\ Top.pos <= Len(Ingredients)
    BY <1>1 DEF Frame, IInv, TopInv
  <2> QED BY <1>1, <2>1, LenProperties
<1>3. Ingredients[Top.pos] \in Items BY <1>1, <1>2, ElementOfSeq
<1>4. Ingredients[Top.pos] \in D!Needs(Top.recipe)
  BY <1>1, <1>2, <1>3, NeedsFacts DEF Ingredients
<1>5. Ingredients[Top.pos] \notin Der BY DEF RefusedInv, Answered
<1> QED BY <1>4, <1>5 DEF Barren

\* What the frames leave behind never suffices.
LEMMA FramesStep ==
  ASSUME KitchenAssumption, IInv, NEW rank \in Ranks, SearchInv(rank), Next
  PROVE  FramesInv'
<1>1. stack \in Seq(Frame) /\ Len(stack) \in Nat BY LenProperties DEF IInv, TypeOK
<1>2. CASE stack' = <<>> BY <1>2, EmptySeq DEF FramesInv
<1>3. CASE Client
  BY <1>2, <1>3 DEF Client, StoreItem, AddRecipe, AddPantry, AddCookbook,
     RequestItem, ClearRequestedItems, WriteItem, ProcessRequestedItems, call,
     IInv, ControlInv
<1>4. CASE Process
  <2>1. m_all_cookbooks' = m_all_cookbooks /\ Der' = Der
    BY <1>4, DerStays DEF SearchInv
  <2>2. FramesInv /\ RefusedInv BY DEF SearchInv
  <2>3. ASSUME stack # <<>>
        PROVE  Top \in Frame /\ LeftBehind(Top, pc # "choose")
    <3>1. Len(stack) \in 1 .. Len(stack) BY <1>1, <2>3, EmptySeq
    <3> QED BY <2>2, <2>3, <3>1, TopFacts DEF FramesInv, Top, IInv
  <2>4. CASE stack' = stack /\ pc' # "choose"
    <3>1. CASE stack = <<>> BY <1>2, <2>4, <3>1
    <3>2. CASE stack # <<>>
      <4>1. PICK f \in Frame : f = Top /\ LeftBehind(f, pc # "choose") BY <2>3, <3>2
      <4>2. LeftBehind(f, TRUE)' BY <2>1, <4>1, LeftBehindStays
      <4>3. \A k \in 1 .. Len(stack) : stack[k] = IF k = Len(stack) THEN f ELSE stack[k]
        BY <4>1 DEF Top
      <4> QED BY <2>1, <2>2, <2>4, <3>2, <4>2, <4>3, FramesSet
    <3> QED BY <3>1, <3>2
  <2>5. CASE ImpossibleIngredient
    <3>1. stack # <<>> /\ pc = "answer" /\ ~answer /\ stack' = stack /\ pc' = "choose"
      BY <2>5 DEF ImpossibleIngredient
    <3>2. PICK f \in Frame : f = Top /\ LeftBehind(f, TRUE) BY <2>3, <3>1
    <3>3. Barren(f.recipe) BY <2>2, <3>1, <3>2, RefusedRecipe
    <3>4. LeftBehind(f, FALSE) BY <3>2, <3>3 DEF LeftBehind
    <3>5. LeftBehind(f, FALSE)' BY <2>1, <3>4, LeftBehindStays
    <3>6. \A k \in 1 .. Len(stack) : stack[k] = IF k = Len(stack) THEN f ELSE stack[k]
      BY <3>2 DEF Top
    <3> QED BY <2>1, <2>2, <3>1, <3>5, <3>6, FramesSet
  <2>6. CASE SearchRecipes
    <3>1. stack' = Append(stack, NewFrame(arg)) /\ pc = "enter" /\ pc' = "choose"
      BY <2>6 DEF SearchRecipes, NeedsRecipe
    <3>2. NewFrame(arg) \in Frame BY <3>1 DEF IInv, ControlInv, NewFrame, Frame
    <3>3. /\ Len(stack') = Len(stack) + 1
          /\ \A k \in 1 .. Len(stack) : stack'[k] = stack[k]
          /\ stack'[Len(stack) + 1] = NewFrame(arg)
      BY <1>1, <3>1, <3>2, AppendProperties
    <3> SUFFICES ASSUME NEW k \in 1 .. Len(stack')
                 PROVE  LeftBehind(stack[k], k # Len(stack) \/ pc # "choose")'
      BY DEF FramesInv
    <3>4. CASE k = Len(stack) + 1
      BY <3>3, <3>4 DEF LeftBehind, NewFrame
    <3>5. CASE k # Len(stack) + 1
      <4>1. k \in 1 .. Len(stack) /\ stack'[k] = stack[k] /\ k # Len(stack')
        BY <1>1, <3>3, <3>5
      <4>2. LeftBehind(stack[k], TRUE) BY <3>1, <4>1, <2>2 DEF FramesInv
      <4>3. PICK g : g = stack[k] OBVIOUS
      <4>4. LeftBehind(g, TRUE)' BY <2>1, <4>2, <4>3, LeftBehindStays
      <4> QED BY <4>1, <4>3, <4>4 DEF LeftBehind
    <3> QED BY <3>4, <3>5
  <2>7. CASE ChooseRecipe
    <3>1. stack # <<>> /\ pc = "choose" /\ pc' = "gather"
      BY <2>7 DEF ChooseRecipe, IInv, ControlInv
    <3>2. PICK r \in Untried :
            SetTop([Top EXCEPT !.recipe = r, !.tried = @ \union {r}, !.pos = 1, !.parts = {}])
      BY <2>7 DEF ChooseRecipe
    <3>3. r \in Recipes
      <4>1. Top.book \in 1 .. Len(m_all_cookbooks) BY <3>1, TopFacts DEF IInv
      <4> QED BY <4>1, BookType DEF Untried, IInv
    <3>4. Top \in Frame /\ LeftBehind(Top, FALSE) BY <2>3, <3>1
    <3>5. PICK f \in Frame : f = [Top EXCEPT !.recipe = r, !.tried = @ \union {r},
                                              !.pos = 1, !.parts = {}]
      BY <3>3, <3>4, FrameTypes
    <3>6. /\ f.item = Top.item /\ f.book = Top.book /\ f.recipe = r
          /\ f.tried = Top.tried \union {r}
      BY <3>4, <3>5 DEF Frame
    <3>7. LeftBehind(f, TRUE) BY <3>4, <3>6 DEF LeftBehind
    <3>8. LeftBehind(f, TRUE)' BY <2>1, <3>7, LeftBehindStays
    <3>9. /\ Len(stack') = Len(stack)
          /\ \A k \in 1 .. Len(stack) : stack'[k] = IF k = Len(stack) THEN f ELSE stack[k]
      BY <1>1, <3>2, <3>5, SetTopProperties DEF SetTop
    <3> QED BY <2>1, <2>2, <3>1, <3>8, <3>9, FramesSet
  <2>8. CASE NextCookbook
    <3>1. stack # <<>> /\ pc = "choose" /\ pc' = "choose" /\ Untried = {}
          /\ SetTop(NextBook(Top))
      BY <2>8 DEF NextCookbook, IInv, ControlInv
    <3>2. Top \in Frame /\ LeftBehind(Top, FALSE) BY <2>3, <3>1
    <3>3. PICK f \in Frame : f = NextBook(Top) BY <3>2, FrameTypes DEF NextBook
    <3>4. /\ f.item = Top.item /\ f.book = Top.book + 1 /\ f.tried = {}
          /\ Top.book \in Nat
      BY <3>2, <3>3 DEF Frame, NextBook
    <3>5. ASSUME NEW c \in 1 .. f.book - 1, NEW r \in m_all_cookbooks[c],
                 ResultOf[r] = f.item
          PROVE  Barren(r)
      <4>1. CASE c = Top.book
        <5>1. r \in Top.tried BY <3>1, <3>4, <3>5, <4>1 DEF Untried
        <5> QED BY <3>2, <5>1 DEF LeftBehind
      <4>2. CASE c # Top.book
        <5>1. c \in 1 .. Top.book - 1 BY <3>4, <4>2
        <5> QED BY <3>2, <3>4, <3>5, <5>1 DEF LeftBehind
      <4> QED BY <4>1, <4>2
    <3>6. LeftBehind(f, FALSE) BY <3>4, <3>5 DEF LeftBehind
    <3>7. LeftBehind(f, FALSE)' BY <2>1, <3>6, LeftBehindStays
    <3>8. /\ Len(stack') = Len(stack)
          /\ \A k \in 1 .. Len(stack) : stack'[k] = IF k = Len(stack) THEN f ELSE stack[k]
      BY <1>1, <3>1, <3>3, SetTopProperties DEF SetTop
    <3> QED BY <2>1, <2>2, <3>1, <3>7, <3>8, FramesSet
  <2>9. CASE GotIngredient
    <3> DEFINE i == Ingredients[Top.pos]
               entry == IF Ready(i) THEN m_ready_items[i] ELSE "empty"
               new == [Top EXCEPT !.pos = @ + 1, !.parts = @ \union {entry}]
    <3>1. pc = "answer" /\ stack # <<>> /\ answer /\ SetTop(new) /\ pc' = "gather"
      BY <2>9 DEF GotIngredient
    <3>2. /\ Top \in Frame /\ LeftBehind(Top, TRUE) /\ Ingredients \in Seq(Items)
      BY <2>3, <3>1, TopFacts DEF IInv
    <3>3. Top.pos \in 1 .. Len(Ingredients)
      BY <3>1, <3>2, LenProperties DEF IInv, TopInv, Frame
    <3>4. i \in Items BY <3>2, <3>3, ElementOfSeq
    <3>5. entry \in Prepared BY <3>4 DEF IInv, TypeOK, Ready, Readiness, Prepared
    <3>6. PICK f \in Frame : f = new BY <3>2, <3>5, FrameTypes
    <3>7. /\ f.item = Top.item /\ f.book = Top.book /\ f.recipe = Top.recipe
          /\ f.tried = Top.tried
      BY <3>2, <3>6 DEF Frame
    <3>8. LeftBehind(f, TRUE) BY <3>2, <3>7 DEF LeftBehind
    <3>9. LeftBehind(f, TRUE)' BY <2>1, <3>8, LeftBehindStays
    <3>10. /\ Len(stack') = Len(stack)
          /\ \A k \in 1 .. Len(stack) : stack'[k] = IF k = Len(stack) THEN f ELSE stack[k]
      BY <1>1, <3>1, <3>6, SetTopProperties DEF SetTop
    <3> QED BY <2>1, <2>2, <3>1, <3>9, <3>10, FramesSet
  <2>10. CASE NoMoreRecipes \/ SelectOnly \/ Prepare
    <3>1. stack # <<>> /\ stack' = Below /\ pc' = "answer"
      BY <2>10 DEF NoMoreRecipes, SelectOnly, Prepare, Preparing, AllGathered,
         Answer, IInv, ControlInv
    <3>2. /\ Len(Below) = Len(stack) - 1
          /\ \A k \in 1 .. Len(stack) - 1 : Below[k] = stack[k]
      BY <1>1, <3>1, PopProperties DEF Below
    <3> SUFFICES ASSUME NEW k \in 1 .. Len(stack')
                 PROVE  LeftBehind(stack[k], k # Len(stack) \/ pc # "choose")'
      BY DEF FramesInv
    <3>3. k \in 1 .. Len(stack) /\ k # Len(stack) /\ stack'[k] = stack[k]
      BY <1>1, <3>1, <3>2
    <3>4. LeftBehind(stack[k], TRUE) BY <2>2, <3>3 DEF FramesInv
    <3>5. PICK g : g = stack[k] OBVIOUS
    <3>6. LeftBehind(g, TRUE)' BY <2>1, <3>4, <3>5, LeftBehindStays
    <3> QED BY <3>1, <3>3, <3>5, <3>6 DEF LeftBehind
  <2>11. CASE \/ NextRequest \/ AnswerAvailable \/ AnswerUnreachable
              \/ TakeFromPantry \/ AnswerAlreadyUsing \/ NeedIngredient
    BY <2>4, <2>11 DEF NextRequest, AnswerAvailable, AnswerUnreachable,
       TakeFromPantry, AnswerAlreadyUsing, NeedIngredient, Answer
  <2>12. CASE FinishRequest \/ ProcessReturn \/ PrepareThrows \/ PrepareCrash
    BY <1>2, <2>12 DEF FinishRequest, ProcessReturn, PrepareThrows, PrepareCrash,
       LeaveCall
  <2> QED
    BY <1>4, <2>5, <2>6, <2>7, <2>8, <2>9, <2>10, <2>11, <2>12
    DEF Process, MakeReady
<1> QED BY <1>3, <1>4 DEF Next

\* What is unreachable cannot be derived, also when sources were added.
LEMMA ReachedStep ==
  ASSUME KitchenAssumption, IInv, NEW rank \in Ranks, SearchInv(rank), Next
  PROVE  ReachedInv'
<1>1. Obtained' \subseteq Der' BY ObtainedStep DEF SearchInv, ReachedInv
<1>2. CASE m_unreachable_items' = {} BY <1>1, <1>2 DEF ReachedInv
<1>3. CASE Client
  <2>1. CASE \/ \E i \in Requests : RequestItem(i) \/ WriteItem(i)
             \/ ClearRequestedItems
    <3>1. m_unreachable_items' = m_unreachable_items /\ sources' = sources
      BY <2>1 DEF RequestItem, WriteItem, ClearRequestedItems, requests
    <3>2. Der' = Der BY <3>1 DEF sources, Der, Stocked, StockedIn, Book
    <3> QED BY <1>1, <3>1, <3>2 DEF ReachedInv, SearchInv
  <2>2. CASE \/ \E i \in StoredItems : StoreItem(i)
             \/ \E r \in AddedRecipes : AddRecipe(r)
             \/ \E p \in ArchivePantries : AddPantry(p)
             \/ \E c \in ArchiveCookbooks : AddCookbook(c)
             \/ \E m \in ProcessModes : ProcessRequestedItems(m)
    BY <1>2, <2>2 DEF StoreItem, AddRecipe, AddPantry, AddCookbook,
       ProcessRequestedItems, ClearUnreachableItems
  <2> QED BY <1>3, <2>1, <2>2 DEF Client
<1>4. CASE Process
  <2>1. Der' = Der BY <1>4, DerStays DEF SearchInv
  <2>2. CASE FinishRequest
    <3>1. /\ pc = "answer" /\ stack = <<>>
          /\ m_unreachable_items' = m_unreachable_items \union ({target} \ Erase)
      BY <2>2 DEF FinishRequest
    <3>2. ~answer => target \notin Der
      BY <3>1 DEF SearchInv, RefusedInv, Answered
    <3>3. {target} \ Erase = IF answer THEN {} ELSE {target} BY DEF Erase
    <3> QED BY <1>1, <2>1, <3>1, <3>2, <3>3 DEF SearchInv, ReachedInv
  <2>3. CASE NextRequest \/ ProcessReturn \/ MakeReady
    <3>1. m_unreachable_items' = m_unreachable_items
      BY <2>3, SearchKeepsRequests DEF NextRequest, ProcessReturn, requests
    <3> QED BY <1>1, <2>1, <3>1 DEF SearchInv, ReachedInv
  <2> QED BY <1>4, <2>2, <2>3 DEF Process
<1> QED BY <1>3, <1>4 DEF Next

\* "Any items that are not able to be prepared will be within
\* m_unreachable_items" (kitchen.h:91), and only those, when the recipes have
\* no circles: whatever is reported unreachable is out of reach of the stock
\* and the recipes, also after either has grown.
THEOREM UnreachableTrue ==
  ASSUME Ranks # {}
  PROVE  Spec => []UnreachableIsUnderivable
<1>1. PICK rank \in Ranks : TRUE OBVIOUS
<1>2. Init => SearchInv(rank)
  <2> SUFFICES ASSUME Init PROVE SearchInv(rank) OBVIOUS
  <2>1. stack = <<>> /\ pc = "idle" /\ m_unreachable_items = {} BY DEF Init
  <2>2. Obtained = {} BY DEF Init, Obtained, Usable
  <2> QED
    BY <2>1, <2>2, EmptySeq DEF SearchInv, ReachedInv, RefusedInv, UsedInv, InCall,
       FramesInv, RanksInv, AskedInv
<1>3. IInv /\ SearchInv(rank) /\ [Next]_vars => SearchInv(rank)'
  <2>1. ASSUME IInv, SearchInv(rank), Next PROVE SearchInv(rank)'
    <3>1. AskedInv' BY <2>1, KitchenAssumption, AskedStep DEF SearchInv
    <3>2. RanksInv(rank)' BY <2>1, KitchenAssumption, RanksStep DEF SearchInv
    <3> QED
      BY <2>1, <3>1, <3>2, KitchenAssumption, ReachedStep, RefusedStep, UsedStep,
         FramesStep
      DEF SearchInv
  <2>2. ASSUME SearchInv(rank), UNCHANGED vars PROVE SearchInv(rank)'
    <3>1. UNCHANGED <<sources, requests, results, processing, already_using,
                      stack, arg, answer, pc>>
      BY <2>2 DEF vars, others
    <3>2. Der' = Der BY <3>1 DEF sources, Der, Stocked, StockedIn, Book
    <3>3. ReachedInv' /\ RefusedInv'
      BY <2>2, <3>1, <3>2 DEF SearchInv, ReachedInv, RefusedInv, Answered, Top,
         Ingredients, Obtained, requests, results, processing
    <3>4. UsedInv' BY <2>2, <3>1, <3>2 DEF SearchInv, UsedInv, InCall, OnStack,
         Available, Selected, Ready, results, processing
    <3>5. FramesInv'
      BY <2>2, <3>1, <3>2 DEF SearchInv, FramesInv, LeftBehind, Barren, sources
    <3>6. RanksInv(rank)' /\ AskedInv'
      BY <2>2, <3>1 DEF SearchInv, RanksInv, AskedInv, Available, Selected, Ready,
         results, processing
    <3> QED BY <3>3, <3>4, <3>5, <3>6 DEF SearchInv
  <2> QED BY <2>1, <2>2
<1>4. SearchInv(rank) => UnreachableIsUnderivable
  BY DEF SearchInv, ReachedInv, UnreachableIsUnderivable, Der
<1> QED BY <1>2, <1>3, <1>4, Invariance, PTL DEF Spec
=============================================================================

----------------------------- MODULE Derivation -----------------------------
(***************************************************************************)
(* What a kitchen promises: starting from stocked items and a book of      *)
(* recipes, an item is obtained only when it is in stock or when every     *)
(* ingredient of one of its recipes is in stock or obtained.  Nothing      *)
(* obtained is ever lost.                                                  *)
(***************************************************************************)
EXTENDS Functions

CONSTANTS Items, Recipes,
          ResultOf,        \* the item a recipe makes
          IngredientsOf    \* the sequence of items a recipe needs

VARIABLES stock,           \* items available without a recipe
          book,            \* recipes that may be used
          obtained         \* items the kitchen can hand out

vars == <<stock, book, obtained>>

Needs(r) == Range(IngredientsOf[r])

(***************************************************************************)
(* Derivability, as the least set closed under stock and recipes: an item  *)
(* is derivable when no closed set leaves it out.                          *)
(***************************************************************************)
Closed(S, from, using) ==
    /\ from \subseteq S
    /\ \A r \in using : Needs(r) \subseteq S => ResultOf[r] \in S

Derivable(from, using) ==
    {i \in Items : \A S \in SUBSET Items : Closed(S, from, using) => i \in S}

-----------------------------------------------------------------------------
Init ==
    /\ stock = {}
    /\ book = {}
    /\ obtained = {}

Supply(from, using) ==
    /\ stock' = stock \union from
    /\ book' = book \union using
    /\ UNCHANGED obtained

Obtainable(i) ==
    \/ i \in stock
    \/ \E r \in book : ResultOf[r] = i /\ Needs(r) \subseteq obtained \union stock

\* Copies of obtained items may be kept in stock while another is made.
Obtain(i, kept) ==
    /\ Obtainable(i)
    /\ obtained' = obtained \union {i}
    /\ stock' = stock \union kept
    /\ UNCHANGED book

Next ==
    \/ \E from \in SUBSET Items, using \in SUBSET Recipes : Supply(from, using)
    \/ \E i \in Items, kept \in SUBSET obtained : Obtain(i, kept)

Spec == Init /\ [][Next]_vars

-----------------------------------------------------------------------------
TypeOK ==
    /\ stock \subseteq Items
    /\ book \subseteq Recipes
    /\ obtained \subseteq Items

\* Everything obtained has a finite derivation from the stock.
Sound == obtained \subseteq Derivable(stock, book)

\* Nothing obtained is lost again.
Kept == [][obtained \subseteq obtained']_vars
=============================================================================

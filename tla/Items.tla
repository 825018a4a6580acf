------------------------------- MODULE Items -------------------------------
(***************************************************************************)
(* Item definitions (native/diffs/core/item_definition) and recipes: how   *)
(* they are named, compared, matched and stored in a file.  A content is a *)
(* sequence of small numbers, and its own hash by every algorithm: hashes  *)
(* do not collide.                                                         *)
(***************************************************************************)
EXTENDS Integers, Sequences, FiniteSets, SequencesExt

\* hashing::all_algorithms, in order; the types of the C interface are these
\* and nothing else.
Algorithms == <<"md5", "sha256">>

NoHashes == [a \in {} |-> <<>>]

Unnamed(length, hashes) == [length |-> length, hashes |-> hashes, names |-> {}]

\* Several algorithms of one content, none, or the sha256 that
\* create_definition_from_reader() takes.
HashedBy(content, algorithms) == Unnamed(Len(content), [a \in algorithms |-> content])
Definition(content) == HashedBy(content, {"sha256"})

WithName(i, name) == [i EXCEPT !.names = @ \union {name}]

Hashed(i) == DOMAIN i.hashes # {}

\* What the item is, where hashes tell it.
ContentOf(i) == i.hashes[CHOOSE a \in DOMAIN i.hashes : TRUE]

-----------------------------------------------------------------------------
(* Comparing.                                                              *)

\* memcmp() of two hashes.
HashLess(a, b) ==
    \E k \in 1 .. Len(a) :
        /\ a[k] < b[k]
        /\ \A j \in 1 .. k - 1 : a[j] = b[j]

AgreeOn(a, l, r) ==
    /\ a \in DOMAIN l.hashes <=> a \in DOMAIN r.hashes
    /\ a \in DOMAIN l.hashes => l.hashes[a] = r.hashes[a]

LessOn(a, l, r) ==
    /\ a \in DOMAIN r.hashes
    /\ a \in DOMAIN l.hashes => HashLess(l.hashes[a], r.hashes[a])

\* operator<: the key of every map of items.  Names do not count.
ItemLess(l, r) ==
    LET count(i) == Cardinality(DOMAIN i.hashes)
    IN  \/ l.length < r.length
        \/ l.length = r.length /\ count(l) < count(r)
        \/ /\ l.length = r.length /\ count(l) = count(r)
           /\ \E k \in DOMAIN Algorithms :
                 /\ LessOn(Algorithms[k], l, r)
                 /\ \A j \in 1 .. k - 1 : AgreeOn(Algorithms[j], l, r)

\* operator==
SameItem(l, r) == l.length = r.length /\ l.hashes = r.hashes

CommonHashes(l, r) == DOMAIN l.hashes \intersect DOMAIN r.hashes

\* match() and equals()
Equals(l, r) ==
    /\ l.length = r.length
    /\ CommonHashes(l, r) # {}
    /\ \A a \in CommonHashes(l, r) : l.hashes[a] = r.hashes[a]

-----------------------------------------------------------------------------
(* From the C interface, and to a file.                                    *)

\* A definition of the C interface is a length, names and a sequence of hashes,
\* each of a type.  Its conversion throws on a type it does not know, and
\* with_hash() when the item already has another hash of that type.
Convertible(d) ==
    \A j, k \in DOMAIN d.hashes :
        /\ d.hashes[k].type \in ToSet(Algorithms)
        /\ d.hashes[j].type = d.hashes[k].type => d.hashes[j].value = d.hashes[k].value

WithHash(i, hash) ==
    [i EXCEPT !.hashes = [a \in DOMAIN @ \union {hash.type} |->
                             IF a = hash.type THEN hash.value ELSE @[a]]]

ToCoreItem(d) ==
    LET item == FoldLeft(WithHash, Unnamed(d.length, NoHashes), d.hashes)
    IN  [item EXCEPT !.names = d.names]

\* write() with the standard options: no names, only the sha256, and of an
\* item of length 0 not even that.  It throws when there is no sha256.
CanWrite(i) == i.length = 0 \/ "sha256" \in DOMAIN i.hashes

Written(i) ==
    IF i.length = 0
    THEN Unnamed(0, NoHashes)
    ELSE Unnamed(i.length, "sha256" :> i.hashes["sha256"])

-----------------------------------------------------------------------------
(* Recipes: a kind, a result, numbers and items.                           *)

\* The constructor throws when an item would be made of itself.
SelfReferential(r) == \E k \in DOMAIN r.items : SameItem(r.items[k], r.result)

\* Two recipes of one kind whose results differ compare equal: recipe.cpp:48
\* compares rhs_item with itself.  Otherwise operator< is an order that tells
\* every two recipes apart.
Equivalent(r, s) ==
    /\ r.kind = s.kind
    /\ \/ ~SameItem(r.result, s.result)
       \/ /\ r.numbers = s.numbers
          /\ Len(r.items) = Len(s.items)
          /\ \A k \in DOMAIN r.items : SameItem(r.items[k], s.items[k])

CanWriteRecipe(r) == CanWrite(r.result) /\ \A k \in DOMAIN r.items : CanWrite(r.items[k])

WrittenRecipe(r) ==
    [r EXCEPT !.result = Written(@),
              !.items = [k \in DOMAIN @ |-> Written(@[k])]]
=============================================================================

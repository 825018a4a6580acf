------------------------------ MODULE Sessions ------------------------------
(***************************************************************************)
(* The sessions of the C interface (native/diffs/api): a create session,   *)
(* which gathers an archive and writes it to a diff file, and an apply     *)
(* session, which stocks its kitchen with the archives of diff files or    *)
(* with the one of the create session, shared.  What the kitchen does with *)
(* its stock is the module Kitchen.                                        *)
(***************************************************************************)
EXTENDS LegacyFile

CONSTANTS
    ClientRecipes,  \* recipes the client adds, of definitions of the C interface
    Targets,        \* definitions it sets as the target
    Assets,         \* files it sets as inline assets
    Remainders,     \* files it sets as the remainder
    Sources,        \* files it adds to the pantry of an apply session
    DiffPath,       \* where the create session writes
    LegacyFiles,    \* paths of legacy diffs
    Contents,       \* the legacy diffs themselves, by path
    MaxNested,      \* bound: archives nested in the one of the create session
    MaxArchives,    \* bound: archives added to an apply session
    NamesMayClash   \* bound: may a kitchen have other blobs of a legacy diff's names

VARIABLES
    creator,   \* m_deserializer.m_archive of the create session
    file,      \* the sections of the diff file, or <<>> before it is written
    intact,    \* is the file as write_diff() left it, reporting success
    session,   \* the apply session: its root pantry, what was stocked
    call       \* the last call: when it reads or writes a diff file its name,
               \* the path, and whether it reported errors

vars == <<creator, file, intact, session, call>>

Shared == [shared |-> TRUE]

NoSession == [open |-> FALSE, root |-> EmptyPantry, stocks |-> <<>>, legacy |-> {}]

Init ==
    /\ creator = EmptyArchive
    /\ file = <<>>
    /\ intact = FALSE
    /\ session = NoSession
    /\ call = [name |-> "other", path |-> DiffPath, failed |-> FALSE]

Called(name, path, failed) == call' = [name |-> name, path |-> path, failed |-> failed]
CalledOther == Called("other", DiffPath, FALSE)

-----------------------------------------------------------------------------
(* create_session                                                          *)

\* Bound: while an apply session is open that shares nothing, the create session
\* does nothing; they have only the file in common.
MayCreate == session.open => Shared \in ToSet(session.stocks)

SetTarget ==
    /\ MayCreate
    /\ \E d \in Targets :
        /\ IF Convertible(d)
           THEN creator' = [creator EXCEPT !.target = ToCoreItem(d)]
           ELSE UNCHANGED creator
        /\ CalledOther
        /\ UNCHANGED <<file, intact, session>>

CoreRecipe(c) ==
    [c EXCEPT !.result = ToCoreItem(@),
              !.items = [k \in DOMAIN @ |-> ToCoreItem(@[k])]]

\* All definitions are converted before the recipe is made; both may throw.
IsAccepted(c) ==
    /\ Convertible(c.result)
    /\ \A d \in ToSet(c.items) : Convertible(d)
    /\ ~IsRefused(CoreRecipe(c))

AddClientRecipe ==
    /\ MayCreate
    /\ \E c \in ClientRecipes :
        /\ IF IsAccepted(c)
           THEN creator' = AddRecipe(creator, CoreRecipe(c))
           ELSE UNCHANGED creator
        /\ CalledOther
        /\ UNCHANGED <<file, intact, session>>

\* Bound: assets and remainder are set once, and not while a kitchen may have
\* both those and the ones of a legacy diff.
MaySet(name) ==
    /\ MayCreate
    /\ name \notin DOMAIN creator.pantry.named
    /\ NamesMayClash \/ session.legacy = {}

SetClientAssets ==
    /\ MaySet(InlineAssets)
    /\ \E content \in Assets : creator' = SetInlineAssets(creator, content)
    /\ CalledOther
    /\ UNCHANGED <<file, intact, session>>

SetClientRemainder ==
    /\ MaySet(RemainderCompressed)
    /\ \E content \in Remainders : creator' = SetRemainder(creator, content)
    /\ CalledOther
    /\ UNCHANGED <<file, intact, session>>

\* Only the standard format can be nested here.  Bound: no session is open.
AddNestedDiff ==
    /\ ~session.open
    /\ Len(creator.nested) < MaxNested
    /\ IF IsReadable(file)
       THEN creator' = AddNestedArchive(creator, file, Deserialized(file))
       ELSE UNCHANGED creator
    /\ Called("add_nested_archive", DiffPath, ~IsReadable(file))
    /\ UNCHANGED <<file, intact, session>>

\* The file is opened, and its old content gone, before anything can throw.
WriteDiff ==
    /\ MayCreate
    /\ file' = Serialized(creator)
    /\ intact' = IsWholeFile(file')
    /\ Called("write_diff", DiffPath, ~IsWholeFile(file'))
    /\ UNCHANGED <<creator, session>>

-----------------------------------------------------------------------------
(* apply_session.  A stock is shared when it is the create session's own   *)
(* cookbook and pantry, which may still change.                            *)

Own(stock) == [shared |-> FALSE, stock |-> stock]

StocksOf(s) ==
    <<[book |-> EmptyBook, pantry |-> s.root]>> \o
    [k \in DOMAIN s.stocks |->
        IF s.stocks[k].shared
        THEN OwnStock(creator)
        ELSE s.stocks[k].stock]

Owned(stocks) == [k \in DOMAIN stocks |-> Own(stocks[k])]

OpenSession ==
    /\ session' = [NoSession EXCEPT !.open = TRUE]
    /\ CalledOther
    /\ UNCHANGED <<creator, file, intact>>

\* new_apply_session()
ShareSession ==
    /\ session' = [NoSession EXCEPT !.open = TRUE,
                                    !.stocks = <<Shared>> \o Owned(Tail(Stock(creator)))]
    /\ CalledOther
    /\ UNCHANGED <<creator, file, intact>>

MayAdd == session.open /\ Len(session.stocks) < MaxArchives

\* add_archive() of what is_this_format() takes for the standard format.
AddStandardArchive ==
    /\ MayAdd
    /\ file # <<>>
    /\ session' = IF IsReadable(file)
                  THEN [session EXCEPT !.stocks = @ \o Owned(Stock(Deserialized(file)))]
                  ELSE session
    /\ Called("add_archive", DiffPath, ~IsReadable(file))
    /\ UNCHANGED <<creator, file, intact>>

LegacyNamesAreFree ==
    \A k \in DOMAIN StocksOf(session) :
        {InlineAssets, RemainderUncompressed}
            \intersect DOMAIN StocksOf(session)[k].pantry.named = {}

LegacyRead == [path \in LegacyFiles |-> ReadLegacy(Contents[path], <<>>, <<>>)]

\* add_archive() of anything else.
AddLegacyArchive ==
    /\ MayAdd
    /\ NamesMayClash \/ LegacyNamesAreFree
    /\ \E path \in LegacyFiles :
          LET read == LegacyRead[path]
          IN  /\ session' =
                     IF read.thrown
                     THEN session
                     ELSE [session EXCEPT !.stocks = @ \o Owned(Stock(read.archive)),
                                          !.legacy = @ \union {Contents[path]}]
              /\ Called("add_archive", path, read.thrown)
    /\ UNCHANGED <<creator, file, intact>>

AddFileToPantry ==
    /\ session.open
    /\ \E content \in Sources :
          session' = [session EXCEPT !.root = Store(@, Definition(content), content)]
    /\ CalledOther
    /\ UNCHANGED <<creator, file, intact>>

-----------------------------------------------------------------------------
(* External: bytes of an asset in the file are lost on the way.            *)

Damaged(section) ==
    [section EXCEPT !.parts = [k \in DOMAIN @ |->
        [@[k] EXCEPT !.bytes = [j \in DOMAIN @ |-> 0]]]]

Damage ==
    /\ Len(file) >= 4
    /\ \E k \in 3 .. 4 :
          /\ Damaged(file[k]) # file[k]
          /\ file' = [file EXCEPT ![k] = Damaged(@)]
    /\ intact' = FALSE
    /\ CalledOther
    /\ UNCHANGED <<creator, session>>

Next ==
    \/ SetTarget \/ AddClientRecipe \/ SetClientAssets \/ SetClientRemainder
    \/ AddNestedDiff \/ WriteDiff
    \/ OpenSession \/ ShareSession \/ AddStandardArchive \/ AddLegacyArchive
    \/ AddFileToPantry
    \/ Damage

Spec == Init /\ [][Next]_vars

-----------------------------------------------------------------------------
(* Properties.                                                             *)

\* Items found by name are stored under it; what is stocked has both parts;
\* the session holds legacy diffs only once it is open.
TypeOK ==
    /\ DOMAIN creator.pantry.named \subseteq
           {InlineAssets, RemainderUncompressed, RemainderCompressed}
    /\ \A e \in creator.book.lookup : e.recipe \in creator.book.recipes
    /\ Len(file) <= FileSections
    /\ intact => IsWholeFile(file)
    /\ ~session.open => session = NoSession
    /\ session.legacy \subseteq DOMAIN Legacy

Justcalled(name) == call.name = name /\ ~call.failed

\* What a session makes of the diff file that write_diff() wrote is what it
\* would make of the archive in memory (create_session.cpp:103 and :120), with
\* and without the source: nothing the recipes need is lost in the file.
AppliesAlike ==
    Justcalled("write_diff") =>
        LET requests == {Definition(ContentOf(r.result)) : r \in creator.book.recipes}
            rootOf(sources) ==
                [book |-> EmptyBook,
                 pantry |-> FoldSet(LAMBDA c, p : Store(p, Definition(c), c),
                                    EmptyPantry, sources)]
        IN  /\ IsReadable(file)
            /\ \A sources \in {{}, Sources} :
                  Makes(<<rootOf(sources)>> \o Stock(Deserialized(file)), requests)
                      = Makes(<<rootOf(sources)>> \o Stock(creator), requests)

\* Whatever archives a kitchen was stocked with, a recipe finds the bytes it
\* is about, in its own archive's blobs and at its own offset.
RecipesAreRight ==
    session.open =>
        \A r \in RecipesOf(StocksOf(session)) : IsRight(StocksOf(session), r)

\* An archive that add_archive() or add_nested_archive() accepts is one that
\* write_diff() reported to be written, and that is still as it was.
OnlyWholeDiffsAreRead ==
    call.path = DiffPath /\ (Justcalled("add_archive") \/ Justcalled("add_nested_archive"))
        => intact

\* With the source in the pantry, a legacy diff that was read makes its target.
LegacyTargetsAreMade ==
    \A c \in session.legacy :
        FoundIn(session.root, Legacy[c].source) =>
            Legacy[c].target \in Makes(StocksOf(session), {Legacy[c].target})
=============================================================================

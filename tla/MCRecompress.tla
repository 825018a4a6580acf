---------------------------- MODULE MCRecompress ----------------------------
(* Updates with two images, one named by two entries or member twice, one    *)
(* not gzipped or not there, a file that is no image, and a signature or     *)
(* none.                                                                     *)
EXTENDS Recompress

MCEmpty == [kind |-> "empty", data |-> 0, size |-> 0, sum |-> 0]

Payload(kind, data, size) == [kind |-> kind, data |-> data, size |-> size, sum |-> 0]

MCNotGzip == 99
MCPlain(p) == CASE p.kind = "gz" -> p.data [] p.kind = "empty" -> 0 [] OTHER -> MCNotGzip
MCGzip(d) == Payload("gz", d, 5 + d)
OldSignature == Payload("signature", 0, 6)
MCNameLength(n) == Len(n)

Entries(files) ==
    [k \in DOMAIN files |->
        [group |-> IF k = 1 THEN 1 ELSE 2, file |-> files[k],
         compressed |-> files[k] # "raw", sha256 |-> MCEmpty]]

Config(files, gap) ==
    [kind |-> "description", size |-> 9, sum |-> 0, gap |-> gap, entries |-> Entries(files)]

Member(name, payload) == [name |-> name, payload |-> payload]

Image(name) == Member(name, IF name = "raw" THEN Payload("plain", 3, 8)
                                            ELSE Payload("gz", IF name = "a" THEN 1 ELSE 2, 9))

ImageLists ==
    {<<"a">>, <<"a", "b">>, <<"a", "a">>, <<"b", "a", "b">>, <<"a", "raw">>, <<"a", "none">>}

MCUpdates ==
    {<<Member("sw-description", Config(files, gap))>> \o sig \o rest :
        files \in ImageLists, gap \in {2, 3},
        sig \in {<<>>, <<Member("sw-description.sig", OldSignature)>>},
        rest \in {<<Image("a"), Image("b"), Image("raw")>>,
                  <<Image("b"), Member("readme", Payload("plain", 7, 2)),
                    Member("a", Payload("gz", 4, 11)), Image("a")>>}}
=============================================================================

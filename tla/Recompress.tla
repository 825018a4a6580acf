----------------------------- MODULE Recompress -----------------------------
(***************************************************************************)
(* The recompress tool, command swu (native/tools/recompress): it reads an *)
(* update, compresses its images again, with gzip at its best level,       *)
(* writes their hashes into the description, signs that or removes its     *)
(* signature, and writes a new update.                                     *)
(*                                                                         *)
(* A description is a payload with its entries, in order, each of a group. *)
(***************************************************************************)
EXTENDS CpioFormat

CONSTANTS Updates,       \* sequences of named payloads, one of them the description
          Cuts,          \* how many bytes may be missing at the end
          Plain(_),      \* what a gzipped payload has in it, or NotGzip
          NotGzip,
          Gzip(_),       \* at the best level
          SignatureSize

SW_DESCRIPTION == "sw-description"
SIG_FILE_NAME == "sw-description.sig"

-----------------------------------------------------------------------------
(* Updates as they are made: sizes fit in a header, what was compressed can  *)
(* be compressed again, the groups of a description lie one after the other, *)
(* and its images are neither itself nor its signature.                      *)

HasFields(r, fields) == r = [f \in DOMAIN r |-> r[f]] /\ fields \subseteq DOMAIN r

IsSequence(s) == Len(s) \in Nat /\ s = [k \in 1 .. Len(s) |-> s[k]]

IsPayload(p) == HasFields(p, {"size", "sum"}) /\ p.size \in 0 .. Word - 1

CompressesAgain(p) ==
    LET plain == Plain(p) IN
    plain # NotGzip => IsPayload(Gzip(plain)) /\ Plain(Gzip(plain)) = plain

IsEntry(e) ==
    /\ HasFields(e, {"group", "file", "sha256"})
    /\ e.group \in Int
    /\ e.file \notin {SW_DESCRIPTION, SIG_FILE_NAME}

IsDescription(d) ==
    /\ HasFields(d, {"gap", "entries"}) /\ d.gap \in Int
    /\ d.size + 1 < Word
    /\ IsSequence(d.entries) /\ \A k \in DOMAIN d.entries : IsEntry(d.entries[k])
    /\ \A j, k \in DOMAIN d.entries : j <= k => d.entries[j].group <= d.entries[k].group

IsUpdate(u) ==
    /\ IsSequence(u)
    /\ \E k \in DOMAIN u : u[k].name = SW_DESCRIPTION
    /\ \A k \in DOMAIN u :
          /\ u[k].name # TRAILER_NAME /\ NameLength(u[k].name) \in Nat
          /\ IsPayload(u[k].payload) /\ CompressesAgain(u[k].payload)
          /\ u[k].name = SW_DESCRIPTION => IsDescription(u[k].payload)

ASSUME RecompressAssumption ==
    /\ Word \in Nat /\ SignatureSize \in 0 .. Word - 1 /\ Cuts \subseteq Nat
    /\ NameLength(TRAILER_NAME) \in Nat
    /\ IsPayload(Empty) /\ Empty.size = 0 /\ CompressesAgain(Empty)
    /\ \A u \in Updates : IsUpdate(u)

-----------------------------------------------------------------------------

Signings == {"none", "works", "fails"}

VARIABLES source,      \* the file that is read: whole, or its end is missing
          signing,     \* the signing command
          phase, archive, config,
          at,          \* the entry that is next
          file_to_hash_map,
          dest         \* what is in the file that is written

toolVars == <<source, signing, phase, archive, config, at, file_to_hash_map, dest>>

\* What was there before: a byte.
Before == [EmptyImage EXCEPT !.size = 1]

Archives(update) ==
    LET archived[k \in 0 .. Len(update)] ==
          IF k = 0 THEN NewArchive("new_ascii")
          ELSE add_file(archived[k - 1], update[k].name, 1, update[k].payload)
    IN archived

Archived(update) == Archives(update)[Len(update)]

ToolInit ==
    /\ \E u \in Updates, cut \in Cuts :
          LET whole == Written(Archived(u)) IN
          /\ cut <= whole.size
          /\ source = [whole EXCEPT !.size = @ - cut]
    /\ signing \in Signings
    /\ phase = "read" /\ archive = NewArchive("none") /\ config = <<>>
    /\ at = 1 /\ file_to_hash_map = [f \in {} |-> Empty]
    /\ dest = Before

\* get_image_entries(): a group that has no images ends the search, so these
\* are the first ones.  Entries that are not compressed are said to be skipped,
\* and are not.
image_entries == {k \in DOMAIN config.entries : config.entries[k].group < config.gap}

hash_reader(payload) == [sha256_of |-> payload]

load_config(a) == get_payload_reader(a, SW_DESCRIPTION)

\* recompress(): through the decompressor, which throws, into the compressor.
CanRecompress(payload) == Plain(payload) # NotGzip
Recompressed(payload) == Gzip(Plain(payload))

\* An exception of the library is none of std::exception: main() does not catch
\* it, and the process is aborted.
ReadArchive ==
    /\ phase = "read"
    /\ LET r == TryRead(source) IN
       IF r.result = "read"
       THEN /\ phase' = "images" /\ archive' = r.archive
            /\ config' = load_config(r.archive)
       ELSE /\ phase' = IF r.result = "throws" THEN "aborted" ELSE "failed"
            /\ UNCHANGED <<archive, config>>
    /\ UNCHANGED <<source, signing, at, file_to_hash_map, dest>>

Entry == config.entries[at]

Hashed(hash) == [config EXCEPT !.entries[at].sha256 = hash]

NextEntry ==
    /\ at' = at + 1
    /\ UNCHANGED <<source, signing, phase, dest>>

\* A name that is not in the archive is as a payload that is empty.
RecompressImage ==
    /\ phase = "images" /\ at \in image_entries
    /\ Entry.file \notin DOMAIN file_to_hash_map
    /\ LET payload      == get_payload_reader(archive, Entry.file)
           recompressed == Recompressed(payload)
       IN IF CanRecompress(payload)
          THEN /\ archive' = set_payload_reader(archive, Entry.file, recompressed)
               /\ file_to_hash_map' =
                     [f \in DOMAIN file_to_hash_map \union {Entry.file} |->
                        IF f = Entry.file THEN hash_reader(recompressed)
                                          ELSE file_to_hash_map[f]]
               /\ config' = Hashed(hash_reader(recompressed))
               /\ NextEntry
          ELSE /\ phase' = "aborted"
               /\ UNCHANGED <<source, signing, archive, config, at, file_to_hash_map, dest>>

\* A slip: the entry keeps the hash it has.
ImageDoneBefore ==
    /\ phase = "images" /\ at \in image_entries
    /\ Entry.file \in DOMAIN file_to_hash_map
    /\ NextEntry
    /\ UNCHANGED <<archive, file_to_hash_map, config>>

\* Another entry for an image that was recompressed.
ImageDone ==
    /\ phase = "images" /\ at \in image_entries
    /\ Entry.file \in DOMAIN file_to_hash_map
    /\ config' = Hashed(file_to_hash_map[Entry.file])
    /\ NextEntry
    /\ UNCHANGED <<archive, file_to_hash_map>>

\* The description as libconfig writes it.
Description == [config EXCEPT !.size = @ + 1]

WithoutSignature(a) == IF has_file(a, SIG_FILE_NAME) THEN remove_file(a, SIG_FILE_NAME) ELSE a

\* The destination is opened, and loses what it had.
Describe ==
    /\ phase = "images" /\ at \notin image_entries
    /\ dest' = EmptyImage
    /\ LET described == set_payload_reader(archive, SW_DESCRIPTION, Description) IN
       IF signing = "none"
       THEN archive' = WithoutSignature(described) /\ phase' = "write"
       ELSE archive' = described /\ phase' = "sign"
    /\ UNCHANGED <<source, signing, config, at, file_to_hash_map>>

\* External: what the signing command writes.
Signature(payload) == [signature_of |-> payload, size |-> SignatureSize, sum |-> 0]

\* generate_description_sig().  get_inode() throws when stat() has succeeded.
Sign ==
    /\ phase = "sign"
    /\ IF signing = "works" /\ has_file(archive, SIG_FILE_NAME)
       THEN /\ archive' = set_payload_reader(archive, SIG_FILE_NAME, Signature(Description))
            /\ phase' = "write"
       ELSE phase' = "failed" /\ UNCHANGED archive
    /\ UNCHANGED <<source, signing, config, at, file_to_hash_map, dest>>

WriteUpdate ==
    /\ phase = "write"
    /\ dest' = Written(archive)
    /\ phase' = "done"
    /\ UNCHANGED <<source, signing, archive, config, at, file_to_hash_map>>

ToolNext == ReadArchive \/ RecompressImage \/ ImageDone \/ Describe \/ Sign \/ WriteUpdate

ToolSpec == ToolInit /\ [][ToolNext]_toolVars

-----------------------------------------------------------------------------
Made == TryRead(dest).archive

Origin == TryRead(source).archive

PayloadsIn(a, name) ==
    {a.m_files[k].payload : k \in {i \in DOMAIN a.m_files : a.m_files[i].name = name}}

ImagesOf(a) == {load_config(a).entries[k].file : k \in DOMAIN load_config(a).entries}

\* In the update that was made every entry of the description, up to a group
\* without images, has the hash of the image it names, however often an image
\* is named and wherever it lies.
HashesAreOfImages ==
    phase = "done" =>
       LET d == load_config(Made) IN
       \A k \in DOMAIN d.entries :
          d.entries[k].group < d.gap =>
             {hash_reader(p) : p \in PayloadsIn(Made, d.entries[k].file)}
                \subseteq {d.entries[k].sha256}

\* The members of an update that was read, without its signature when none is
\* wanted.
KeptOf(a) ==
    IF signing = "none" THEN Without(a.m_files, SIG_FILE_NAME)[Len(a.m_files)] ELSE a.m_files

\* What became of a member: its payload, or the image that was in it, is there.
MemberIsKept(kept, made, a) ==
    /\ made.name = kept.name
    /\ \/ kept.name \in {SW_DESCRIPTION, SIG_FILE_NAME}
       \/ /\ kept.name \in ImagesOf(a)
          /\ Plain(made.payload) = Plain(get_payload_reader(a, kept.name))
       \/ made.payload = kept.payload

MembersAreKept(kept, made, a) ==
    /\ Len(made) = Len(kept)
    /\ \A k \in DOMAIN kept : MemberIsKept(kept[k], made[k], a)

\* The update that was made can be read; it has the members of the one that was
\* read, in their order, with what the images had in them (where a name repeats,
\* the last member of that name) and with the payloads of all other members; only
\* an old signature may be gone.
KeepsTheRest ==
    phase = "done" =>
       /\ TryRead(dest).result = "read"
       /\ MembersAreKept(KeptOf(Origin), Made.m_files, Origin)

\* No update leaves the tool with the signature of another description.
SignatureIsOfDescription ==
    phase = "done" =>
       PayloadsIn(Made, SIG_FILE_NAME) \subseteq {Signature(load_config(Made))}

\* A destination that exists is lost only for an update that was made, or
\* because the signing command failed: what is wrong with the source is noticed
\* before.
FailsBeforeItWrites ==
    phase \in {"failed", "aborted"} => dest = Before \/ signing = "fails"

\* An update that leaves the tool is as the four say, and so is what is there
\* when none does.
UpdateIsSound ==
    HashesAreOfImages /\ KeepsTheRest /\ SignatureIsOfDescription /\ FailsBeforeItWrites
=============================================================================

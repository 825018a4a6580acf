----------------------------- MODULE CpioFormat -----------------------------
(***************************************************************************)
(* cpio archives as native/archives/cpio_archives lays them out and reads  *)
(* them: members, each a header with its name, a payload, and both padded, *)
(* and a trailer.                                                          *)
(*                                                                         *)
(* A payload is a record with its size and its sum; an image, what is      *)
(* written and read, says which header and which payload begin at which    *)
(* offset, and how long it is.  The digits of the header are left out, but *)
(* not that a size has 32 bits there: Word is 2^32.                        *)
(***************************************************************************)
EXTENDS Integers, Sequences, FiniteSets, SequencesExt

CONSTANTS Word, NameLength(_), Empty

TRAILER_NAME == "TRAILER!!!"

NEW_ASCII_HEADER_SIZE == 110

get_padding_needed(offset) == (4 - (offset % 4)) % 4

HeaderSize(f) == NEW_ASCII_HEADER_SIZE + f.namesize

\* Where the payload begins in what is written for f.
DataStart(f) == HeaderSize(f) + get_padding_needed(HeaderSize(f))

is_end_marker(f) == f.name = TRAILER_NAME

get_total_size(f) == DataStart(f) + f.payload.size + f.tail

\* cpio_file::set_payload_reader(), which makes header and paddings again.
WithPayload(f, payload) ==
    [f EXCEPT !.payload = payload,
              !.filesize = payload.size % Word,
              !.check = IF f.format = "newc_ascii" THEN payload.sum ELSE @,
              !.tail = get_padding_needed(payload.size)]

CpioFile(name, inode, format, payload) ==
    WithPayload([name |-> name, namesize |-> NameLength(name) + 1, ino |-> inode,
                 format |-> format, filesize |-> 0, check |-> 0,
                 payload |-> payload, tail |-> 0],
                payload)

Trailer(format) == CpioFile(TRAILER_NAME, 0, format, Empty)

-----------------------------------------------------------------------------
EmptyImage == [headers |-> <<>>, payloads |-> <<>>, size |-> 0]

\* cpio_file::write()
Put(image, f) ==
    [headers  |-> [o \in DOMAIN image.headers \union {image.size} |->
                     IF o = image.size THEN f ELSE image.headers[o]],
     payloads |-> [o \in DOMAIN image.payloads \union {image.size + DataStart(f)} |->
                     IF o = image.size + DataStart(f) THEN f.payload
                                                      ELSE image.payloads[o]],
     size     |-> image.size + get_total_size(f)]

\* What was written after the first k members.
Images(files) ==
    LET image[k \in 0 .. Len(files)] ==
          IF k = 0 THEN EmptyImage ELSE Put(image[k - 1], files[k])
    IN image

\* cpio_archive::write()
WithTrailer(a) == Append(a.m_files, Trailer(a.m_format))

Written(a) == Images(WithTrailer(a))[Len(WithTrailer(a))]

Names(a) == {a.m_files[k].name : k \in DOMAIN a.m_files}

\* A slice that ends past the end cannot be made.
PastTheEnd(image, end) == end > image.size

\* try_read_new_ascii_file_entry() at an offset of an image: what comes of it,
\* and the member.
ReadFile(image, offset) ==
    LET header == image.headers[offset]
        data   == offset + DataStart(header)
        end    == data + header.filesize
        tail   == IF is_end_marker(header) THEN image.size - end
                                           ELSE get_padding_needed(end - offset)
    IN IF \/ offset + NEW_ASCII_HEADER_SIZE > image.size
          \/ offset \notin DOMAIN image.headers
       THEN [result |-> "false"]
       ELSE IF offset + HeaderSize(header) > image.size THEN [result |-> "false"]
       ELSE IF PastTheEnd(image, end) \/ PastTheEnd(image, end + tail) THEN [result |-> "throws"]
       ELSE [result |-> "read",
             file |-> [header EXCEPT
                         !.payload = [image.payloads[data] EXCEPT !.size = header.filesize],
                         !.tail = tail]]

\* The members from an offset on, up to the trailer or to what cannot be read.
MembersFrom(image) ==
    LET from[offset \in 0 .. image.size] ==
          LET r == ReadFile(image, offset) IN
          IF r.result # "read" THEN [result |-> r.result, files |-> <<>>]
          ELSE IF is_end_marker(r.file) THEN [result |-> "read", files |-> <<r.file>>]
          ELSE LET rest == from[offset + get_total_size(r.file)]
               IN [rest EXCEPT !.files = <<r.file>> \o @]
    IN from

-----------------------------------------------------------------------------
(* cpio_archive                                                            *)

NewArchive(format) ==
    [m_format |-> format, m_files |-> <<>>, m_payload_reader_map |-> [n \in {} |-> Empty]]

\* The last member of a name is the one its payload is got from.
LastPayloads(files) ==
    [n \in {files[k].name : k \in DOMAIN files} |->
        LET k == CHOOSE i \in DOMAIN files :
                   files[i].name = n /\ \A j \in DOMAIN files : files[j].name = n => j <= i
        IN files[k].payload]

\* try_read() of an archive that has not read before; members of two formats
\* are not an archive.
TryRead(image) ==
    LET r     == MembersFrom(image)[0]
        files == Front(r.files)
    IN IF r.result # "read" THEN [result |-> r.result]
       ELSE IF \E k \in DOMAIN r.files : r.files[k].format # r.files[1].format
       THEN [result |-> "false"]
       ELSE [result  |-> "read",
             archive |-> [m_format |-> r.files[1].format, m_files |-> files,
                          m_payload_reader_map |-> LastPayloads(files)]]

\* The code compares the name it looks for with itself, so that the first
\* member, if there is one, is the one that is found.
get_file_index(a, name) == 1

has_file(a, name) == get_file_index(a, name) # Len(a.m_files) + 1

get_payload_reader(a, name) ==
    IF name \in DOMAIN a.m_payload_reader_map THEN a.m_payload_reader_map[name] ELSE Empty

set_payload_reader(a, name, payload) ==
    IF name \notin Names(a) THEN a
    ELSE [a EXCEPT
            !.m_files = [k \in DOMAIN @ |->
               IF @[k].name = name THEN WithPayload(@[k], payload) ELSE @[k]],
            !.m_payload_reader_map = [n \in DOMAIN @ \union {name} |->
               IF n = name THEN payload ELSE @[n]]]

\* What is left of the first k members without those of a name.
Without(files, name) ==
    LET left[k \in 0 .. Len(files)] ==
          IF k = 0 THEN <<>>
          ELSE IF files[k].name = name THEN left[k - 1]
          ELSE Append(left[k - 1], files[k])
    IN left

remove_file(a, name) ==
    [a EXCEPT !.m_files = Without(@, name)[Len(@)],
              !.m_payload_reader_map = [n \in DOMAIN @ \ {name} |-> @[n]]]

add_file(a, name, inode, payload) ==
    [a EXCEPT !.m_files = Append(@, CpioFile(name, inode, a.m_format, payload))]
=============================================================================

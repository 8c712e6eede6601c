------------------------------- MODULE Archive -------------------------------
(***************************************************************************)
(* ustar archives: proj2/src/lib/ustar.c, and the commands `extract' and   *)
(* `append' of filesys/fsutil.c that carry files over the scratch device.  *)
(* A byte is its code; a name is a sequence of bytes without a terminator. *)
(***************************************************************************)
EXTENDS SequencesExt

CONSTANTS
  NameSize, OctalSize,     \* bytes of the fields name (100) and size, chksum (12, 8)
  SectorSize,              \* bytes of data in a sector (512)
  DeviceSize               \* sectors of the scratch device

ASSUME ArchiveAssumption ==
  /\ NameSize \in Nat \ {0, 1} /\ OctalSize \in Nat \ {0, 1}
  /\ SectorSize \in Nat \ {0} /\ DeviceSize \in Nat \ {0}

ZeroByte == 0
Space == 32
Dot == 46
Slash == 47
Zero == 48
Regular == 48               \* USTAR_REGULAR, '0'
Directory == 53             \* USTAR_DIRECTORY, '5'
Eof == -1                   \* USTAR_EOF
Magic == <<117, 115, 116, 97, 114, 0>>

Padded(s, size) == s \o [i \in 1..(size - Len(s)) |-> ZeroByte]
SumOf(s) == FoldLeft(LAMBDA a, b : a + b, 0, s)

-----------------------------------------------------------------------------
(* ustar.c.  A header is the sequence of its fields name, size, chksum,    *)
(* typeflag, magic, version and prefix; the others are constant.           *)

HeaderBytes(h) == h.name \o h.size \o h.chksum \o h.typeflag \o h.magic \o h.version \o h.prefix

calculate_chksum(h) ==
  SumOf(HeaderBytes([h EXCEPT !.chksum = [i \in DOMAIN h.chksum |-> Space]]))

RECURSIVE strip_antisocial_prefixes(_)
strip_antisocial_prefixes(file_name) ==
  IF \E p \in {<<Slash>>, <<Dot, Slash>>, <<Dot, Dot, Slash>>} : IsPrefix(p, file_name)
  THEN LET slash == SelectInSeq(file_name, LAMBDA c : c = Slash)
       IN strip_antisocial_prefixes(SubSeq(file_name, slash + 1, Len(file_name)))
  ELSE IF file_name \in {<<>>, <<Dot, Dot>>} THEN <<Dot>> ELSE file_name

\* snprintf() of "%0*o" into a field of the given size.
OctalField(n, size) ==
  LET digit(k) == Zero + ((n \div 8 ^ (size - 1 - k)) % 8)
  IN [k \in 1..size |-> IF k = size THEN ZeroByte ELSE digit(k)]

\* ustar_make_header(): the header, or an empty sequence for failure.
ustar_make_header(file_name, type, size) ==
  LET name == strip_antisocial_prefixes(file_name)
      h == [name |-> Padded(name, NameSize), size |-> OctalField(size, OctalSize),
            chksum |-> Padded(<<>>, OctalSize), typeflag |-> <<type>>, magic |-> Magic,
            version |-> <<Zero, Zero>>, prefix |-> <<ZeroByte>>]
  IN IF Len(name) > NameSize - 1 THEN <<>>
     ELSE <<[h EXCEPT !.chksum = OctalField(calculate_chksum(h), OctalSize)]>>

\* parse_octal_field(): the value, or -1.
parse_octal_field(s) ==
  LET end == SelectInSeq(s, LAMBDA c : c \notin Zero..(Zero + 7))
      value == FoldLeft(LAMBDA v, c : v * 8 + (c - Zero), 0, SubSeq(s, 1, end - 1))
  IN IF end > 1 /\ s[end] \in {Space, ZeroByte} THEN value ELSE -1

is_all_zeros(bytes) == \A i \in DOMAIN bytes : bytes[i] = ZeroByte

CString(s) == SubSeq(s, 1, SelectInSeq(Append(s, ZeroByte), LAMBDA c : c = ZeroByte) - 1)

Failure(message) == [error |-> message, name |-> <<>>, type |-> Eof, size |-> 0]

\* ustar_parse_header(): what a header sector says, or why it is none.
ustar_parse_header(h) ==
  CASE is_all_zeros(HeaderBytes(h)) -> Failure("")
    [] ~is_all_zeros(HeaderBytes(h)) /\ h.magic # Magic -> Failure("not a ustar archive")
    [] h.magic = Magic /\ h.version # <<Zero, Zero>> -> Failure("invalid ustar version")
    [] OTHER ->
         CASE parse_octal_field(h.chksum) = -1 -> Failure("corrupt chksum field")
           [] parse_octal_field(h.chksum) \notin {-1, calculate_chksum(h)} ->
                Failure("checksum mismatch")
           [] OTHER ->
                IF h.name[NameSize] # ZeroByte \/ h.prefix[1] # ZeroByte THEN Failure("file name too long")
                ELSE IF h.typeflag[1] \notin {Regular, Directory}
                THEN Failure("unimplemented file type")
                ELSE IF h.typeflag[1] = Regular /\ parse_octal_field(h.size) = -1
                THEN Failure("corrupt file size field")
                ELSE [error |-> "", name |-> strip_antisocial_prefixes(CString(h.name)),
                      type |-> h.typeflag[1],
                      size |-> IF h.typeflag[1] = Regular THEN parse_octal_field(h.size) ELSE 0]

-----------------------------------------------------------------------------
(* fsutil.c.  A sector holds a header or data; a file is [name, data].  A  *)
(* command is a record with the device, its position and whether it has    *)
(* panicked.                                                               *)

HeaderSector(h) == [header |-> <<h>>, data |-> <<>>]
DataSector(d) == [header |-> <<>>, data |-> d]

\* block_write(), which panics past the end of the device.
WriteSector(a, content) ==
  IF a.panic \/ a.sector >= DeviceSize THEN [a EXCEPT !.panic = TRUE]
  ELSE [a EXCEPT !.dev[a.sector] = content, !.sector = @ + 1]

\* The loop that copies the data of a file to the device.
RECURSIVE AppendData(_, _)
AppendData(a, data) ==
  IF data = <<>> THEN a
  ELSE LET n == IF Len(data) > SectorSize THEN SectorSize ELSE Len(data)
       IN AppendData(WriteSector(a, DataSector(Padded(SubSeq(data, 1, n), SectorSize))),
                     SubSeq(data, n + 1, Len(data)))

\* The end of the archive: a sector of zeros, written again from one byte further
\* on, so that its last byte is the one behind the buffer.  The position stays.
EndMarker(a, junk) ==
  LET w == WriteSector(a, DataSector([i \in 1..SectorSize |->
                                        IF i = SectorSize THEN junk ELSE ZeroByte]))
  IN [w EXCEPT !.sector = a.sector]

fsutil_append(a, file, junk) ==
  LET h == ustar_make_header(file.name, Regular, Len(file.data))
  IN IF h = <<>> THEN [a EXCEPT !.panic = TRUE]
     ELSE EndMarker(AppendData(WriteSector(a, HeaderSector(h[1])), file.data), junk)

\* What the parser makes of a sector: data that are not zeros are no archive.
ParseSector(s) ==
  IF s.header # <<>> THEN ustar_parse_header(s.header[1])
  ELSE IF is_all_zeros(s.data) THEN Failure("") ELSE Failure("not a ustar archive")

\* The data of a file of the given size from sector on.
RECURSIVE ExtractData(_, _, _)
ExtractData(dev, sector, size) ==
  IF size <= 0 THEN <<>>
  ELSE LET n == IF size > SectorSize THEN SectorSize ELSE size
       IN SubSeq(dev[sector].data, 1, n) \o ExtractData(dev, sector + 1, size - n)

SectorsOf(size) == (size + SectorSize - 1) \div SectorSize

\* The loop of fsutil_extract() from a sector on: the files put into the file
\* system, which refuses a name it has.
RECURSIVE ExtractFrom(_, _, _)
ExtractFrom(dev, sector, files) ==
  LET from(p) ==
        LET last == sector + SectorsOf(p.size)
            file == [name |-> p.name, data |-> ExtractData(dev, sector + 1, p.size)]
        IN CASE p.error # "" -> [files |-> files, panic |-> TRUE]
             [] p.error = "" /\ p.type = Eof -> [files |-> files, panic |-> FALSE]
             [] p.error = "" /\ p.type = Directory -> ExtractFrom(dev, sector + 1, files)
             [] OTHER -> IF last >= DeviceSize \/ \E i \in DOMAIN files : files[i].name = p.name
                         THEN [files |-> files, panic |-> TRUE]
                         ELSE ExtractFrom(dev, last + 1, Append(files, file))
  IN IF sector >= DeviceSize THEN [files |-> files, panic |-> TRUE]
     ELSE from(ParseSector(dev[sector]))

\* fsutil_extract(), which erases the first two sectors when it is done.
fsutil_extract(dev) ==
  LET zeros == DataSector(Padded(<<>>, SectorSize))
      erased(r) ==
        [files |-> r.files, panic |-> r.panic,
         dev |-> IF r.panic THEN dev ELSE [s \in DOMAIN dev |-> IF s < 2 THEN zeros ELSE dev[s]]]
  IN erased(ExtractFrom(dev, 0, <<>>))

-----------------------------------------------------------------------------
(* What they promise.                                                      *)

\* A header tells the parser what it was made from, under a name that leaves the
\* directory by no prefix; and no change of a single byte goes unnoticed.
HeadersIntact(file_name, type, size) ==
  LET made == ustar_make_header(file_name, type, size)
      name == strip_antisocial_prefixes(file_name)
      p == ustar_parse_header(made[1])
      fields == {"name", "size", "chksum", "typeflag", "magic", "version", "prefix"}
  IN /\ name # <<>> /\ name # <<Dot, Dot>>
     /\ IsSuffix(name, file_name) \/ name = <<Dot>>
     /\ \A bad \in {<<Slash>>, <<Dot, Slash>>, <<Dot, Dot, Slash>>} : ~IsPrefix(bad, name)
     /\ (made = <<>>) = (Len(name) >= NameSize)
     /\ made # <<>> =>
          /\ p = [error |-> "", name |-> name, type |-> type,
                  size |-> IF type = Regular THEN size ELSE 0]
          /\ \A f \in fields : \A i \in DOMAIN made[1][f] :
               \A c \in {ZeroByte, Space, Slash, Zero, Zero + 1, 97, 255} \ {made[1][f][i]} :
                 ustar_parse_header([made[1] EXCEPT ![f][i] = c]) \in
                   {p, Failure("not a ustar archive"), Failure("invalid ustar version"),
                    Failure("corrupt chksum field"), Failure("checksum mismatch")}

\* The archive that appending files one after another leaves on the device.
Appended(files, junk) ==
  LET start == [dev |-> [s \in 0..(DeviceSize - 1) |-> DataSector(Padded(<<9>>, SectorSize))],
                sector |-> 0, panic |-> FALSE]
  IN FoldLeft(LAMBDA b, f : fsutil_append(b, f, junk), start, files)

\* Files appended one after another, as long as the device has room for them and the
\* end marker, come back from it with their names and contents, whatever byte lies
\* behind fsutil_append()'s buffer; an extraction that ends well leaves an archive
\* without files, and it ends well if that byte is 0.  (With any other, fsutil.c:217 leaves
\* a last sector that is no header, where :212-213 promises two sectors of zeros.)
ArchiveRoundTrip(files, junk) ==
  LET need == FoldLeft(LAMBDA n, f : n + 1 + SectorsOf(Len(f.data)), 0, files)
      came(x) == /\ x.files = files
                 /\ ~x.panic => fsutil_extract(x.dev).files = <<>>
                 /\ junk = 0 => ~x.panic
      went(a) == /\ a.panic = (need + 1 > DeviceSize)
                 /\ ~a.panic => came(fsutil_extract(a.dev))
  IN files # <<>> => went(Appended(files, junk))
=============================================================================

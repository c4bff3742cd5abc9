----------------------------- MODULE ZipLayout -----------------------------
(***************************************************************************)
(* A ZIP file as the structures at its offsets.  `at` maps an offset to     *)
(* what begins there: a local header, the payload of an entry, a data       *)
(* descriptor, the central directory as one block, or one of the records at *)
(* the end.  Fields keep their widths: a value a 16- or 32-bit field cannot *)
(* hold is saturated or refused, as the code does.                          *)
(***************************************************************************)
EXTENDS ZipName, FiniteSets

CONSTANTS
    Max16, Max32,   \* MZ_UINT16_MAX and MZ_UINT32_MAX, scaled down
    Content,        \* what a file can hold; "nothing" is the one of no bytes
    Length,         \* bytes of a content
    Packed          \* bytes of a content once compressed, by method: never none

ASSUME LayoutAssumption ==
    /\ Max16 \in Nat \ {0} /\ Max32 \in Nat \ {0}
    /\ Length \in [Content -> Nat]
    /\ Content \cap {"nothing", "none"} = {"nothing"}
    /\ \A c \in Content : Length[c] = 0 <=> c = "nothing"
    /\ Packed \in [Content -> [{"deflate", "zstd"} -> Nat \ {0}]]
    /\ Packed["nothing"].zstd <= Max32

LOCAL_HEADER == 30      \* MZ_ZIP_LOCAL_DIR_HEADER_SIZE
CENTRAL_HEADER == 46    \* MZ_ZIP_CENTRAL_DIR_HEADER_SIZE
END_HEADER == 22        \* MZ_ZIP_END_OF_CENTRAL_DIR_HEADER_SIZE
END64_HEADER == 56      \* MZ_ZIP64_END_OF_CENTRAL_DIR_HEADER_SIZE
LOCATOR64 == 20         \* MZ_ZIP64_END_OF_CENTRAL_DIR_LOCATOR_SIZE

AtMost(limit, v) == IF v < limit THEN v ELSE limit

(* A zip64 extended information field holding these values. *)
ExtraSize(values) == IF values = << >> THEN 0 ELSE 4 + 8 * Len(values)

CentralSize(rec) == CENTRAL_HEADER + Len(rec.name) + ExtraSize(rec.extra)

(* A record of the central directory. *)
Record ==
    [name : Seq(Char), method : {"store", "deflate", "zstd"}, uncomp : 0 .. Max32,
     comp : 0 .. Max32, ofs : 0 .. Max32, extra : Seq(Nat)]

(* The structures. *)
LocalHeader(name, method, extra, sized) ==
    [kind |-> "local", name |-> name, method |-> method, extra |-> extra, footer |-> sized]
Payload(data, method, dict, size) ==
    [kind |-> "payload", data |-> data, method |-> method, dict |-> dict, size |-> size]
Directory(recs) == [kind |-> "directory", recs |-> recs]
End64(total, size, ofs) == [kind |-> "end64", total |-> total, size |-> size, ofs |-> ofs]
Locator64(ofs) == [kind |-> "locator64", ofs |-> ofs]
End(total, size, ofs) == [kind |-> "end", total |-> total, size |-> size, ofs |-> ofs]

IsAt(file, ofs, kind) == ofs \in DOMAIN file.at /\ file.at[ofs].kind = kind

(* Writing at an offset: what began in the bytes written over is gone. *)
Write(file, ofs, size, structure) ==
    LET keep == {o \in DOMAIN file.at : o < ofs \/ o >= ofs + size} IN
    [size |-> IF file.size > ofs + size THEN file.size ELSE ofs + size,
     at |-> [o \in keep \cup {ofs} |-> IF o = ofs THEN structure ELSE file.at[o]]]

(* `length` bytes copied from one file to another. *)
Copy(file, ofs, src, from, length) ==
    LET there == {o \in DOMAIN src.at : from <= o /\ o < from + length}
        keep == {o \in DOMAIN file.at : o < ofs \/ o >= ofs + length} IN
    [size |-> IF file.size > ofs + length THEN file.size ELSE ofs + length,
     at |-> [o \in keep \cup {ofs + (p - from) : p \in there} |->
                IF o \in keep THEN file.at[o] ELSE src.at[o - ofs + from]]]

Empty == [size |-> 0, at |-> << >>]

(* The file at the end of an executable of `base` bytes. *)
Appended(base, file) ==
    [size |-> base + file.size,
     at |-> [o \in {base + p : p \in DOMAIN file.at} |-> file.at[o - base]]]
=============================================================================

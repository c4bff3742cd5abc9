----------------------------- MODULE ZipWriter -----------------------------
(***************************************************************************)
(* The archive writer of miniz, one operator per call.  A call maps a       *)
(* writer to the set of its outcomes, [ok, w]: an allocation or a write may *)
(* fail on the way and leave bytes in the file that no record speaks of.    *)
(***************************************************************************)
EXTENDS ZipLayout

(* mz_zip_archive with its state: `ofs` is m_archive_size, where the next   *)
(* entry goes; `dir` is m_central_dir, of `dirsize` bytes.                  *)
writer_init ==
    [file |-> Empty, ofs |-> 0, dir |-> << >>, dirsize |-> 0, zip64 |-> FALSE, mode |-> "writing"]

TotalFiles(w) == Len(w.dir)

Done(w) == {[ok |-> TRUE, w |-> w]}
Fails_silent(w) == {[ok |-> TRUE, w |-> w]}     \* mutant: the error is not passed on

Fails(w) == {[ok |-> FALSE, w |-> w]}

(* What the packer adds: `comp` bytes that hold `data`. *)
Bytes(data, method) == IF method = "store" THEN Length[data] ELSE Packed[data][method]

(* A method other than "store" asked of a content of three bytes or less is *)
(* deflate that stays undone.                                               *)
MethodFor(data, asked) ==
    IF asked = "deflate" /\ Length[data] <= 3 THEN "store" ELSE asked

zip64_extra_noofs(uncomp, comp, ofs) ==     \* mutant: the offset is left out
    IF uncomp >= Max32 THEN <<uncomp, comp>> ELSE << >>

(* create_zip64_extra_data: both sizes as soon as the content is too long,  *)
(* even if its compressed form is not.                                      *)
zip64_extra(uncomp, comp, ofs) ==
    (IF uncomp >= Max32 THEN <<uncomp, comp>> ELSE << >>)
        \o (IF ofs >= Max32 THEN <<ofs>> ELSE << >>)

create_central_header(name, method, uncomp, comp, ofs, extra) ==
    [name |-> name, method |-> method, uncomp |-> AtMost(Max32, uncomp),
     comp |-> AtMost(Max32, comp), ofs |-> AtMost(Max32, ofs), extra |-> extra]

(* The writer turns to zip64 by itself: too many records, an entry too      *)
(* long, or an archive that is too large already (the entry's own bytes are *)
(* not counted).                                                            *)
NeedsZip64(w, buffer, uncomp) ==
    w.zip64 \/ TotalFiles(w) = Max16 \/ buffer > Max32 \/ uncomp > Max32

OutgrowsZip32(w, name) ==
    w.ofs + LOCAL_HEADER + Len(name) + CENTRAL_HEADER + Len(name)
        + w.dirsize + END_HEADER + 16 > Max32

(* The local header, the name and the extended field, which does not know   *)
(* the compressed size yet.                                                 *)
LocalExtra(w, uncomp) == IF w.zip64 THEN zip64_extra(uncomp, 0, w.ofs) ELSE << >>

HeaderSize_noextra(name, local) == LOCAL_HEADER + Len(name)      \* mutant: data over the field

HeaderSize(name, local) == LOCAL_HEADER + Len(name) + ExtraSize(local)

WithHeader(w, name, method, local, uncomp) ==
    Write(w.file, w.ofs, HeaderSize(name, local), LocalHeader(name, method, local, uncomp > 0))

(* The data descriptor: none behind nothing, longer if the header has an    *)
(* extended field, and refused if the compressed size does not fit it.      *)
FooterSize(uncomp, local) == IF uncomp = 0 THEN 0 ELSE IF local = << >> THEN 16 ELSE 24
FooterFits(uncomp, comp, local) == local = << >> /\ uncomp > 0 => comp <= Max32

WithFooter(file, at, size) ==
    IF size = 0 THEN file ELSE Write(file, at, size, [kind |-> "footer", size |-> size])

(* The record in the central directory; its extended field is made anew.    *)
RecordOf(w, name, method, uncomp, comp, local) ==
    create_central_header(name, method, uncomp, comp, w.ofs,
        IF local = << >> THEN << >> ELSE zip64_extra(uncomp, comp, w.ofs))

(* mz_zip_writer_add_to_central_dir *)
WithRecord(w, file, ofs, rec) ==
    [w EXCEPT !.file = file, !.ofs = ofs, !.dir = Append(@, rec), !.dirsize = @ + CentralSize(rec)]

(* mz_zip_writer_add_mem_ex_v2 *)
add_mem(w0, name, data, asked, dict) ==
    LET method == MethodFor(data, asked)
        uncomp == Length[data]
        comp == Bytes(data, method)
        w1 == [w0 EXCEPT !.zip64 = NeedsZip64(w0, IF method = "zstd" THEN comp ELSE uncomp, uncomp)]
        w == [w1 EXCEPT !.zip64 = @ \/ OutgrowsZip32(w1, name)]
        local == LocalExtra(w, uncomp)
        header == WithHeader(w, name, method, local, uncomp)
        body == w.ofs + HeaderSize(name, local)
        payload == IF comp = 0 THEN header
                   ELSE Write(header, body, comp, Payload(data, method, dict, comp))
        footer == FooterSize(uncomp, local)
        file == WithFooter(payload, body + comp, footer)
    IN  IF w.mode # "writing" THEN Fails(w0)
        ELSE IF \/ Len(name) > Max16
                \/ w.dirsize + CENTRAL_HEADER + Len(name) + 28 >= Max32
        THEN Fails(w1)
        ELSE Fails(w)                                   \* no memory: nothing written
             \cup Fails([w EXCEPT !.file = header])     \* a write fails
             \cup Fails([w EXCEPT !.file = payload])
             \cup Fails([w EXCEPT !.file = file])       \* no memory for the record
             \cup (IF ~FooterFits(uncomp, comp, local) THEN {}
                   ELSE Done(WithRecord(w, file, body + comp + footer,
                                        RecordOf(w, name, method, uncomp, comp, local))))

(* What is copied of a carried entry: its header, its data, and a data      *)
(* descriptor if the header speaks of one.                                  *)
DescriptorSize(lh) == IF lh.footer THEN 16 ELSE 0
CopiedSize(lh, comp) == HeaderSize(lh.name, lh.extra) + comp + DescriptorSize(lh)

(* Room is asked for a descriptor (16) whether there is one or not. *)
TooLargeToCopy(w, rec, lh, comp) ==
    w.ofs + HeaderSize(lh.name, lh.extra) + comp + 16 + w.dirsize
        + CentralSize(rec) + END_HEADER + 64 >= Max32

(* Its record is the old one with the new offset. *)
MovedRecord(rec, ofs) == [rec EXCEPT !.ofs = ofs]

(* mz_zip_writer_add_from_zip_reader: the bytes as they are, the record     *)
(* with its new offset.  `src` is the file the record comes from, `from`    *)
(* and `comp` what file_stat makes of it.  The writer is never zip64 here:  *)
(* the packer carries before it adds.                                       *)
add_from_zip_reader(w, src, src64, rec, from, comp) ==
    IF \/ w.mode # "writing" \/ src64 \/ TotalFiles(w) = Max16
       \/ ~IsAt(src, from, "local")
    THEN Fails(w)
    ELSE LET lh == src.at[from]
             length == CopiedSize(lh, comp)
             file == Copy(w.file, w.ofs, src, from, length)
         IN  IF TooLargeToCopy(w, rec, lh, comp) THEN Fails(w)
             ELSE Fails(w)
                  \cup Fails([w EXCEPT !.file = file])
                  \cup Done(WithRecord(w, file, w.ofs + length, MovedRecord(rec, w.ofs)))

(* mz_zip_writer_finalize_archive *)
finalize_archive(w) ==
    LET dirsize == w.dirsize
        dirofs == IF w.dir = << >> THEN 0 ELSE w.ofs
        f1 == IF w.dir = << >> THEN w.file ELSE Write(w.file, w.ofs, dirsize, Directory(w.dir))
        o1 == w.ofs + dirsize
        f2 == IF ~w.zip64 THEN f1
              ELSE Write(Write(f1, o1, END64_HEADER, End64(TotalFiles(w), dirsize, dirofs)),
                         o1 + END64_HEADER, LOCATOR64, Locator64(o1))
        o2 == IF w.zip64 THEN o1 + END64_HEADER + LOCATOR64 ELSE o1
        f3 == Write(f2, o2, END_HEADER,
                    End(AtMost(Max16, TotalFiles(w)), AtMost(Max32, dirsize), AtMost(Max32, dirofs)))
        tooMuch == IF w.zip64 THEN dirsize >= Max32
                   ELSE TotalFiles(w) > Max16 \/ w.ofs + dirsize + END_HEADER > Max32
    IN  IF w.mode # "writing" \/ tooMuch THEN Fails(w)
        ELSE Fails([w EXCEPT !.file = f1]) \cup Fails([w EXCEPT !.file = f2])
             \cup Done([w EXCEPT !.file = f3, !.ofs = o2 + END_HEADER, !.mode = "finalized"])

-----------------------------------------------------------------------------
(* The ways to begin a writer on a file: a new one with room at its start   *)
(* (mz_zip_writer_init_file_v2), or one that is being read, whose entries   *)
(* stay and whose directory the next entry is written over                  *)
(* (mz_zip_writer_init_from_reader_v2).  `ar` is what the reader made of    *)
(* the file, `dir` the place and the size of its directory.                 *)
writer_init_file(reserve) ==
    [writer_init EXCEPT !.ofs = reserve, !.file = [size |-> reserve, at |-> << >>]]

HasRoom(file, ar) ==
    ar.zip64 \/ (Len(ar.recs) # Max16 /\ file.size + CENTRAL_HEADER + LOCAL_HEADER <= Max32)

init_from_reader_behind(file, ar, dir) ==       \* mutant: behind the archive, not over its directory
    [writer_init EXCEPT !.file = file, !.ofs = dir.ofs + dir.size, !.dir = ar.recs,
                        !.dirsize = 0, !.zip64 = ar.zip64]

init_from_reader(file, ar, dir) ==
    [writer_init EXCEPT !.file = file, !.ofs = dir.ofs, !.dir = ar.recs,
                        !.dirsize = IF ar.recs = << >> THEN 0 ELSE dir.size, !.zip64 = ar.zip64]

(* mz_zip_writer_end: the file is closed, which may fail, whether the       *)
(* archive is finished or not.                                              *)
writer_end(w) ==
    IF w.mode \notin {"writing", "finalized"} THEN Fails(w)
    ELSE Done([w EXCEPT !.mode = "invalid"]) \cup Fails([w EXCEPT !.mode = "invalid"])

validate_archive_name(name) == name = << >> \/ name[1] # 47

-----------------------------------------------------------------------------
(* Adding what a callback delivers (mz_zip_writer_add_read_buf_callback):   *)
(* `max` bytes are announced, `got` comes.  What is announced decides on    *)
(* zip64, the method and the local header.  `sized`: the header is written  *)
(* again with the sizes (WRITE_HEADER_SET_SIZE), in place of a descriptor.  *)
STREAM_SLACK == 1024

StreamWriter(w, name, max) ==
    LET w1 == [w EXCEPT !.zip64 = NeedsZip64(w, max, max)] IN
    [w1 EXCEPT !.zip64 = @ \/ OutgrowsZip32([w1 EXCEPT !.ofs = @ + STREAM_SLACK], name)]

StreamMethod(max, asked) == IF max <= 3 THEN "store" ELSE asked

StreamExtra_noofs(w, max, sized, uncomp, comp) ==       \* mutant: the offset is left out
    IF w.zip64 /\ sized /\ max >= Max32 THEN <<uncomp, comp>> ELSE << >>

StreamExtra(w, max, sized, uncomp, comp) ==
    (IF w.zip64 /\ sized /\ max >= Max32 THEN <<uncomp, comp>> ELSE << >>)
        \o (IF w.zip64 /\ w.ofs >= Max32 THEN <<w.ofs>> ELSE << >>)

(* The code also writes extended fields with no value in them: in front of  *)
(* 4 GB that are announced and get a descriptor, or that do not come.       *)
HasEmptyField(w, max, sized, uncomp) ==
    max >= Max32 /\ w.ofs < Max32 /\ ~(sized /\ uncomp >= Max32)

(* Every entry has the descriptor, an empty one too. *)
StreamFooter(sized, local) == IF sized THEN 0 ELSE IF local = << >> THEN 16 ELSE 24

(* The pieces as they come.  More than was announced is refused when the    *)
(* piece too many comes.                                                    *)
StreamPayload(header, body, max, got, method) ==
    LET comp == IF max = 0 THEN 0 ELSE Bytes(got, method) IN
    IF max > 0 /\ Length[got] > max THEN Write(header, body, max, [kind |-> "torn"])
    ELSE IF comp = 0 THEN header ELSE Write(header, body, comp, Payload(got, method, "none", comp))

(* The local header as it stands when all is done; the second time it has   *)
(* the length of the first.                                                 *)
StreamHeader(w, name, method, local, sized) ==
    Write(w.file, w.ofs, HeaderSize(name, local), LocalHeader(name, method, local, ~sized))

add_stream(w0, name, max, got, asked, sized) ==
    LET w == StreamWriter(w0, name, max)
        method == StreamMethod(max, asked)
        uncomp == IF max = 0 THEN 0 ELSE Length[got]
        comp == IF max = 0 THEN 0 ELSE Bytes(got, method)
        local == StreamExtra(w, max, sized, uncomp, comp)
        header == StreamHeader(w, name, method, local, sized)
        body == w.ofs + HeaderSize(name, local)
        payload == StreamPayload(header, body, max, got, method)
        footer == StreamFooter(sized, local)
        file == WithFooter(payload, body + comp, footer)
    IN  IF w0.mode # "writing" THEN Fails(w0)
        ELSE IF ~validate_archive_name(name) THEN Fails([w0 EXCEPT !.zip64 = @ \/ max > Max32])
        ELSE IF Len(name) > Max16 \/ w.dirsize + CENTRAL_HEADER + Len(name) + 28 >= Max32
        THEN Fails([w0 EXCEPT !.zip64 = NeedsZip64(w0, max, max)])
        ELSE Fails(w) \cup Fails([w EXCEPT !.file = header]) \cup Fails([w EXCEPT !.file = payload])
             \cup (IF uncomp > max \/ (~sized /\ local = << >> /\ comp > Max32) THEN {}
                   ELSE Fails([w EXCEPT !.file = file])
                        \cup Done(WithRecord(w, file, body + comp + footer,
                                             RecordOf(w, name, method, uncomp, comp, local))))

(* mz_zip_writer_add_file: the size is asked for first; then the file is    *)
(* read, which may be longer or shorter by now, or end with a read error.   *)
add_file(w, name, size, got, asked) ==
    Fails(w) \cup add_stream(w, name, size, got, asked, FALSE)

-----------------------------------------------------------------------------
(* The entry is added, the archive finished and the file closed: each of    *)
(* these steps is taken whatever came of the one before.                    *)
AddAndEnd(w, name, data, asked) ==
    UNION {UNION {{[ok |-> a.ok /\ f.ok /\ e.ok, finished |-> f.ok, file |-> e.w.file] :
                     e \in writer_end(f.w)} : f \in finalize_archive(a.w)} :
               a \in add_mem(w, name, data, asked, "none")}

(* mz_zip_add_mem_to_archive_file_in_place_v2 on a file that is there, and  *)
(* the files it can leave where there was none: if anything fails, none.    *)
add_mem_in_place(file, ar, dir, name, data, asked) ==
    LET untouched == [ok |-> FALSE, finished |-> TRUE, file |-> file] IN
    IF ~validate_archive_name(name) \/ ~ar.ok \/ ~HasRoom(file, ar) THEN {untouched}
    ELSE {untouched} \cup AddAndEnd(init_from_reader(file, ar, dir), name, data, asked)

add_mem_to_new(name, data, asked) ==
    IF ~validate_archive_name(name) THEN {}
    ELSE {r \in AddAndEnd(writer_init_file(0), name, data, asked) : r.ok}
=============================================================================

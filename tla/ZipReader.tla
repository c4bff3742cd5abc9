----------------------------- MODULE ZipReader -----------------------------
(***************************************************************************)
(* The archive reader of miniz on a file of module ZipLayout: opening it    *)
(* (mz_zip_reader_read_central_dir), what it says of a record and what it   *)
(* extracts.                                                                *)
(***************************************************************************)
EXTENDS ZipLayout

CONSTANT IoBuf      \* bytes of a read buffer, MZ_ZIP_MAX_IO_BUF_SIZE

ASSUME ReaderAssumption == IoBuf \in Nat \ {0}

NoArchive == [ok |-> FALSE, zip64 |-> FALSE, recs |-> << >>]

(* mz_zip_reader_locate_header_sig as far as it goes here: the last record  *)
(* of that kind.  How far back it really looks is module ZipOpen's.         *)
EndRecords(file) == {o \in DOMAIN file.at : file.at[o].kind = "end"}
LastEnd(file) == CHOOSE o \in EndRecords(file) : \A p \in EndRecords(file) : p <= o

(* The locator stands just before the end record.  One that points past the *)
(* file refuses the archive; one that points at something else is ignored.  *)
HasLocator(file, end) ==
    end >= LOCATOR64 + END64_HEADER /\ IsAt(file, end - LOCATOR64, "locator64")
LocatorOfs(file, end) == file.at[end - LOCATOR64].ofs

IsZip64(file, end) == HasLocator(file, end) /\ IsAt(file, LocatorOfs(file, end), "end64")

(* Where the fields come from. *)
EndFields(file, end) ==
    IF IsZip64(file, end) THEN file.at[LocatorOfs(file, end)] ELSE file.at[end]

(* The central directory is where the fields say, and has so many records.  *)
DirectoryIsThere(file, e) ==
    e.total > 0 => IsAt(file, e.ofs, "directory") /\ e.total <= Len(file.at[e.ofs].recs)
RecordsOf(file, e) == IF e.total = 0 THEN << >> ELSE SubSeq(file.at[e.ofs].recs, 1, e.total)

(* A record with a saturated field and an extended one makes the archive    *)
(* zip64 although no header at its end says so.                             *)
UsesExtended(rec) == rec.extra # << >> /\ Max32 \in {rec.comp, rec.uncomp, rec.ofs}

(* The checks on one record, before anything is looked up. *)
RecordIsSane(file, rec) ==
    /\ (rec.comp # Max32 /\ rec.uncomp # Max32) =>
        /\ rec.method = "store" => rec.uncomp = rec.comp
        /\ ~(rec.uncomp # 0 /\ rec.comp = 0)
    /\ rec.comp # Max32 => rec.ofs + LOCAL_HEADER + rec.comp <= file.size

(* mz_zip_reader_read_central_dir *)
read_central_dir(file) ==
    IF file.size < END_HEADER \/ EndRecords(file) = {} THEN NoArchive
    ELSE LET end == LastEnd(file)
             e == EndFields(file, end)
             recs == RecordsOf(file, e) IN
         IF \/ HasLocator(file, end) /\ LocatorOfs(file, end) > file.size - END64_HEADER
            \/ e.size < e.total * CENTRAL_HEADER
            \/ e.ofs + e.size > file.size
            \/ ~DirectoryIsThere(file, e)
         THEN NoArchive
         ELSE IF \E i \in DOMAIN recs : ~RecordIsSane(file, recs[i]) THEN NoArchive
         ELSE [ok |-> TRUE, recs |-> recs,
               zip64 |-> IsZip64(file, end) \/ \E i \in DOMAIN recs : UsesExtended(recs[i])]

(* mz_zip_file_stat_internal: a saturated field is the next value of the    *)
(* extended information, in the order uncompressed, compressed, offset.     *)
(* Without such a field it stays as it is; one that is too short is refused.*)
Saturated(rec) == <<rec.uncomp = Max32, rec.comp = Max32, rec.ofs = Max32>>

Nth(rec, k) == Cardinality({j \in 1 .. k : Saturated(rec)[j]})

StatValue(rec, k, field) ==
    IF Saturated(rec)[k] /\ rec.extra # << >> THEN rec.extra[Nth(rec, k)] ELSE field

StatWorks(rec) == rec.extra = << >> \/ Nth(rec, 3) <= Len(rec.extra)

IsDirName(name) == name # << >> /\ name[Len(name)] = 47

file_stat(rec) ==
    [ok |-> StatWorks(rec),
     uncomp |-> IF StatWorks(rec) THEN StatValue(rec, 1, rec.uncomp) ELSE 0,
     comp |-> IF StatWorks(rec) THEN StatValue(rec, 2, rec.comp) ELSE 0,
     ofs |-> IF StatWorks(rec) THEN StatValue(rec, 3, rec.ofs) ELSE 0,
     dir |-> IsDirName(rec.name)]

(* mz_zip_reader_extract_to_heap with `dict` loaded: the content, or a      *)
(* failure.  A payload read at another place, in another length, by another *)
(* method or with another dictionary does not pass the checks of size and   *)
(* CRC.                                                                     *)
NoData == [ok |-> FALSE]
HasData(data) == [ok |-> TRUE, data |-> data]

extract(file, rec, dict) ==
    LET st == file_stat(rec)
        body == st.ofs + LOCAL_HEADER + Len(file.at[st.ofs].name) + ExtraSize(file.at[st.ofs].extra)
    IN  IF ~st.ok THEN NoData
        ELSE IF st.dir \/ st.comp = 0 THEN HasData("nothing")
        ELSE IF ~IsAt(file, st.ofs, "local") THEN NoData
        ELSE IF body + st.comp > file.size \/ ~IsAt(file, body, "payload") THEN NoData
        ELSE LET p == file.at[body] IN
             IF /\ p.size = st.comp /\ p.method = rec.method
                /\ Length[p.data] = st.uncomp
                /\ p.method = "zstd" => p.dict \in {"none", dict}
             THEN HasData(p.data)
             ELSE NoData

(* mz_zip_reader_locate_file: a record of that name, 0 when there is none.  *)
(* Module ZipOpen has the sorted index and the search in it, which promise  *)
(* no more than that when the name is there twice.                          *)
locate_file(recs, name) ==
    LET hits == {k \in DOMAIN recs : SameName(recs[k].name, name)} IN
    IF hits = {} THEN {0} ELSE hits

(* mz_zip_reader_extract_file_to_heap, and _to_mem into a buffer that holds *)
(* the entry.                                                               *)
extract_file(file, recs, name, dict) ==
    {IF k = 0 THEN NoData ELSE extract(file, recs[k], dict) : k \in locate_file(recs, name)}

-----------------------------------------------------------------------------
(* The other entry points of the reader.  They know two methods.            *)
is_file_supported(rec) == rec.method \in {"store", "deflate"}

DataAt(file, ofs) == ofs + LOCAL_HEADER + Len(file.at[ofs].name) + ExtraSize(file.at[ofs].extra)

(* An entry's header is where its record says, and its data is in the file. *)
Begins(file, st) == IsAt(file, st.ofs, "local") /\ DataAt(file, st.ofs) + st.comp <= file.size

(* What the bytes behind the header come to, by the size and the CRC of the *)
(* record.                                                                  *)
Decoded(file, rec, st) ==
    LET body == DataAt(file, st.ofs) IN
    IF st.comp = 0 /\ st.uncomp = 0 THEN HasData("nothing")
    ELSE IF /\ IsAt(file, body, "payload") /\ file.at[body].size = st.comp
            /\ file.at[body].method = rec.method /\ Length[file.at[body].data] = st.uncomp
    THEN HasData(file.at[body].data) ELSE NoData

(* mz_zip_reader_extract_to_callback: what the callback was given once it   *)
(* reports success.                                                         *)
extract_to_callback(file, rec) ==
    LET st == file_stat(rec) IN
    IF ~st.ok THEN NoData
    ELSE IF st.dir \/ st.comp = 0 THEN HasData("nothing")
    ELSE IF ~is_file_supported(rec) \/ ~Begins(file, st) THEN NoData
    ELSE Decoded(file, rec, st)

(* mz_zip_reader_extract_to_file and _cfile: no file for a directory. *)
extract_to_file(file, rec) ==
    IF file_stat(rec).dir \/ ~is_file_supported(rec) THEN NoData ELSE extract_to_callback(file, rec)

(* mz_zip_extract_archive_file_to_heap: opened, looked up and closed again. *)
extract_archive_file_to_heap(file, name, dict) ==
    LET ar == read_central_dir(file) IN
    IF ~ar.ok THEN {NoData} ELSE extract_file(file, ar.recs, name, dict)

-----------------------------------------------------------------------------
(* mz_zip_validate_file.  The local header has the record's name; a name    *)
(* that does not fit m_filename is compared cut off, and differs.           *)
FILENAME_SIZE == 512

LocalHeaderAgrees(file, rec, st) ==
    Begins(file, st) /\ file.at[st.ofs].name = rec.name /\ Len(rec.name) < FILENAME_SIZE

(* A data descriptor is looked for in the length that goes with the form of *)
(* the archive, whatever length this entry's was written in.  A header      *)
(* without one has the sizes itself.                                        *)
DescriptorAgrees_any(file, st, zip64) == TRUE       \* mutant: it is not read

DescriptorAgrees(file, st, zip64) ==
    LET at == DataAt(file, st.ofs) + st.comp IN
    file.at[st.ofs].footer =>
        IsAt(file, at, "footer") /\ file.at[at].size = (IF zip64 THEN 24 ELSE 16)

validate_file(file, zip64, rec, headersOnly) ==
    LET st == file_stat(rec) IN
    st.ok /\ (\/ st.dir \/ st.uncomp = 0
              \/ /\ is_file_supported(rec)
                 /\ LocalHeaderAgrees(file, rec, st) /\ DescriptorAgrees(file, st, zip64)
                 /\ headersOnly \/ extract_to_callback(file, rec).ok)

(* mz_zip_validate_archive, and with it mz_zip_validate_file_archive.  With *)
(* `locate` the search must come back with each record itself.              *)
validate_archive(file, headersOnly, locate) ==
    LET ar == read_central_dir(file) IN
    /\ ar.ok
    /\ IF ar.zip64 THEN EndFields(file, LastEnd(file)).size < Max32
       ELSE Len(ar.recs) <= Max16 /\ file.size <= Max32
    /\ \A k \in DOMAIN ar.recs :
        /\ locate => locate_file(ar.recs, ar.recs[k].name) = {k}
        /\ validate_file(file, ar.zip64, ar.recs[k], headersOnly)

-----------------------------------------------------------------------------
(* mz_zip_reader_extract_iter_state: what the entry decodes to, the bytes   *)
(* handed out so far and the status, "done" from the start.                 *)
NoIter == [ok |-> FALSE]

extract_iter_new(file, rec) ==
    LET st == file_stat(rec) IN
    IF ~st.ok \/ ~is_file_supported(rec) \/ ~Begins(file, st) THEN NoIter
    ELSE [ok |-> TRUE, stat |-> st, stored |-> rec.method = "store",
          content |-> Decoded(file, rec, st), out |-> 0, status |-> "done"]

(* Bytes still to come.  The bytes of a stored entry come whatever they     *)
(* are; a stream that is not its entry's is taken to fail at once.          *)
Left(it) == (IF it.stored THEN it.stat.comp ELSE it.stat.uncomp) - it.out

(* When a buffer is full the stream may not have come to its end, even if   *)
(* nothing is left to hand out: its last symbol may be in the next piece of *)
(* a payload that one read buffer does not hold.                            *)
MayLackEnd(it, n) == n < Left(it) \/ (n = Left(it) /\ it.stat.comp > IoBuf)

(* mz_zip_reader_extract_iter_read into a buffer of n bytes. *)
extract_iter_read(it, n) ==
    LET moved == [it EXCEPT !.out = @ + AtMost(Left(it), n)] IN
    IF it.stored THEN {moved}
    ELSE IF ~it.content.ok THEN {[it EXCEPT !.status = "failed"]}
    ELSE {[moved EXCEPT !.status = "done"]}
         \cup (IF MayLackEnd(it, n) THEN {[moved EXCEPT !.status = "more"]} ELSE {})

extract_iter_free_unsized(it) ==       \* mutant: the size is not looked at
    it.status = "done" /\ it.content.ok

(* mz_zip_reader_extract_iter_free: whether all of it was read and right.   *)
extract_iter_free(it) == it.status = "done" /\ it.out = it.stat.uncomp /\ it.content.ok
=============================================================================

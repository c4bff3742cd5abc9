------------------------------ MODULE MCPacker ------------------------------
(* Command lines with all that can meet.  A carried file is a program of 100 bytes, with an  *)
(* archive the writer made behind it, its offsets moved or not.             *)
EXTENDS Packer

MCChar == {46, 47, 97, 98, 99, 100, 115, 117}
MCLower == [c \in MCChar |-> c]
MCZdict == <<46, 117>>
MCSymtab == <<46, 115>>

MCLength == [c \in Content |->
    CASE c = "nothing" -> 0 [] c = "short" -> 3 [] c = "text" -> 90
      [] c \in {"huge", "vast"} -> 2100 [] OTHER -> 40]
MCPacked == [c \in Content |->
    CASE c = "nothing" -> [deflate |-> 2, zstd |-> 9]
      [] c = "short" -> [deflate |-> 5, zstd |-> 12]
      [] c = "text" -> [deflate |-> 45, zstd |-> 35]
      [] c = "huge" -> [deflate |-> 2110, zstd |-> 2115]    \* past "32 bits", and stays so
      [] c = "vast" -> [deflate |-> 50, zstd |-> 45]        \* past them, and shrinks
      [] OTHER -> [deflate |-> 38, zstd |-> 41]]

File(name, data, deflate) == [name |-> name, type |-> "FTW_F", data |-> data, deflate |-> deflate]
Other(name, type) == [name |-> name, type |-> type]

(* a file, a directory with one file in it, a link, an empty file *)
Tree ==
    <<File(<<97>>, "text", FALSE), Other(<<100>>, "FTW_D"), File(<<100, 47, 97>>, "short", TRUE),
      Other(<<115>>, "FTW_SL"), File(<<117>>, "nothing", FALSE)>>

(* A directory that cannot be read. *)
Unreadable == Append(Tree, Other(<<99>>, "FTW_DNR"))

(* More than "32 bits": in one file, and behind it.  One behind them that   *)
(* shrinks.  More than "16 bits" count.                                     *)
Huge == <<File(<<99>>, "vast", FALSE), File(<<100>>, "huge", TRUE), File(<<97>>, "text", FALSE)>>
Shrinks == <<File(<<100>>, "huge", TRUE), File(<<99>>, "vast", FALSE), File(<<97>>, "text", FALSE)>>
(* A name the carried archive has too. *)
Again == <<File(<<98>>, "short", FALSE), File(<<97>>, "text", TRUE)>>
(* Nothing the other calls of miniz could not read, but for an empty file.  *)
Deflated ==
    <<File(<<97>>, "text", TRUE), Other(<<100>>, "FTW_D"), File(<<100, 47, 97>>, "short", TRUE),
      File(<<117>>, "nothing", FALSE)>>
Many ==
    [k \in 1 .. 13 |-> File([j \in 1 .. (k + 1) \div 2 |-> IF k % 2 = 0 THEN 97 ELSE 99], "short", k % 2 = 0)]
ManyDeflated == [k \in 1 .. 13 |-> [Many[k] EXCEPT !.deflate = TRUE]]

-----------------------------------------------------------------------------
OkOf(outcomes) == (CHOOSE r \in outcomes : r.ok).w

ArchiveBehind(reserve, entries) ==
    OkOf(finalize_archive(FoldLeft(LAMBDA wr, e : OkOf(add_mem(wr, e[1], e[2], e[3], e[4])),
                                   writer_init_file(reserve), entries))).file
Archive(entries) == ArchiveBehind(0, entries)

(* Moved the way adjust_offsets does it, or by the linker of the program.   *)
Moved(file, by) ==
    LET end == file.size - END_HEADER
        moved == [file EXCEPT !.at[end].ofs = @ + by] IN
    IF file.at[end].total = 0 THEN moved
    ELSE [moved EXCEPT !.at[file.at[end].ofs].recs =
            [k \in DOMAIN @ |-> [@[k] EXCEPT !.ofs = @ + by]]]

Carry(file) == [given |-> TRUE, program |-> 100, file |-> file]

Plain == Carry([size |-> 100, at |-> << >>])
NoEntries == Carry(Appended(100, Moved(Archive(<< >>), 100)))
Symtab == <<MCSymtab, "text", "deflate", "none">>
Old == <<<<98>>, "text", "deflate", "none">>
OldDir == <<<<98, 98, 47>>, "nothing", "store", "none">>
OldZstd == <<<<99>>, "text", "zstd", "dictA">>
DictA == <<MCZdict, "dictA", "store", "none">>
Ape == Carry(Appended(100, Moved(Archive(<<Symtab, Old, OldDir>>), 100)))
Ours == Carry(Appended(100, Moved(Archive(<<DictA, OldZstd, Old>>), 100)))
(* Made where it is to stand, behind room for the program. *)
Reserved == Carry(ArchiveBehind(100, <<Old, OldDir>>))
Unmoved == Carry(Appended(100, Archive(<<Old>>)))

In(c, d, b, t) == [carry |-> c, dict |-> d, base |-> b, tree |-> t]

MCInputs ==
    {In(c, d, b, Tree) : c \in {NoCarry, Plain, NoEntries, Ape}, d \in {"none", "dictB"}, b \in {-1, 0, 70}}
    \cup {In(Ours, d, -1, Tree) : d \in {"none", "dictB"}}
    \cup {In(Reserved, "none", -1, Again)}
    \cup {In(Unmoved, "none", -1, Unreadable), In(NoCarry, "none", -1, Shrinks), In(Ape, "none", -1, Again)}
    \cup {In(c, "none", -1, Deflated) : c \in {NoCarry, Ape}}
    \cup {In(c, "dictB", b, t) : c \in {NoCarry, Ape}, b \in {-1, 0, 70}, t \in {Huge, Many}}
    \cup {In(NoCarry, "none", -1, ManyDeflated)}

-----------------------------------------------------------------------------
(* The other entry points of miniz on what the packer ships.  An addition   *)
(* in place, of contents short and long, under a new name, one of the tree  *)
(* and one the name check refuses.                                          *)
Add(name, data, asked) == [name |-> name, data |-> data, asked |-> asked]
Additions ==
    {Add(<<98, 99>>, "text", "deflate"), Add(<<97>>, "short", "store"),
     Add(<<100, 98>>, "vast", "deflate"), Add(<<98, 98>>, "huge", "store"), Add(<<99, 99>>, "nothing", "store"), Add(<<47>>, "short", "store")}

DirectoryOf(file) == EndFields(file, LastEnd(file))

AddedInPlace(add) ==
    add_mem_in_place(Shipped, Opened, DirectoryOf(Shipped), add.name, add.data, add.asked)

(* The reader finds an end record with no more than a comment behind it:    *)
(* what a failed addition wrote may stick out further.                      *)
InReach(file) == file.size - LastEnd(file) <= END_HEADER + Max16

Keeps(file) ==
    LET now == read_central_dir(file) IN
    /\ now.ok /\ Len(now.recs) >= Len(Opened.recs)
    /\ \A k \in DOMAIN Opened.recs, dict \in Loaded \cup {"none"} :
        LET before == extract(Shipped, Opened.recs[k], dict) IN
        now.recs[k] = Opened.recs[k] /\ (before.ok => extract(file, now.recs[k], dict) = before)

IsNew(name) == \A k \in DOMAIN Opened.recs : ~SameName(Opened.recs[k].name, name)

(* Entries added in place leave the others as they were, for whatever step  *)
(* failed, as long as the archive could be finished again.                  *)
InPlaceKeeps ==
    \A add \in Additions : \A r \in AddedInPlace(add) :
        /\ r.ok => InReach(r.file)
        /\ (r.finished /\ InReach(r.file)) => Keeps(r.file)
        /\ (r.ok /\ IsNew(add.name) /\ ~Crossed(Last(read_central_dir(r.file).recs))) =>
            extract_archive_file_to_heap(r.file, add.name, "none") = {HasData(add.data)}

(* The validator passes an archive only if what is not empty comes out, and *)
(* every archive of stored and deflated entries that do, unless it is       *)
(* zip64: there it misreads the descriptor of each entry that is short and  *)
(* starts in the first 4 GB, which the writer gives 32-bit sizes.           *)
Stat(k) == file_stat(Opened.recs[k])
HandedOut(k) == extract_to_callback(Shipped, Opened.recs[k])
Short(k) == Stat(k).uncomp > 0 /\ Stat(k).uncomp < Max32 /\ Stat(k).ofs < Max32

ValidatorAgrees ==
    /\ \A locate \in BOOLEAN : validate_archive(Shipped, FALSE, locate) =>
        \A k \in DOMAIN Opened.recs :
            /\ Stat(k).uncomp > 0 =>
                HandedOut(k).ok /\ extract(Shipped, Opened.recs[k], "none") = HandedOut(k)
            /\ locate => \A j \in DOMAIN Opened.recs :
                SameName(Opened.recs[j].name, Opened.recs[k].name) => j = k
    /\ (/\ ~Opened.zip64 /\ Shipped.size <= Max32
        /\ \A k \in DOMAIN Opened.recs : Stat(k).uncomp > 0 => HandedOut(k).ok)
       => validate_archive(Shipped, FALSE, FALSE)
    /\ (Opened.zip64 /\ \E k \in DOMAIN Opened.recs : Short(k) /\ HandedOut(k).ok)
       => ~validate_archive(Shipped, TRUE, FALSE)

(* An iterator, read in pieces of any size, gives the verdict of the call   *)
(* that extracts at once, if it was read to its end, and else refuses.  An  *)
(* entry of more than one read buffer it may refuse when not asked for one  *)
(* byte more than it has.                                                   *)
Pieces(k) ==
    {<<Stat(k).uncomp>>, <<Stat(k).uncomp + 1>>, <<40, Stat(k).uncomp>>, <<45, 45>>, <<1, 2, 3>>}

ReadIn(it, pieces) ==
    FoldLeft(LAMBDA its, n : UNION {extract_iter_read(x, n) : x \in its}, {it}, pieces)

IteratorAgrees ==
    \A k \in DOMAIN Opened.recs :
        LET it == extract_iter_new(Shipped, Opened.recs[k]) IN
        it.ok => \A pieces \in Pieces(k) : \A end \in ReadIn(it, pieces) :
            LET asked == FoldLeft(LAMBDA a, n : a + n, 0, pieces) IN
            /\ extract_iter_free(end) =>
                /\ asked >= Stat(k).uncomp
                /\ it.content = HandedOut(k) /\ extract_to_file(Shipped, Opened.recs[k]) \in {HandedOut(k), NoData}
            /\ (HandedOut(k).ok /\ asked >= Stat(k).uncomp
                    /\ (asked > Stat(k).uncomp \/ Stat(k).comp <= IoBuf))
               => extract_iter_free(end)

(* An entry that is streamed, to the end of the archive or to a new one,    *)
(* holds what came and leaves the others alone, whatever was announced: the *)
(* right size, more than comes, less than comes.                            *)
Stream(max, got, asked, sized) == [max |-> max, got |-> got, asked |-> asked, sized |-> sized]
Streams ==
    {Stream(90, "text", a, s) : a \in {"store", "deflate"}, s \in BOOLEAN}
    \cup {Stream(m, "short", "deflate", FALSE) : m \in {2, 3, 90}}
    \cup {Stream(0, "text", "deflate", FALSE), Stream(90, "nothing", "deflate", TRUE)}
    \cup {Stream(2100, c, "deflate", s) : c \in {"vast", "huge", "text"}, s \in BOOLEAN}

StreamsServe ==
    \A wr \in {init_from_reader(Shipped, Opened, DirectoryOf(Shipped)), writer_init_file(70)} :
    \A x \in {y \in Streams : ~HasEmptyField(wr, y.max, y.sized, Length[y.got])} :
    \A r \in add_stream(wr, <<98, 99>>, x.max, x.got, x.asked, x.sized) :
    \A f \in finalize_archive(r.w) : (f.ok /\ InReach(f.w.file)) =>
        /\ wr.dir # << >> => Keeps(f.w.file)
        /\ (r.ok /\ ~Crossed(Last(f.w.dir))) =>
            extract_archive_file_to_heap(f.w.file, <<98, 99>>, "none") =
                {HasData(IF x.max = 0 THEN "nothing" ELSE x.got)}

(* Where there was no archive, there is one with the entry, or none. *)
NewServes ==
    \A add \in Additions : \A r \in add_mem_to_new(add.name, add.data, add.asked) :
        extract_archive_file_to_heap(r.file, add.name, "none") = {HasData(add.data)}

(* Whatever else miniz offers agrees with what the packer and the program   *)
(* use of it, on every archive the packer ships (miniz.h:79-100, 1319-1324). *)
EntryPointsAgree ==
    (Success /\ Opened.ok) => InPlaceKeeps /\ StreamsServe /\ NewServes /\ ValidatorAgrees /\ IteratorAgrees
=============================================================================

------------------------------- MODULE Packer -------------------------------
(***************************************************************************)
(* tools/unpin-vfs-pack.c: it carries the entries of another archive over,  *)
(* adds the dictionary and the files of a tree, closes the archive and      *)
(* moves its offsets to where it is going to be appended.                   *)
(***************************************************************************)
EXTENDS ZipWriter, ZipReader

CONSTANTS
    ZDICT_ENTRY,    \* ".unpin/zdict"
    SYMTAB,         \* ".symtab.amd64"
    Inputs          \* the command lines explored

(* tree: what nftw visits, in its order, each [name, type, data, deflate],  *)
(* type being FTW_F, FTW_D, FTW_DNR (a directory that cannot be read) or    *)
(* FTW_SL.  dict: the content of --dict, or "none".  carry: the file of     *)
(* --carry with the size of the program before its archive, or NoCarry.     *)
(* base: the argument of --base, or -1.                                     *)
NoCarry == [given |-> FALSE]

(* The name of a directory ends in '/', that of a file does not.            *)
Visitable(f) ==
    /\ f.name \in Seq(Char) /\ f.type \in {"FTW_F", "FTW_D", "FTW_DNR", "FTW_SL"}
    /\ f.type = "FTW_F" => ~IsDirName(f.name) /\ f.data \in Content /\ f.deflate \in BOOLEAN

(* A file to carry over, whether it holds an archive or not: if it does,    *)
(* between the header of an entry and its end nothing begins but parts of   *)
(* an entry, and the first of them stands right behind the program.         *)
ENTRY_PARTS == {"local", "payload", "footer"}

WellFormed(file, st) ==
    (st.ok /\ IsAt(file, st.ofs, "local")) =>
        LET lh == file.at[st.ofs] IN
        /\ lh.name \in Seq(Char) /\ lh.extra \in Seq(Nat) /\ lh.footer \in BOOLEAN
        /\ \A o \in DOMAIN file.at :
            st.ofs <= o /\ o < st.ofs + CopiedSize(lh, st.comp) => file.at[o].kind \in ENTRY_PARTS

BeginsAt(program, recs) ==
    (recs # << >> /\ \A k \in DOMAIN recs : file_stat(recs[k]).ok) =>
        /\ \E k \in DOMAIN recs : file_stat(recs[k]).ofs = program
        /\ \A k \in DOMAIN recs : file_stat(recs[k]).ofs >= program

Carriable(carry) ==
    LET recs == read_central_dir(carry.file).recs IN
    /\ carry.program \in Nat /\ carry.file.size \in Nat /\ DOMAIN carry.file.at \subseteq Nat
    /\ recs \in Seq(Record)
    /\ \A k \in DOMAIN recs : WellFormed(carry.file, file_stat(recs[k]))
    /\ BeginsAt(carry.program, recs)

ASSUME PackerAssumption ==
    /\ 47 \in Char
    /\ ZDICT_ENTRY \in Seq(Char) /\ ~IsDirName(ZDICT_ENTRY) /\ SYMTAB \in Seq(Char)
    /\ ~SameName(SYMTAB, ZDICT_ENTRY)
    /\ \A in \in Inputs :
        /\ in.base \in Int /\ in.dict \in Content \cup {"none"}
        /\ in.tree \in Seq({in.tree[k] : k \in DOMAIN in.tree})
        /\ \A k \in DOMAIN in.tree : Visitable(in.tree[k])
        /\ in.carry = NoCarry \/ (in.carry.given /\ Carriable(in.carry))

VARIABLES
    args,       \* the command line
    g_zip,      \* the writer
    src,        \* the reader on FILE
    i,          \* records carried, then files visited
    base,       \* carry_base, then what adjust_offsets is called with
    dictLost,   \* the dictionary could not be added (nobody looks)
    out,        \* OUT.zip
    exit,       \* the exit status
    pc

vars == <<args, g_zip, src, i, base, dictLost, out, exit, pc>>

Init ==
    /\ args \in Inputs
    /\ g_zip = writer_init /\ src = NoArchive /\ i = 0 /\ base = 0 /\ dictLost = FALSE
    /\ out = Empty /\ exit = -1 /\ pc = "start"

Exit_goeson(status) == exit' = status /\ pc' = "walk"      \* mutant: no return

Exit(status) == exit' = status /\ pc' = "end"

-----------------------------------------------------------------------------
(* The dictionary is read and the output created, or the packer stops.      *)
(* carry_from opens FILE; one the reader does not open is taken for one     *)
(* without an archive, whatever is wrong with it.                           *)
Start ==
    /\ pc = "start"
    /\ src' = IF args.carry.given THEN read_central_dir(args.carry.file) ELSE NoArchive
    /\ base' = IF args.carry.given /\ ~src'.ok THEN args.carry.file.size ELSE 0
    /\ pc' = IF src'.ok THEN "carry" ELSE "dict"
    /\ UNCHANGED <<args, g_zip, i, dictLost, out, exit>>

(* It stops, too, when a FILE without an archive cannot be sized.           *)
StartFails ==
    /\ pc = "start"
    /\ \/ Exit(2)
       \/ args.carry.given /\ ~read_central_dir(args.carry.file).ok /\ Exit(1)
    /\ UNCHANGED <<args, g_zip, src, i, base, dictLost, out>>

Dropped_dict(rec) == rec.name \in {SYMTAB, ZDICT_ENTRY}      \* mutant

Dropped(rec) == rec.name = SYMTAB

CarryEntry ==
    /\ pc = "carry" /\ i < Len(src.recs)
    /\ LET rec == src.recs[i + 1]
           st == file_stat(rec) IN
       IF ~st.ok THEN Exit(1) /\ UNCHANGED <<g_zip, i>>
       ELSE IF Dropped(rec) THEN i' = i + 1 /\ UNCHANGED <<g_zip, exit, pc>>
       ELSE \E r \in add_from_zip_reader(g_zip, args.carry.file, src.zip64, rec, st.ofs, st.comp) :
            /\ g_zip' = r.w
            /\ IF r.ok THEN i' = i + 1 /\ UNCHANGED <<exit, pc>>
               ELSE Exit(1) /\ UNCHANGED i
    /\ UNCHANGED <<args, src, base, dictLost, out>>

(* minofs takes the dropped record in too. *)
Lowest(offsets) == CHOOSE lowest \in offsets : \A o \in offsets : lowest <= o

minofs_kept(recs) ==      \* mutant: only of the records kept
    Lowest({file_stat(recs[k]).ofs : k \in {k \in DOMAIN recs : ~Dropped(recs[k])}})

minofs(recs) == Lowest({file_stat(recs[k]).ofs : k \in DOMAIN recs})

CarryEnds ==
    /\ pc = "carry" /\ i = Len(src.recs)
    /\ base' = IF src.recs = << >> THEN args.carry.file.size ELSE minofs(src.recs)
    /\ i' = 0 /\ pc' = "dict"
    /\ UNCHANGED <<args, g_zip, src, dictLost, out, exit>>

-----------------------------------------------------------------------------
(* The dictionary goes in uncompressed; the result of the call is not       *)
(* looked at.                                                               *)
StoreDict ==
    /\ pc = "dict"
    /\ IF args.dict = "none" THEN UNCHANGED <<g_zip, dictLost>>
       ELSE \E r \in add_mem(g_zip, ZDICT_ENTRY, args.dict, "store", "none") :
            g_zip' = r.w /\ dictLost' = ~r.ok
    /\ pc' = "walk"
    /\ UNCHANGED <<args, src, i, base, out, exit>>

Visited == args.tree[i + 1]
Walking == pc = "walk" /\ i < Len(args.tree)

(* visit: a directory's record may fail to be added, links and what cannot  *)
(* be read are passed over, a file must be read and added.                  *)
VisitDir ==
    /\ Walking /\ Visited.type = "FTW_D"
    /\ \E r \in add_mem(g_zip, Append(Visited.name, 47), "nothing", "store", "none") : g_zip' = r.w
    /\ i' = i + 1
    /\ UNCHANGED <<args, src, base, dictLost, out, exit, pc>>

VisitOther ==
    /\ Walking /\ Visited.type \notin {"FTW_D", "FTW_F"}
    /\ i' = i + 1
    /\ UNCHANGED <<args, g_zip, src, base, dictLost, out, exit, pc>>

AddFile(f) ==
    IF f.deflate THEN add_mem(g_zip, f.name, f.data, "deflate", "none")
    ELSE add_mem(g_zip, f.name, f.data, "zstd", args.dict)

VisitFile_goeson ==     \* mutant: like a directory, the result is not looked at
    /\ Walking /\ Visited.type = "FTW_F"
    /\ \E r \in AddFile(Visited) : g_zip' = r.w
    /\ i' = i + 1
    /\ UNCHANGED <<args, src, base, dictLost, out, exit, pc>>

VisitFile ==
    /\ Walking /\ Visited.type = "FTW_F"
    /\ \E r \in AddFile(Visited) :
        /\ g_zip' = r.w
        /\ IF r.ok THEN i' = i + 1 /\ UNCHANGED <<exit, pc>>
           ELSE Exit(1) /\ UNCHANGED i
    /\ UNCHANGED <<args, src, base, dictLost, out>>

ReadFails ==
    /\ Walking /\ Visited.type = "FTW_F" /\ Exit(1)
    /\ UNCHANGED <<args, g_zip, src, i, base, dictLost, out>>

(* The archive is closed and the base settled: --base wins over --carry.    *)
Finalize ==
    /\ pc = "walk" /\ i = Len(args.tree)
    /\ \E r \in finalize_archive(g_zip) :
        /\ g_zip' = r.w /\ out' = r.w.file
        /\ base' = IF args.base >= 0 THEN args.base ELSE base
        /\ IF r.ok THEN pc' = "adjust" /\ UNCHANGED exit ELSE Exit(1)
    /\ UNCHANGED <<args, src, i, dictLost>>

-----------------------------------------------------------------------------
(* adjust_offsets: nrec from the 16 bits of the end record. *)
EndAt(file) == file.size - END_HEADER
EndRec(file) == file.at[EndAt(file)]

Refuses(file, by) ==
    \/ EndAt(file) < 0 \/ ~IsAt(file, EndAt(file), "end")
    \/ EndRec(file).size = Max32 \/ EndRec(file).ofs = Max32
    \/ EndRec(file).ofs + by > Max32
    \/ EndRec(file).total > 0 /\ (~IsAt(file, EndRec(file).ofs, "directory")
                                  \/ EndRec(file).total > Len(file.at[EndRec(file).ofs].recs))

MovedOfs(rec, by) == [rec EXCEPT !.ofs = (@ + by) % (Max32 + 1)]

Shifted_first(recs, total, by) ==      \* mutant: the walk stays on the first record
    [k \in DOMAIN recs |-> IF k = 1 THEN MovedOfs(recs[k], by) ELSE recs[k]]

Shifted(recs, total, by) ==
    [k \in DOMAIN recs |-> IF k <= total THEN MovedOfs(recs[k], by) ELSE recs[k]]

(* Bytes written over in place. *)
Patched(file, ofs, structure) == [size |-> file.size, at |-> [file.at EXCEPT ![ofs] = structure]]

WithDirectory(file, by) ==
    LET e == EndRec(file) IN
    IF e.total = 0 THEN file
    ELSE Patched(file, e.ofs, Directory(Shifted(file.at[e.ofs].recs, e.total, by)))

WithEnd(file, by) ==
    LET e == EndRec(file) IN Patched(file, EndAt(file), End(e.total, e.size, e.ofs + by))

Adjust ==
    /\ pc = "adjust" /\ base # 0 /\ ~Refuses(out, base)
    /\ out' = WithEnd(WithDirectory(out, base), base)
    /\ Exit(0)
    /\ UNCHANGED <<args, g_zip, src, i, base, dictLost>>

(* It refuses, or a read or a write fails: the directory may be rewritten   *)
(* and the end record not.                                                  *)
AdjustFails ==
    /\ pc = "adjust" /\ base # 0
    /\ \/ out' = out
       \/ ~Refuses(out, base) /\ out' = WithDirectory(out, base)
    /\ Exit(1)
    /\ UNCHANGED <<args, g_zip, src, i, base, dictLost>>

NoAdjust ==
    /\ pc = "adjust" /\ base = 0 /\ Exit(0)
    /\ UNCHANGED <<args, g_zip, src, i, base, dictLost, out>>

Next ==
    \/ Start \/ StartFails
    \/ CarryEntry \/ CarryEnds
    \/ StoreDict \/ VisitDir \/ VisitOther \/ VisitFile \/ ReadFails
    \/ Finalize \/ Adjust \/ AdjustFails \/ NoAdjust

Spec == Init /\ [][Next]_vars
-----------------------------------------------------------------------------
TypeOK ==
    /\ args \in Inputs
    /\ i \in Nat /\ base \in Nat /\ dictLost \in BOOLEAN
    /\ exit \in {-1, 0, 1, 2} /\ (exit # -1 <=> pc = "end")
    /\ pc \in {"start", "carry", "dict", "walk", "adjust", "end"}

Success == pc = "end" /\ exit = 0

(* Two departures of the packer from what is said below.  Offsets moved in  *)
(* an archive of more records than the 16 bits of the end record count:     *)
(* only that many move.  A file of which one size passes 32 bits and the    *)
(* other does not, behind the first 4 GB: the reader takes the fields of    *)
(* its extended information for others than the writer put there.           *)
Uncounted == base # 0 /\ TotalFiles(g_zip) >= Max16
Crossed(rec) == rec.ofs = Max32 /\ (rec.uncomp = Max32 <=> rec.comp # Max32)

(* A file the writer has an intact record of. *)
Holds(w, name, data, dict) ==
    \E k \in DOMAIN w.dir :
        /\ w.dir[k].name = name
        /\ Crossed(w.dir[k]) \/ extract(w.file, w.dir[k], dict) = HasData(data)

(* What the carried archive gives for a record with a dictionary loaded:    *)
(* none, or one it has as an entry.  The files of the tree among its first  *)
(* n entries.                                                               *)
Before(rec, dict) == extract(args.carry.file, rec, dict)

OwnDict(k) ==
    LET r == Before(src.recs[k], "none") IN IF k # 0 /\ r.ok THEN r.data ELSE "none"
CarriedDicts == {"none"} \cup {OwnDict(k) : k \in locate_file(src.recs, ZDICT_ENTRY)}

FilesOf(n) == {f \in {args.tree[k] : k \in 1 .. n} : f.type = "FTW_F"}

Carried == IF pc = "carry" THEN i ELSE Len(src.recs)
Visits == IF pc \in {"walk", "adjust"} THEN i ELSE 0

(* From entry to entry and through the closing of the archive, whatever     *)
(* failed in between and was passed over: what was carried and what was     *)
(* visited so far is there, with nothing written over it                    *)
(* (unpin-vfs-pack.c:92-121, 200-214; miniz.c:6251-6541).                   *)
EntriesHeld ==
    pc # "end" =>
        /\ \A k \in 1 .. Carried, dict \in CarriedDicts :
            (~Dropped(src.recs[k]) /\ Before(src.recs[k], dict).ok) =>
                Holds(g_zip, src.recs[k].name, Before(src.recs[k], dict).data, dict)
        /\ \A f \in FilesOf(Visits) : Holds(g_zip, f.name, f.data, args.dict)

(* What the reader in the program finds in the archive appended at the      *)
(* printed base, with a dictionary it holds loaded (vfs.c:171).             *)
Shipped == Appended(base, out)
Opened == read_central_dir(Shipped)

DictAt(k) ==
    LET r == extract(Shipped, Opened.recs[k], "none") IN
    IF k # 0 /\ r.ok THEN r.data ELSE "none"

Serves(dict, name, data) ==
    \A k \in locate_file(Opened.recs, name) :
        k # 0 /\ extract(Shipped, Opened.recs[k], dict) = HasData(data)

(* A name the archive has once, on a record the reader understands.  Of two *)
(* records of one name it answers either.                                   *)
Clear(name) ==
    \E k \in DOMAIN g_zip.dir :
        /\ \A j \in DOMAIN g_zip.dir : SameName(g_zip.dir[j].name, name) => j = k
        /\ SameName(g_zip.dir[k].name, name) /\ ~Crossed(g_zip.dir[k])

Loaded == {DictAt(k) : k \in locate_file(Opened.recs, ZDICT_ENTRY)}

(* A packer that reports success has made an archive that, at the base it   *)
(* printed, opens and serves every file it visited, byte for byte: at every *)
(* limit of a 16- or 32-bit field, in either form of the archive and after  *)
(* calls that failed half way, unless the dictionary was lost on the way or *)
(* one of the departures applies (unpin-vfs-pack.c:7-13, 15-20).            *)
DictServes == args.dict # "none" => ~dictLost /\ Clear(ZDICT_ENTRY)

FilesServed ==
    (Success /\ ~Uncounted /\ DictServes) =>
        /\ Opened.ok
        /\ \A f \in FilesOf(Len(args.tree)), dict \in Loaded :
            Clear(f.name) => Serves(dict, f.name, f.data)

(* An entry carried over is served as it was in the file it came from: with *)
(* any dictionary loaded if it needs none, and if it needs the one its      *)
(* archive has, with the one loaded then, which has come along.  The last   *)
(* is promised only while the new archive has no second one: --dict adds    *)
(* one to those of such a FILE, and the entries of one side are lost        *)
(* (unpin-vfs-pack.c:25-31, 260-262).                                       *)
OneDict ==
    \A j, k \in DOMAIN g_zip.dir :
        (SameName(g_zip.dir[j].name, ZDICT_ENTRY) /\ SameName(g_zip.dir[k].name, ZDICT_ENTRY))
            => j = k /\ ~Crossed(g_zip.dir[k])

CarriedServed ==
    Success => \A k \in DOMAIN src.recs, own \in CarriedDicts, dict \in Loaded :
        (/\ ~Dropped(src.recs[k]) /\ Clear(src.recs[k].name) /\ Before(src.recs[k], own).ok
         /\ own # "none" => OneDict) =>
            Serves(dict, src.recs[k].name, Before(src.recs[k], own).data)

(* The base printed is where the archive of FILE began, or its size when it *)
(* has none, so that what is cut off there is an archive and never a part   *)
(* of the program (unpin-vfs-pack.c:32-35).                                 *)
BaseIsWhereItBegan ==
    /\ TypeOK
    /\ (Success /\ args.carry.given /\ args.base < 0) =>
        base = IF src.recs # << >> THEN args.carry.program ELSE args.carry.file.size
=============================================================================

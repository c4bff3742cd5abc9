----------------------------- MODULE VfsArchive -----------------------------
(***************************************************************************)
(* The embedded ZIP as the mount sees it: the central directory, in the     *)
(* order the packer wrote it, and the look-ups vfs.c makes in it.           *)
(***************************************************************************)
EXTENDS VfsPath, FiniteSets

CONSTANTS
    Fold,       \* MZ_TOLOWER on names: two names miniz takes for the same
    Reserved,   \* the first segments vfs_hidden recognises, in any case
    SelfMode,   \* built with -DUNPIN_VFS_SELF, so that vfs_hidden exists
    NameMax,    \* sizeof d_name and of last_emitted: 256
    Byte        \* contents are sequences of these

ASSUME ArchiveAssumption ==
    /\ Fold \in [Name -> Name]
    /\ \A n \in Name : Fold[Fold[n]] = Fold[n]
    /\ Reserved \subseteq Name
    /\ \A n \in Name : Fold[n] \in Reserved <=> n \in Reserved
    /\ SelfMode \in BOOLEAN
    /\ NameMax \in Nat

(* One record.  `dir`: the name ends in '/', as the packer's directory      *)
(* records do.  `how`: "plain" needs no dictionary (deflate, stored, zstd   *)
(* without one), "dict" is zstd with the shared one.  `stat`: the record's   *)
(* zip64 field, if it needs one, is whole, so that mz_zip_reader_file_stat    *)
(* can read it.  `sound`: the bytes in the file pass the local header and     *)
(* CRC checks.                                                              *)
Entry == [name : Key, dir : BOOLEAN, data : Seq(Byte), how : {"plain", "dict"},
          stat : BOOLEAN, sound : BOOLEAN]

(* `readable`: mz_zip_reader_init finds a directory.  `zdict`: position of  *)
(* the record ".unpin/zdict", 0 when there is none.                         *)
Archive == [readable : BOOLEAN, cdir : Seq(Entry), zdict : Nat]

-----------------------------------------------------------------------------
(* vfs_hidden: one leading '.' skipped, "unpin" in any case, then '/' or    *)
(* the end.  In blob mode it is the constant 0.                             *)
vfs_hidden_lower(key) ==     \* mutant: only the lower-case spelling is hidden
    SelfMode /\ key # << >> /\ key[1] \in {n \in Reserved : Fold[n] = n}

vfs_hidden(key) == SelfMode /\ key # << >> /\ key[1] \in Reserved

FoldKey(key) == [i \in DOMAIN key |-> Fold[key[i]]]

(* mz_zip_reader_locate_file, flags 0: case is ignored, the trailing slash  *)
(* is part of the name.  0 for -1.  Which of several matching records its   *)
(* binary search meets is not decided here.                                 *)
Matches(zip, key, slash) ==
    {i \in DOMAIN zip.cdir : /\ zip.cdir[i].dir = slash
                             /\ FoldKey(zip.cdir[i].name) = FoldKey(key)}
Locate(zip, key, slash) ==
    IF Matches(zip, key, slash) = {} THEN 0 ELSE CHOOSE i \in Matches(zip, key, slash) : TRUE

(* By exact name, then with a trailing slash. *)
find_entry(zip, key) ==
    IF Locate(zip, key, FALSE) # 0 THEN Locate(zip, key, FALSE) ELSE Locate(zip, key, TRUE)

(* Does record i lie under `key`?  memcmp, so case matters here; a record   *)
(* "key/" lies under key.                                                   *)
Under(zip, i, key) ==
    LET e == zip.cdir[i] IN
    /\ IsPrefix(key, e.name)
    /\ Len(e.name) > Len(key) \/ e.dir

is_implicit_dir(zip, key) ==
    key = << >> \/ \E i \in DOMAIN zip.cdir : Under(zip, i, key)

(* A record that cannot be read has size 0, like an empty file. *)
entry_size(zip, i) == IF zip.cdir[i].stat THEN Len(zip.cdir[i].data) ELSE 0

-----------------------------------------------------------------------------
(* readdir's view of record i from directory `key`: is it a child (or       *)
(* something below one), and of what name and type?                         *)
IsChild(zip, i, key) ==
    LET e == zip.cdir[i] IN
    /\ Len(e.name) > Len(key)
    /\ ~vfs_hidden(e.name)
    /\ IsPrefix(key, e.name)
    /\ SegLen[e.name[Len(key) + 1]] < NameMax

ChildName(zip, i, key) == zip.cdir[i].name[Len(key) + 1]

ChildIsDir_deep(zip, i, key) ==      \* mutant: a record "dir/" is taken for a file
    Len(zip.cdir[i].name) > Len(key) + 1

ChildIsDir(zip, i, key) == Len(zip.cdir[i].name) > Len(key) + 1 \/ zip.cdir[i].dir

-----------------------------------------------------------------------------
(* What the packer makes of a directory tree: the reference the properties  *)
(* compare the look-ups with.                                               *)

(* The file record i stands for: the bytes that were packed, or an empty    *)
(* one when its size cannot be read, which no call reports as an error.     *)
entry_data(zip, i) == IF zip.cdir[i].stat THEN zip.cdir[i].data ELSE << >>

(* What belongs to the metadata reader. *)
Metadata(key) == key # << >> /\ key[1] \in Reserved

(* The tree the records describe, by exact names. *)
HasFile(zip, key) == \E i \in DOMAIN zip.cdir : zip.cdir[i].name = key /\ ~zip.cdir[i].dir
HasDir(zip, key) == is_implicit_dir(zip, key)
Exists(zip, key) == HasFile(zip, key) \/ HasDir(zip, key)

(* The names a listing of `key` is to show: all that exist under it, except *)
(* the hidden ones and those that d_name cannot hold.                       *)
Children(zip, key) ==
    {n \in Name : /\ Exists(zip, Append(key, n))
                  /\ ~vfs_hidden(Append(key, n))
                  /\ SegLen[n] < NameMax}

(* nftw walks a directory to its end before it leaves it (vfs.c:923). *)
Clustered(zip) ==
    \A i, j, k \in DOMAIN zip.cdir : \A n \in 1 .. Len(zip.cdir[i].name) :
        (i < j /\ j < k /\ Len(zip.cdir[k].name) >= n
            /\ SubSeq(zip.cdir[i].name, 1, n) = SubSeq(zip.cdir[k].name, 1, n))
        => /\ Len(zip.cdir[j].name) >= n
           /\ SubSeq(zip.cdir[j].name, 1, n) = SubSeq(zip.cdir[i].name, 1, n)

(* No two names that miniz takes for one another, at any depth, no record   *)
(* twice, and no name that is a file and a directory: true of the records   *)
(* of one tree of a file system without names that differ in case alone.    *)
Spellings(zip) ==
    UNION {{SubSeq(zip.cdir[i].name, 1, n) : n \in 1 .. Len(zip.cdir[i].name)} : i \in DOMAIN zip.cdir}

Unambiguous(zip) ==
    /\ \A a, b \in Spellings(zip) : FoldKey(a) = FoldKey(b) => a = b
    /\ \A i, j \in DOMAIN zip.cdir : zip.cdir[i].name = zip.cdir[j].name => i = j
    /\ \A a \in Spellings(zip) : ~(HasFile(zip, a) /\ HasDir(zip, a))
=============================================================================

------------------------------ MODULE VfsDir -------------------------------
(***************************************************************************)
(* opendir, readdir and closedir on a mounted path (src/vfs.c, built with   *)
(* UNPIN_VFS_DIRS): a DIR of the mount is a cursor on the central directory *)
(* with one slot that remembers the child named last.  The program keeps    *)
(* several open and reads them in turn, real ones among them.               *)
(***************************************************************************)
EXTENDS VfsCore

CONSTANTS
    Paths,      \* the paths the program passes
    Handle      \* the DIR pointers it can hold at once

(* path_canon yields a key: of its loop, a theorem of module PathCanonProofs. *)
ASSUME DirAssumption == \A p \in Paths : p \in Path /\ KeyOf(p) \in Key

VARIABLES
    dirs,       \* what each DIR pointer points at
    dret        \* the answer of the last call: [op, out]

vars == <<core, dirs, dret>>

NoName == ""

(* kind: the magic word tells a DIR of the mount from a real one.  `seen`   *)
(* is not in the code: the entries returned so far, in order; `ended`:      *)
(* readdir has returned NULL.                                               *)
Dirent == [name : Name, type : {"DT_DIR", "DT_REG"}]
DirState == [kind : {"free", "real", "virtual"}, prefix : Key, cursor : Nat,
             last_emitted : Name \cup {NoName}, seen : Seq(Dirent), ended : BOOLEAN]
Free == [kind |-> "free", prefix |-> << >>, cursor |-> 1,
         last_emitted |-> NoName, seen |-> << >>, ended |-> FALSE]

TypeOK ==
    /\ CoreTypeOK
    /\ dirs \in [Handle -> DirState]
    /\ \A h \in Handle : dirs[h].cursor \in 1 .. Len(zip.cdir) + 1
    /\ dret \in {"none", "host", "dir", "entry", "end", "closed", "ENOENT", "EIO", "ENOMEM"}

Init ==
    /\ CoreInit
    /\ dirs = [h \in Handle |-> Free]
    /\ dret = "none"

-----------------------------------------------------------------------------
Opened(kind, prefix) == [Free EXCEPT !.kind = kind, !.prefix = prefix]

Yields_static_slot(h, d) ==  \* mutant: last_emitted is one static buffer
    dirs' = [g \in Handle |-> IF g = h THEN d ELSE [dirs[g] EXCEPT !.last_emitted = d.last_emitted]]

Yields(h, d) == dirs' = [dirs EXCEPT ![h] = d]

(* Neither the record's type nor a trailing slash is asked of an implicit   *)
(* directory.  path_canon has left no slash for OPENDIR_FN to strip.        *)
IsDirectory(key) ==
    LET i == find_entry(zip, key) IN (i # 0 /\ zip.cdir[i].dir) \/ is_implicit_dir(zip, key)

OpendirVirtual(h, key) ==
    /\ unpin_vfs_init
    /\ \/ g_state' # 1 /\ dret' = "EIO" /\ UNCHANGED dirs
       \/ /\ g_state' = 1
          /\ vfs_hidden(key) \/ ~IsDirectory(key)
          /\ dret' = "ENOENT" /\ UNCHANGED dirs
       \/ /\ g_state' = 1 /\ ~vfs_hidden(key) /\ IsDirectory(key)
          /\ \/ dret' = "dir" /\ Yields(h, Opened("virtual", key))
             \/ dret' = "ENOMEM" /\ UNCHANGED dirs      \* calloc

OPENDIR_FN(h, p) ==
    /\ dirs[h].kind = "free"
    /\ vfs_off
    /\ IF Routed(p) THEN OpendirVirtual(h, KeyOf(p))
       ELSE /\ dret' = "host"
            /\ Yields(h, Opened("real", << >>)) \/ UNCHANGED dirs
            /\ UNCHANGED <<reader, fds>>
    /\ UNCHANGED <<zip, off_env>>

Emits_repeats(d, i) == IsChild(zip, i, d.prefix)     \* mutant: no dedup

(* The record at i is returned: it is a child, and not the child the slot   *)
(* holds.                                                                   *)
Emits(d, i) ==
    /\ IsChild(zip, i, d.prefix)
    /\ ChildName(zip, i, d.prefix) # d.last_emitted

DirentOf(d, i) == [name |-> ChildName(zip, i, d.prefix),
                   type |-> IF ChildIsDir(zip, i, d.prefix) THEN "DT_DIR" ELSE "DT_REG"]

Emitting_twice(d, i) ==      \* mutant: the cursor is advanced a second time
    [d EXCEPT !.cursor = i + 2, !.last_emitted = ChildName(zip, i, d.prefix),
              !.seen = Append(@, DirentOf(d, i))]

Emitting(d, i) == [d EXCEPT !.cursor = i + 1,
                            !.last_emitted = ChildName(zip, i, d.prefix),
                            !.seen = Append(@, DirentOf(d, i))]

(* The loop runs to the first record it returns, or to the end. *)
ReaddirEntry(h) ==
    LET d == dirs[h] IN
    /\ d.kind = "virtual"
    /\ \E i \in d.cursor .. Len(zip.cdir) :
        /\ Emits(d, i)
        /\ \A j \in d.cursor .. i - 1 : ~Emits(d, j)
        /\ Yields(h, Emitting(d, i))
    /\ dret' = "entry"
    /\ UNCHANGED core

ReaddirEnd_spins(h) ==       \* mutant: "continue" before the cursor moves on
    LET d == dirs[h] IN
    /\ d.kind = "virtual"
    /\ d.cursor > Len(zip.cdir)
    /\ Yields(h, [d EXCEPT !.ended = TRUE])
    /\ dret' = "end"
    /\ UNCHANGED core

ReaddirEnd(h) ==
    LET d == dirs[h] IN
    /\ d.kind = "virtual"
    /\ \A i \in d.cursor .. Len(zip.cdir) : ~Emits(d, i)
    /\ Yields(h, [d EXCEPT !.cursor = Len(zip.cdir) + 1, !.ended = TRUE])
    /\ dret' = "end"
    /\ UNCHANGED core

ReaddirReal(h) ==
    /\ dirs[h].kind = "real"
    /\ dret' = "host"
    /\ UNCHANGED <<core, dirs>>

CLOSEDIR_FN(h) ==
    /\ dirs[h].kind # "free"
    /\ Yields(h, Free)
    /\ dret' = "closed"
    /\ UNCHANGED core

SetEnv == off_env' = ~off_env /\ UNCHANGED <<zip, g_disabled, reader, fds, dirs, dret>>

Next ==
    \/ \E h \in Handle : \/ \E p \in Paths : OPENDIR_FN(h, p)
                         \/ ReaddirEntry(h) \/ ReaddirEnd(h) \/ ReaddirReal(h)
                         \/ CLOSEDIR_FN(h)
    \/ SetEnv

(* A program that lists a directory reads on: no call of readdir blocks. *)
Spec == Init /\ [][Next]_vars /\ \A h \in Handle : WF_vars(ReaddirEntry(h) \/ ReaddirEnd(h))

-----------------------------------------------------------------------------
Listing(h) == {dirs[h].seen[k].name : k \in DOMAIN dirs[h].seen}

(* No child is listed twice, however many handles are read in turn, when    *)
(* the archive keeps a directory's records together (vfs.c:923).            *)
ListsOnce ==
    \A h \in Handle : Clustered(zip) =>
        \A k, l \in DOMAIN dirs[h].seen : dirs[h].seen[k].name = dirs[h].seen[l].name => k = l

(* A listing read to its end shows exactly the names that exist under the   *)
(* directory and are not hidden: none is lost by the skips of the loop, by  *)
(* the slot or by another handle, none is made up (vfs.c:903-938).          *)
ListsAll ==
    \A h \in Handle :
        /\ Listing(h) \subseteq Children(zip, dirs[h].prefix)
        /\ dirs[h].ended => Listing(h) = Children(zip, dirs[h].prefix)

(* Why: at every moment a reader has listed the children among the records  *)
(* behind its cursor, the slot holds the last of them, and the records      *)
(* since the one it was taken from have no other child.                     *)
Passed(z, d) == {i \in 1 .. d.cursor - 1 : IsChild(z, i, d.prefix)}

ReadInv(z, d) ==
    /\ {d.seen[k].name : k \in DOMAIN d.seen} = {ChildName(z, i, d.prefix) : i \in Passed(z, d)}
    /\ IF d.last_emitted = NoName THEN Passed(z, d) = {}
       ELSE \E m \in Passed(z, d) : \A j \in Passed(z, d) :
                j >= m => ChildName(z, j, d.prefix) = d.last_emitted
    /\ d.ended => d.cursor = Len(z.cdir) + 1
    /\ Clustered(z) =>
        \A k, l \in DOMAIN d.seen : d.seen[k].name = d.seen[l].name => k = l

ReadersInv == \A h \in Handle : ReadInv(zip, dirs[h])

(* What readdir says of a child is what stat and open find at its path: the *)
(* same type, and for a file the very record that was listed, although they *)
(* look it up without regard to case (vfs.c:763, 936).                      *)
ListingAgreesWithStat ==
    \A h \in Handle : Unambiguous(zip) => \A k \in DOMAIN dirs[h].seen :
        LET e == dirs[h].seen[k]
            key == Append(dirs[h].prefix, e.name)
            i == find_entry(zip, key)
        IN /\ ~vfs_hidden(key)
           /\ e.type = "DT_DIR" <=> IsDirectory(key)
           /\ e.type = "DT_REG" => i # 0 /\ zip.cdir[i].name = key /\ ~zip.cdir[i].dir

(* A directory that is read and not closed comes to its end. *)
ListingEnds ==
    \A h \in Handle : (dirs[h].kind = "virtual") ~> (dirs[h].kind = "free" \/ dirs[h].ended)

(* vfs.c:923-924, "single-slot dedup collapses the repeated parent into one *)
(* child entry": of any archive the packer writes.                          *)
NoDuplicates ==
    \A h \in Handle : \A k, l \in DOMAIN dirs[h].seen :
        dirs[h].seen[k].name = dirs[h].seen[l].name => k = l
=============================================================================

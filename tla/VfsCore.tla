------------------------------ MODULE VfsCore ------------------------------
(***************************************************************************)
(* The state every call of the POSIX side of src/vfs.c shares: the switch   *)
(* UNPIN_VFS_OFF, the reader behind unpin_vfs_init, and the descriptor      *)
(* table of the process, from which the reader and every opened file draw.  *)
(*                                                                          *)
(* The functions are written as relations over these variables, to be       *)
(* conjuncts of the handlers that call them; a handler reads what a call    *)
(* left behind in the primed variables.                                     *)
(***************************************************************************)
EXTENDS VfsArchive

CONSTANTS
    Archives,   \* the archives a build may carry
    FdLimit     \* RLIMIT_NOFILE: descriptors are 1 .. FdLimit

ASSUME CoreAssumption ==
    /\ Archives \subseteq Archive
    /\ \A zip \in Archives : zip.zdict \in 0 .. Len(zip.cdir)
    /\ FdLimit \in Nat \ {0}

VARIABLES
    zip,        \* the archive this executable carries, never changed
    off_env,    \* is UNPIN_VFS_OFF in the environment?
    g_disabled, \* -1 until asked, then the answer of the first getenv
    g_state,    \* 0 uninit, 1 ready, 2 failed
    g_dict,     \* unpin_zstd_set_dict was called
    g_self,     \* descriptor of the executable while g_zip owns it, 0 for none
    fds         \* every descriptor: what it is open on, its bytes, its offset

core == <<zip, off_env, g_disabled, g_state, g_dict, g_self, fds>>
reader == <<g_state, g_dict, g_self>>

Fd == 1 .. FdLimit
File == [kind : {"closed", "self", "virtual", "host"}, data : Seq(Byte), pos : Nat]
Closed == [kind |-> "closed", data |-> << >>, pos |-> 0]
NewFile(kind) == [kind |-> kind, data |-> << >>, pos |-> 0]

OpenFds == {fd \in Fd : fds[fd].kind # "closed"}
FreeFds == Fd \ OpenFds
LowestFd == CHOOSE fd \in FreeFds : \A other \in FreeFds : fd <= other

CoreTypeOK ==
    /\ zip \in Archives
    /\ off_env \in BOOLEAN
    /\ g_disabled \in {-1, 0, 1}
    /\ g_state \in {0, 1, 2}
    /\ g_dict \in BOOLEAN
    /\ g_self \in 0 .. FdLimit
    /\ fds \in [Fd -> File]

CoreInit ==
    /\ zip \in Archives
    /\ off_env \in BOOLEAN
    /\ g_disabled = -1
    /\ g_state = 0 /\ g_dict = FALSE /\ g_self = 0
    /\ fds = [fd \in Fd |-> Closed]

-----------------------------------------------------------------------------
vfs_off_uncached == g_disabled' = IF off_env THEN 1 ELSE 0      \* mutant

(* The environment is read once; the answer is kept. *)
vfs_off == g_disabled' = IF g_disabled < 0 THEN (IF off_env THEN 1 ELSE 0) ELSE g_disabled

(* After vfs_off: does posix_key return a key, or NULL for libc to take it? *)
KeyOf(p) == path_canon(p.segs)
Routed(p) == g_disabled' = 0 /\ OwnedByMount(p) /\ FitsKeybuf(p)

(* mz_zip_reader_extract_to_heap delivers a record's bytes when it can be   *)
(* read, is sound and has its dictionary; memory and the file may fail it at any time *)
Extractable(z, i, dict) == z.cdir[i].stat /\ z.cdir[i].sound /\ (z.cdir[i].how = "dict" => dict)

(* mutant: "fclose(self)" forgotten when the directory cannot be read *)
InitFailsOpen ==
    /\ g_state' = 2
    /\ UNCHANGED g_dict
    /\ IF SelfMode /\ FreeFds # {}
       THEN g_self' = 0 /\ fds' = [fds EXCEPT ![LowestFd] = NewFile("self")]
       ELSE UNCHANGED <<g_self, fds>>

(* The executable takes a descriptor while there is one; the open or the    *)
(* seeks may fail all the same, and then init does.                         *)
self_open ==
    /\ FreeFds # {}
    /\ g_self' = LowestFd
    /\ fds' = [fds EXCEPT ![LowestFd] = NewFile("self")]

(* What was opened is closed again.  Blob mode opens nothing. *)
InitFails ==
    /\ g_state' = 2
    /\ UNCHANGED <<g_dict, g_self, fds>>

InitSucceeds ==
    /\ zip.readable
    /\ g_state' = 1
    /\ IF SelfMode THEN self_open ELSE UNCHANGED <<g_self, fds>>
    /\ \/ zip.zdict # 0 /\ Extractable(zip, zip.zdict, FALSE) /\ g_dict' = TRUE
       \/ UNCHANGED g_dict       \* no dictionary, or extracting it failed

(* Either outcome is final. *)
unpin_vfs_init ==
    IF g_state # 0 THEN UNCHANGED <<reader, fds>>
    ELSE InitFails \/ InitSucceeds

(* vfs_find asks vfs_hidden before it needs the reader. *)
vfs_find(key) == IF vfs_hidden(key) THEN UNCHANGED <<reader, fds>> ELSE unpin_vfs_init
Found_shifted(key) ==        \* mutant: a position that counts from 1 taken for one from 0
    IF vfs_hidden(key) \/ g_state' # 1 THEN 0
    ELSE LET i == Locate(zip, key, FALSE) IN IF i = 0 THEN 0 ELSE i + 1

Found(key) == IF vfs_hidden(key) \/ g_state' # 1 THEN 0 ELSE Locate(zip, key, FALSE)
=============================================================================

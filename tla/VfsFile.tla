------------------------------ MODULE VfsFile ------------------------------
(***************************************************************************)
(* open, fopen, stat, lstat and access on a mounted path: the shims of      *)
(* src/vfs.c and, for a file, the pipeline behind them that inflates the    *)
(* entry into a fresh anonymous descriptor (fd_for, anon_fd, write_all).    *)
(*                                                                          *)
(* One thread calls.  A call that needs no other resource than the reader   *)
(* is one step; opening a file is a step per call it makes to the outside,  *)
(* each of which may fail.  Between calls the program uses and closes what  *)
(* it was given, and may change its environment.                            *)
(***************************************************************************)
EXTENDS VfsCore

CONSTANTS
    Paths,      \* the paths the program passes
    FileOps     \* the calls explored, out of FileOp

FileOp == {"open", "fopen_r", "fopen_w", "stat", "access"}

ASSUME FileAssumption ==
    /\ \A p \in Paths : p \in Path /\ KeyOf(p) \in Key
    /\ FileOps \subseteq FileOp

VARIABLES
    pc,         \* where the running call is, "idle" between calls
    call,       \* its arguments: [op, path]
    idx,        \* the record it serves
    buf,        \* the heap block of extract_to_heap: Block, or NoBlock
    fd,         \* the descriptor it is filling, 0 for none (-1 in C)
    held,       \* descriptors handed to the program and not closed by it
    ret         \* the answer of the last call

file == <<pc, call, idx, buf, fd, held, ret>>
vars == <<core, file>>

NoBlock == [live |-> FALSE, data |-> << >>]
Block(data) == [live |-> TRUE, data |-> data]

(* "host": libc answered.  "EFAIL" stands for the errno of memfd_create,    *)
(* write or fdopen.  `val` is the descriptor of "fd", the size of "file".   *)
Outcome == {"none", "host", "file", "dir", "fd", "ok", "ENOENT", "EIO", "EROFS", "EFAIL"}

NoPath == [virtual |-> FALSE, segs |-> << >>]
NoCall == [op |-> "open", path |-> NoPath]
NoAnswer == [op |-> "none", path |-> NoPath, out |-> "none", val |-> 0]
Answer(op, p, out, val) == [op |-> op, path |-> p, out |-> out, val |-> val]

TypeOK ==
    /\ CoreTypeOK
    /\ pc \in {"idle", "fd_for", "anon_fd", "write_all", "mz_free", "fdopen"}
    /\ call \in [op : FileOp, path : Path]
    /\ idx \in 0 .. Len(zip.cdir)
    /\ buf \in [live : BOOLEAN, data : Seq(Byte)]
    /\ fd \in 0 .. FdLimit
    /\ held \subseteq Fd
    /\ ret \in [op : FileOp \cup {"none"}, path : Path, out : Outcome, val : Nat]

Init ==
    /\ CoreInit
    /\ pc = "idle" /\ call = NoCall
    /\ idx = 0 /\ buf = NoBlock /\ fd = 0
    /\ held = {} /\ ret = NoAnswer

-----------------------------------------------------------------------------
Returns(op, p, out, val) ==
    /\ ret' = Answer(op, p, out, val)
    /\ UNCHANGED <<pc, call, idx, buf, fd, held>>

(* REAL_OPEN and its kin: libc does what it likes; an open that succeeds    *)
(* takes the lowest descriptor.                                             *)
RealOpen(op, p) ==
    /\ UNCHANGED reader
    /\ \/ /\ FreeFds # {}
          /\ fds' = [fds EXCEPT ![LowestFd] = NewFile("host")]
          /\ held' = held \cup {LowestFd}
          /\ ret' = Answer(op, p, "host", LowestFd)
          /\ UNCHANGED <<pc, call, idx, buf, fd>>
       \/ UNCHANGED fds /\ Returns(op, p, "host", 0)

(* vfs_open_virtual up to its call of fd_for. *)
OpenVirtual(op, p) ==
    /\ vfs_find(KeyOf(p))
    /\ IF Found(KeyOf(p)) = 0
       THEN Returns(op, p, "ENOENT", 0)
       ELSE /\ pc' = "fd_for"
            /\ call' = [op |-> op, path |-> p]
            /\ idx' = Found(KeyOf(p))
            /\ ret' = NoAnswer
            /\ UNCHANGED <<buf, fd, held>>

OPEN_FN(p) ==
    /\ pc = "idle" /\ "open" \in FileOps
    /\ vfs_off
    /\ IF Routed(p) THEN OpenVirtual("open", p) ELSE RealOpen("open", p)
    /\ UNCHANGED <<zip, off_env>>

FOPEN_FN(op, p) ==
    /\ pc = "idle" /\ op \in FileOps \cap {"fopen_r", "fopen_w"}
    /\ vfs_off
    /\ CASE ~Routed(p) -> RealOpen(op, p)
         [] Routed(p) /\ op = "fopen_w" -> UNCHANGED <<reader, fds>> /\ Returns(op, p, "EROFS", 0)
         [] OTHER -> OpenVirtual(op, p)
    /\ UNCHANGED <<zip, off_env>>

(* vfs_stat_virtual as built with UNPIN_VFS_DIRS: hidden before the reader, *)
(* the record by its name or with a slash, then the implicit directories.   *)
StatVirtual(p) ==
    LET key == KeyOf(p)
        i == find_entry(zip, key)
    IN
    /\ vfs_find(key)
    /\ CASE vfs_hidden(key) -> Returns("stat", p, "ENOENT", 0)
         [] ~vfs_hidden(key) /\ g_state' # 1 -> Returns("stat", p, "EIO", 0)
         [] ~vfs_hidden(key) /\ g_state' = 1 /\ i # 0 ->
                IF zip.cdir[i].dir THEN Returns("stat", p, "dir", 0)
                                   ELSE Returns("stat", p, "file", entry_size(zip, i))
         [] OTHER -> IF is_implicit_dir(zip, key) THEN Returns("stat", p, "dir", 0)
                                                  ELSE Returns("stat", p, "ENOENT", 0)

(* stat and lstat: the archive has no symbolic links to tell them apart. *)
STAT_FN(p) ==
    /\ pc = "idle" /\ "stat" \in FileOps
    /\ vfs_off
    /\ IF Routed(p) THEN StatVirtual(p)
       ELSE UNCHANGED <<reader, fds>> /\ Returns("stat", p, "host", 0)
    /\ UNCHANGED <<zip, off_env>>

ACCESS_FN(p) ==
    /\ pc = "idle" /\ "access" \in FileOps
    /\ vfs_off
    /\ IF Routed(p)
       THEN /\ vfs_find(KeyOf(p))
            /\ Returns("access", p, IF Found(KeyOf(p)) # 0 THEN "ok" ELSE "ENOENT", 0)
       ELSE UNCHANGED <<reader, fds>> /\ Returns("access", p, "host", 0)
    /\ UNCHANGED <<zip, off_env>>

-----------------------------------------------------------------------------
(* The running call ends. *)
Finish(out, val) ==
    /\ pc' = "idle" /\ call' = NoCall /\ idx' = 0 /\ fd' = 0
    /\ ret' = Answer(call.op, call.path, out, val)

(* fd_for: an empty entry is not extracted; a failed extraction is EIO. *)
fd_for_misses ==             \* mutant: the errno of a failed extraction is a miss
    /\ pc = "fd_for"
    /\ \/ /\ entry_size(zip, idx) = 0
          /\ pc' = "anon_fd"
          /\ UNCHANGED <<call, idx, buf, fd, ret>>
       \/ /\ entry_size(zip, idx) # 0 /\ Extractable(zip, idx, g_dict)
          /\ buf' = Block(zip.cdir[idx].data)
          /\ pc' = "anon_fd"
          /\ UNCHANGED <<call, idx, fd, ret>>
       \/ /\ entry_size(zip, idx) # 0
          /\ Finish("ENOENT", 0)
          /\ UNCHANGED buf
    /\ UNCHANGED <<core, held>>

fd_for ==
    /\ pc = "fd_for"
    /\ \/ /\ entry_size(zip, idx) = 0
          /\ pc' = "anon_fd"
          /\ UNCHANGED <<call, idx, buf, fd, ret>>
       \/ /\ entry_size(zip, idx) # 0 /\ Extractable(zip, idx, g_dict)
          /\ buf' = Block(zip.cdir[idx].data)
          /\ pc' = "anon_fd"
          /\ UNCHANGED <<call, idx, fd, ret>>
       \/ /\ entry_size(zip, idx) # 0
          /\ Finish("EIO", 0)
          /\ UNCHANGED buf
    /\ UNCHANGED <<core, held>>

(* anon_fd: memfd_create, or mkstemp and unlink. *)
anon_fd ==
    /\ pc = "anon_fd"
    /\ \/ /\ FreeFds # {}
          /\ fd' = LowestFd
          /\ fds' = [fds EXCEPT ![LowestFd] = NewFile("virtual")]
          /\ pc' = "write_all"
       \/ pc' = "mz_free" /\ UNCHANGED <<fd, fds>>
    /\ UNCHANGED <<zip, off_env, g_disabled, reader, call, idx, buf, held, ret>>

(* write_all: off is what the file holds by now.  A write takes any number  *)
(* of the bytes that are left, and at least one.                            *)
Written == Len(fds[fd].data)
Grown(f, bytes) == [f EXCEPT !.data = @ \o bytes, !.pos = @ + Len(bytes)]

WriteSomeRestarts ==         \* mutant: after a short write the loop starts over
    /\ pc = "write_all" /\ Written < Len(buf.data)
    /\ \E w \in 1 .. Len(buf.data) :
        fds' = [fds EXCEPT ![fd] = Grown(NewFile("virtual"), SubSeq(buf.data, 1, w))]
    /\ UNCHANGED <<zip, off_env, g_disabled, reader, file>>

WriteSome ==
    /\ pc = "write_all" /\ Written < Len(buf.data)
    /\ \E w \in 1 .. Len(buf.data) - Written :
        fds' = [fds EXCEPT ![fd] = Grown(@, SubSeq(buf.data, Written + 1, Written + w))]
    /\ UNCHANGED <<zip, off_env, g_disabled, reader, file>>

WriteFails ==
    /\ pc = "write_all" /\ Written < Len(buf.data)
    /\ fds' = [fds EXCEPT ![fd] = Closed]
    /\ fd' = 0
    /\ pc' = "mz_free"
    /\ UNCHANGED <<zip, off_env, g_disabled, reader, call, idx, buf, held, ret>>

WriteEndsShort ==            \* mutant: one write is taken to write everything
    /\ pc = "write_all" /\ (Written > 0 \/ Len(buf.data) = 0)
    /\ fds' = [fds EXCEPT ![fd].pos = 0]
    /\ pc' = "mz_free"
    /\ UNCHANGED <<zip, off_env, g_disabled, reader, call, idx, buf, fd, held, ret>>

WriteEnds ==
    /\ pc = "write_all" /\ Written >= Len(buf.data)
    /\ fds' = [fds EXCEPT ![fd].pos = 0]
    /\ pc' = "mz_free"
    /\ UNCHANGED <<zip, off_env, g_disabled, reader, call, idx, buf, fd, held, ret>>

(* Back in fd_for: the block is freed whatever came of anon_fd.  open then  *)
(* returns; fopen goes on to fdopen.                                        *)
mz_free ==
    /\ pc = "mz_free"
    /\ buf' = NoBlock
    /\ CASE fd = 0 -> Finish("EFAIL", 0) /\ UNCHANGED held
         [] fd # 0 /\ call.op = "open" -> Finish("fd", fd) /\ held' = held \cup {fd}
         [] OTHER -> pc' = "fdopen" /\ UNCHANGED <<call, idx, fd, held, ret>>
    /\ UNCHANGED core

fdopen_leaks ==              \* mutant: a failed fdopen leaves the descriptor open
    /\ pc = "fdopen"
    /\ \/ Finish("fd", fd) /\ held' = held \cup {fd} /\ UNCHANGED fds
       \/ Finish("EFAIL", 0) /\ UNCHANGED <<fds, held>>
    /\ UNCHANGED <<zip, off_env, g_disabled, reader, buf>>

fdopen ==
    /\ pc = "fdopen"
    /\ \/ Finish("fd", fd) /\ held' = held \cup {fd} /\ UNCHANGED fds
       \/ Finish("EFAIL", 0) /\ fds' = [fds EXCEPT ![fd] = Closed] /\ UNCHANGED held
    /\ UNCHANGED <<zip, off_env, g_disabled, reader, buf>>

-----------------------------------------------------------------------------
(* Between calls: the program closes, reads or overwrites what it holds     *)
(* (the descriptor is writable whatever flags open was given) and changes   *)
(* its environment.  It does not write past the end: a bound of the model.  *)
Close(f) ==
    /\ pc = "idle" /\ f \in held
    /\ fds' = [fds EXCEPT ![f] = Closed]
    /\ held' = held \ {f}
    /\ ret' = NoAnswer
    /\ UNCHANGED <<zip, off_env, g_disabled, reader, pc, call, idx, buf, fd>>

Overwritten(f, byte) == [f EXCEPT !.data = [f.data EXCEPT ![f.pos + 1] = byte], !.pos = @ + 1]

Use(f, byte) ==
    /\ pc = "idle" /\ f \in held
    /\ fds[f].pos < Len(fds[f].data)
    /\ fds' = [fds EXCEPT ![f] = Overwritten(@, byte)]
    /\ ret' = NoAnswer
    /\ UNCHANGED <<zip, off_env, g_disabled, reader, pc, call, idx, buf, fd, held>>

SetEnv ==
    /\ pc = "idle"
    /\ off_env' = ~off_env
    /\ ret' = NoAnswer
    /\ UNCHANGED <<zip, g_disabled, reader, fds, pc, call, idx, buf, fd, held>>

-----------------------------------------------------------------------------
Call == \E p \in Paths : \/ OPEN_FN(p) \/ STAT_FN(p) \/ ACCESS_FN(p)
                        \/ \E op \in {"fopen_r", "fopen_w"} : FOPEN_FN(op, p)
Step == fd_for \/ anon_fd \/ WriteSome \/ WriteFails \/ WriteEnds \/ mz_free \/ fdopen
Program == \/ \E f \in held : Close(f) \/ \E byte \in Byte : Use(f, byte)
           \/ SetEnv

Next == Call \/ Step \/ Program

(* A running call is the running thread: it goes on. *)
Spec == Init /\ [][Next]_vars /\ WF_vars(Step)

-----------------------------------------------------------------------------
(* Every descriptor that is open is the program's, the reader's or the one  *)
(* the running call is filling, and never two of these at once; the heap    *)
(* block lives no longer than the call.  So no path through fd_for, anon_fd *)
(* and FOPEN_FN, whatever fails in it, loses a descriptor or a block, and   *)
(* the program never gets hold of the reader's own (vfs.c:157, 599, 749,    *)
(* 958).                                                                    *)
NoLeak ==
    /\ OpenFds = held \cup ({fd, g_self} \ {0})
    /\ {fd, g_self} \cap held = {}
    /\ fd # 0 => fd # g_self
    /\ pc = "idle" => fd = 0 /\ ~buf.live

(* What open and fopen hand out is the whole entry, from offset 0, in a     *)
(* descriptor of its own: not what an earlier user of the same entry made   *)
(* of his copy, and not the part a short write got through (vfs.h:6).       *)
ServesPristine ==
    ret.out = "fd" =>
        /\ ret.val \in held
        /\ fds[ret.val].kind = "virtual" /\ fds[ret.val].pos = 0
        /\ \E i \in Matches(zip, KeyOf(ret.path), FALSE) : fds[ret.val].data = entry_data(zip, i)

(* Why: the running call serves a record its path names; the block holds    *)
(* the record's bytes until they are written; the file holds what has been  *)
(* written of them, and is rewound at the end; nothing is answered before.  *)
PipelineInv ==
    /\ g_state # 1 => g_self = 0
    /\ pc # "idle" => ~vfs_hidden(KeyOf(call.path))
    /\ pc # "idle" => ret = NoAnswer /\ idx \in Matches(zip, KeyOf(call.path), FALSE)
    /\ pc \in {"idle", "fd_for", "fdopen"} => buf = NoBlock
    /\ pc \in {"idle", "fd_for", "anon_fd"} => fd = 0
    /\ pc \in {"write_all", "fdopen"} => fd # 0
    /\ pc \in {"anon_fd", "write_all"} => buf.data = entry_data(zip, idx)
    /\ fd # 0 => fds[fd].kind = "virtual"
    /\ pc = "write_all" =>
        Written <= Len(buf.data) /\ fds[fd].data = SubSeq(buf.data, 1, Written)
    /\ fd # 0 /\ pc \in {"mz_free", "fdopen"} =>
        fds[fd].data = entry_data(zip, idx) /\ fds[fd].pos = 0

(* A path of the mount is answered by the mount or by libc, by the same one *)
(* for good; what was found stays found and what was missing stays missing, *)
(* whichever of the calls asks, and whatever fails or changes in between    *)
(* (vfs.c:145-151).  EIO and the other failures are no such verdict.        *)
Says(p, ops, outs) == ret.path = p /\ ret.op \in ops /\ ret.out \in outs
AnyOp == FileOp
Mounted == {"file", "dir", "fd", "ok", "ENOENT", "EIO", "EROFS", "EFAIL"}

VerdictsLast ==
    \A p \in {q \in Paths : OwnedByMount(q) /\ FitsKeybuf(q)} :
        /\ [](Says(p, AnyOp, {"host"}) => []~Says(p, AnyOp, Mounted))
        /\ [](Says(p, AnyOp, Mounted) => []~Says(p, AnyOp, {"host"}))
        /\ [](Says(p, AnyOp, {"file", "fd", "ok"}) => []~Says(p, AnyOp, {"ENOENT", "dir"}))
        /\ [](Says(p, {"open", "fopen_r", "access"}, {"ENOENT"}) => []~Says(p, AnyOp, {"file", "fd", "ok"}))
        /\ [](Says(p, {"stat"}, {"dir"}) => []~Says(p, AnyOp, {"file", "fd", "ok", "EIO"}))

(* The unpin namespaces of the shared container never show, by no spelling  *)
(* with "." , ".." or other case and through no call (vfs.c:96-108).        *)
HiddenStaysHidden ==
    SelfMode /\ OwnedByMount(ret.path) /\ Metadata(KeyOf(ret.path))
        => ret.out \notin {"file", "dir", "fd", "ok"}

(* The pipeline implements the mount of module Mount: what the steps of one *)
(* call do to descriptors and blocks stutters there, and its answer is one  *)
(* the mount may give at that moment.                                       *)
Route == CASE g_disabled = -1 -> "unsettled" [] g_disabled = 0 -> "mount" [] OTHER -> "libc"
Health == CASE g_state = 0 -> "unsettled" [] g_state = 1 -> "up" [] OTHER -> "down"
LastAnswer == [op |-> ret.op, path |-> ret.path, out |-> ret.out,
               size |-> IF ret.out = "file" THEN ret.val ELSE 0,
               data |-> IF ret.out = "fd" THEN fds[ret.val].data ELSE << >>]

Promise == INSTANCE Mount WITH route <- Route, health <- Health, answer <- LastAnswer
ImplementsMount == Promise!Spec

(* Every call returns (write_all makes progress with every short write).    *)
CallsReturn == (pc # "idle") ~> (pc = "idle")
=============================================================================

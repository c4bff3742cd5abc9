---------------------------- MODULE Materialize ----------------------------
(***************************************************************************)
(* The Windows side of src/vfs.c: an entry is written to a temporary file   *)
(* the first time it is wanted, the file is cached by index, and every call *)
(* on the entry is made on the file.  When the program returns from main    *)
(* the files are deleted.                                                   *)
(*                                                                          *)
(* One thread calls; materialize is a step per call it makes to the         *)
(* outside, each of which may fail.                                         *)
(***************************************************************************)
EXTENDS VfsCore

CONSTANTS
    PathRoom,       \* bytes behind the root that a buffer of MAX_PATH holds
    Cut,            \* Cut[s, n]: the first n bytes of segment s
    Paths,          \* the paths the program passes
    MaxTemp         \* bound on the temporary files

ASSUME MaterializeAssumption ==
    /\ PathRoom \in Nat /\ MaxTemp \in Nat
    /\ Cut \in [Seg \X (0 .. PathRoom) -> Seg]
    /\ Paths \subseteq Path

VARIABLES
    marker,     \* built with UNPIN_VFS_WIN_MARKER, or with win_key
    tmpcache,   \* the temporary file of each record, 0 for none; << >> before calloc
    cleanup_registered,     \* "no", "yes", or "lost": set, but atexit had refused
    temp,       \* what is in the directory of temporary files; `lost`, a ghost, marks
                \* the whole copies whose name was forgotten again
    on,         \* the temporary file a descriptor is open on, 0 for another
    pc, call, idx,
    path,       \* the temporary file being written or used
    buf,        \* the inflated block
    fd,         \* the descriptor it is written to
    held,       \* descriptors the program has
    ret

files == <<tmpcache, cleanup_registered, temp, on>>
locals == <<pc, call, idx, path, buf, fd>>
vars == <<marker, core, files, locals, held, ret>>

WinOp == IF marker THEN {"open", "fopen_w", "stat", "access", "winpath"}
         ELSE {"open", "stat", "access"}

Temp == 1 .. MaxTemp
NoFile == [there |-> FALSE, data |-> << >>, lost |-> FALSE]
Holding(data) == [there |-> TRUE, data |-> data, lost |-> FALSE]
There == {t \in Temp : temp[t].there}

NoBlock == [live |-> FALSE, data |-> << >>]
Block(data) == [live |-> TRUE, data |-> data]

NoCall == [op |-> "none", path |-> [virtual |-> FALSE, segs |-> << >>]]
Answer(c, out, val) == [call |-> c, out |-> out, val |-> val]

Init ==
    /\ CoreInit /\ marker \in BOOLEAN
    /\ tmpcache = << >> /\ cleanup_registered = "no"
    /\ temp = [t \in Temp |-> NoFile] /\ on = [f \in Fd |-> 0]
    /\ pc = "idle" /\ call = NoCall /\ idx = 0 /\ path = 0 /\ buf = NoBlock /\ fd = 0
    /\ held = {} /\ ret = Answer(NoCall, "none", 0)

-----------------------------------------------------------------------------
(* win_key copies what fits its buffer and goes on with that; marker_key    *)
(* takes a path that does not fit for no path of the mount.                 *)
TooLong(segs, k) == TextLen(SubSeq(segs, 1, k)) > PathRoom

Fitting(segs) == CHOOSE k \in 0 .. Len(segs) :
    /\ k = 0 \/ ~TooLong(segs, k)
    /\ k < Len(segs) => TooLong(segs, k + 1)

Truncated(segs) ==
    LET k == Fitting(segs)
        room == PathRoom - (TextLen(SubSeq(segs, 1, k)) + 1) IN
    IF k = Len(segs) THEN segs
    ELSE IF room < 0 THEN SubSeq(segs, 1, k)
    ELSE Append(SubSeq(segs, 1, k), Cut[segs[k + 1], room])

WinKey(p) == path_canon(IF marker THEN p.segs ELSE Truncated(p.segs))
KeyMatches_short(p) ==      \* mutant: a key of the buffer's size is one too long
    g_disabled' = 0 /\ OwnedByMount(p) /\ (marker => KeyLen(p.segs) < PathRoom)

KeyMatches(p) ==
    g_disabled' = 0 /\ OwnedByMount(p) /\ (marker => KeyLen(p.segs) <= PathRoom)

Returns(c, out, val) ==
    /\ ret' = Answer(c, out, val)
    /\ UNCHANGED <<locals, held>>

(* A call: the key, the record, and unless it is access the temporary file. *)
(* Every path that has no key is the host's; winpath is NULL where the others *)
(* have an errno.                                                           *)
Call(op, p) ==
    LET c == [op |-> op, path |-> p]
        key == WinKey(p) IN
    /\ pc = "idle" /\ op \in WinOp
    /\ vfs_off
    /\ IF ~KeyMatches(p)
       THEN /\ UNCHANGED <<reader, fds>>
            /\ Returns(c, IF op = "winpath" THEN "NULL" ELSE "host", 0)
       ELSE IF op = "fopen_w" THEN UNCHANGED <<reader, fds>> /\ Returns(c, "EROFS", 0)
       ELSE /\ vfs_find(key)
            /\ IF Found(key) = 0 THEN Returns(c, "ENOENT", 0)
               ELSE IF op = "access" THEN Returns(c, "ok", 0)
               ELSE /\ pc' = "materialize" /\ call' = c /\ idx' = Found(key)
                    /\ ret' = Answer(NoCall, "none", 0)
                    /\ UNCHANGED <<path, buf, fd, held>>
    /\ UNCHANGED <<zip, off_env, files>>

(* The running call ends; what it held is released. *)
Ends(out, val) ==
    /\ ret' = Answer(call, out, val)
    /\ pc' = "idle" /\ call' = NoCall /\ idx' = 0 /\ path' = 0 /\ buf' = NoBlock /\ fd' = 0
-----------------------------------------------------------------------------
(* materialize *)
Allocated == IF tmpcache = << >> THEN [i \in DOMAIN zip.cdir |-> 0] ELSE tmpcache
Settled == <<zip, off_env, g_disabled, reader>>

Cached ==
    /\ pc = "materialize" /\ Allocated[idx] # 0
    /\ path' = tmpcache[idx] /\ pc' = "use"
    /\ UNCHANGED <<core, files, call, idx, buf, fd, held, ret>>

(* calloc, GetTempPath or GetTempFileName fail. *)
NoTemp ==
    /\ pc = "materialize" /\ Allocated[idx] = 0
    /\ tmpcache' \in {tmpcache, Allocated}
    /\ Ends("EIO", 0)
    /\ UNCHANGED <<core, cleanup_registered, temp, on, held>>

(* GetTempFileName creates an empty file under a name nobody has. *)
GetTempFileName ==
    /\ pc = "materialize" /\ Allocated[idx] = 0 /\ There # Temp
    /\ tmpcache' = Allocated
    /\ \E t \in Temp \ There : path' = t /\ temp' = [temp EXCEPT ![t] = Holding(<< >>)]
    /\ pc' = "extract"
    /\ UNCHANGED <<core, cleanup_registered, on, call, idx, buf, fd, held, ret>>

Extract ==
    /\ pc = "extract"
    /\ IF entry_size(zip, idx) = 0 THEN UNCHANGED buf
       ELSE Extractable(zip, idx, g_dict) /\ buf' = Block(zip.cdir[idx].data)
    /\ pc' = "create"
    /\ UNCHANGED <<core, files, call, idx, path, fd, held, ret>>

(* DeleteFile does nothing to a file somebody has open. *)
Delete(names) == [t \in Temp |->
    IF t \in names /\ \A f \in Fd : on[f] # t THEN NoFile ELSE temp[t]]

ExtractFails ==
    /\ pc = "extract" /\ entry_size(zip, idx) > 0
    /\ temp' = Delete({path})
    /\ Ends("EIO", 0)
    /\ UNCHANGED <<core, tmpcache, cleanup_registered, on, held>>

Create ==
    /\ pc = "create" /\ FreeFds # {}
    /\ fd' = LowestFd
    /\ fds' = [fds EXCEPT ![LowestFd] = NewFile("virtual")]
    /\ on' = [on EXCEPT ![LowestFd] = path]
    /\ temp' = [temp EXCEPT ![path] = Holding(<< >>)]
    /\ pc' = "write"
    /\ UNCHANGED <<Settled, tmpcache, cleanup_registered, call, idx, path, buf, held, ret>>

CreateFails ==
    /\ pc = "create"
    /\ temp' = Delete({path})
    /\ Ends("EIO", 0)
    /\ UNCHANGED <<core, tmpcache, cleanup_registered, on, held>>

Written == Len(temp[path].data)

WriteSome_restarts ==       \* mutant: the offset is not moved
    /\ pc = "write" /\ Written < Len(buf.data)
    /\ \E n \in 0 .. Len(buf.data) :
        temp' = [temp EXCEPT ![path] = Holding(SubSeq(buf.data, 1, n))]
    /\ UNCHANGED <<core, tmpcache, cleanup_registered, on, locals, held, ret>>

WriteSome ==
    /\ pc = "write" /\ Written < Len(buf.data)
    /\ \E n \in Written + 1 .. Len(buf.data) :
        temp' = [temp EXCEPT ![path] = Holding(SubSeq(buf.data, 1, n))]
    /\ UNCHANGED <<core, tmpcache, cleanup_registered, on, locals, held, ret>>

CloseFd(f) ==
    /\ fds' = [fds EXCEPT ![f] = Closed]
    /\ on' = [on EXCEPT ![f] = 0]

WriteFails_kept ==      \* mutant: deleted while open
    /\ pc = "write" /\ Written < Len(buf.data)
    /\ CloseFd(fd)
    /\ temp' = Delete({path})
    /\ Ends("EIO", 0)
    /\ UNCHANGED <<Settled, tmpcache, cleanup_registered, held>>

(* The file is closed before it is deleted, or it would stay. *)
WriteFails ==
    /\ pc = "write" /\ Written < Len(buf.data)
    /\ CloseFd(fd)
    /\ temp' = [temp EXCEPT ![path] = NoFile]
    /\ Ends("EIO", 0)
    /\ UNCHANGED <<Settled, tmpcache, cleanup_registered, held>>

(* Once.  The runtime may have no room for the handler, and nobody asks.    *)
Register ==
    cleanup_registered' \in
        IF cleanup_registered = "no" THEN {"yes", "lost"} ELSE {cleanup_registered}

(* The copy is complete.  Its name goes into the cache if _strdup finds     *)
(* memory for it; if not the caller is told that there is no file.          *)
Keep_early ==       \* mutant: a short write is taken for the end
    /\ pc = "write"
    /\ CloseFd(fd)
    /\ Register
    /\ tmpcache' = [tmpcache EXCEPT ![idx] = path]
    /\ buf' = NoBlock /\ fd' = 0 /\ pc' = "use"
    /\ UNCHANGED <<Settled, temp, call, idx, path, held, ret>>

Keep_unregistered ==        \* mutant: atexit is called for an entry that is not empty
    /\ pc = "write" /\ Written = Len(buf.data)
    /\ CloseFd(fd)
    /\ IF buf.live THEN Register ELSE UNCHANGED cleanup_registered
    /\ tmpcache' = [tmpcache EXCEPT ![idx] = path]
    /\ buf' = NoBlock /\ fd' = 0 /\ pc' = "use"
    /\ UNCHANGED <<Settled, temp, call, idx, path, held, ret>>

Keep ==
    /\ pc = "write" /\ Written = Len(buf.data)
    /\ CloseFd(fd)
    /\ Register
    /\ tmpcache' = [tmpcache EXCEPT ![idx] = path]
    /\ buf' = NoBlock /\ fd' = 0 /\ pc' = "use"
    /\ UNCHANGED <<Settled, temp, call, idx, path, held, ret>>

KeepFails ==
    /\ pc = "write" /\ Written = Len(buf.data)
    /\ CloseFd(fd)
    /\ Register
    /\ temp' = [temp EXCEPT ![path].lost = TRUE]
    /\ Ends("EIO", 0)
    /\ UNCHANGED <<Settled, tmpcache, held>>

-----------------------------------------------------------------------------
(* The call itself, on the file: opened for reading whatever was asked.     *)
UseOpens ==
    /\ pc = "use" /\ call.op = "open" /\ FreeFds # {}
    /\ fds' = [fds EXCEPT ![LowestFd] = [kind |-> "virtual", data |-> temp[path].data, pos |-> 0]]
    /\ on' = [on EXCEPT ![LowestFd] = path]
    /\ held' = held \cup {LowestFd}
    /\ Ends("fd", LowestFd)
    /\ UNCHANGED <<Settled, tmpcache, cleanup_registered, temp>>

UseFails ==
    /\ pc = "use" /\ call.op = "open"
    /\ Ends("EFAIL", 0)
    /\ UNCHANGED <<core, files, held>>

UsePath ==
    /\ pc = "use" /\ call.op \in {"stat", "winpath"}
    /\ IF call.op = "stat" THEN Ends("file", Len(temp[path].data)) ELSE Ends("path", path)
    /\ UNCHANGED <<core, files, held>>

Step ==
    \/ Cached \/ NoTemp \/ GetTempFileName \/ Extract \/ ExtractFails
    \/ Create \/ CreateFails \/ WriteSome \/ WriteFails \/ Keep \/ KeepFails
    \/ UseOpens \/ UseFails \/ UsePath

(* The program closes what it opened, or comes to its end: the handlers of  *)
(* atexit run while its descriptors are still open.                         *)
Close(f) ==
    /\ pc = "idle" /\ f \in held
    /\ CloseFd(f) /\ held' = held \ {f}
    /\ UNCHANGED <<Settled, tmpcache, cleanup_registered, temp, locals, ret>>

vfs_cleanup == Delete({tmpcache[i] : i \in DOMAIN tmpcache})

Exit ==
    /\ pc = "idle" /\ pc' = "exited"
    /\ temp' = IF cleanup_registered = "yes" THEN vfs_cleanup ELSE temp
    /\ UNCHANGED <<core, tmpcache, cleanup_registered, on, call, idx, path, buf, fd, held, ret>>

Next ==
    /\ \/ \E op \in WinOp, p \in Paths : Call(op, p)
       \/ Step
       \/ \E f \in held : Close(f)
       \/ Exit
    /\ UNCHANGED marker

(* The thread of the program runs the call to its end. *)
Spec == Init /\ [][Next]_vars /\ WF_vars(Step /\ UNCHANGED marker)
-----------------------------------------------------------------------------
TypeOK ==
    /\ CoreTypeOK /\ marker \in BOOLEAN
    /\ tmpcache = << >> \/ tmpcache \in [DOMAIN zip.cdir -> 0 .. MaxTemp]
    /\ cleanup_registered \in {"no", "yes", "lost"}
    /\ temp \in [Temp -> [there : BOOLEAN, data : Seq(Byte), lost : BOOLEAN]]
    /\ on \in [Fd -> 0 .. MaxTemp]
    /\ pc \in {"idle", "materialize", "extract", "create", "write", "use", "exited"}
    /\ idx \in 0 .. Len(zip.cdir) /\ path \in 0 .. MaxTemp /\ fd \in 0 .. FdLimit
    /\ held \subseteq Fd

(* A file in the cache is there, is the whole entry, and no other entry's:  *)
(* a copy that failed half way is never found by a later call               *)
(* (vfs.c:264, 282-290).                                                    *)
Cache == {i \in DOMAIN tmpcache : tmpcache[i] # 0}

CachedIsWhole ==
    /\ TypeOK
    /\ pc # "exited" => \A i \in Cache :
        /\ temp[tmpcache[i]] = Holding(entry_data(zip, i))
        /\ \A j \in Cache : tmpcache[j] = tmpcache[i] => i = j

(* Between calls every temporary file is in the cache, no block is live and *)
(* no descriptor is open on one but those the program has.  The one         *)
(* exception is a whole copy for whose name _strdup had no memory           *)
(* (vfs.c:275-290).                                                         *)
Lost == {t \in There : temp[t].lost}

NothingLost ==
    pc = "idle" =>
        /\ There = {tmpcache[i] : i \in Cache} \cup Lost
        /\ ~buf.live
        /\ {f \in Fd : on[f] # 0} \subseteq held

(* After the exit only the files the program has still open are left, and   *)
(* the forgotten ones, if atexit took the handler (vfs.c:288-298).          *)
CleansUp ==
    pc = "exited" /\ cleanup_registered # "lost" =>
        There \subseteq {on[f] : f \in held} \cup Lost

(* A path of the mount that fits the buffers is the mount's own: of an      *)
(* entry it is never ENOENT nor the host's, of none it is never anything    *)
(* else, and what an open returns reads as an entry of that name            *)
(* (vfs.h:7-8).  Hidden entries count as none.  win_key serves a longer     *)
(* path by what is left of it.                                              *)
FitsBuffer(p) ==
    /\ KeyLen(p.segs) <= PathRoom
    /\ \A k \in 1 .. Len(p.segs) : ~TooLong(p.segs, k)

Named(p) ==
    LET key == path_canon(p.segs) IN IF vfs_hidden(key) THEN {} ELSE Matches(zip, key, FALSE)

ReservedMount ==
    LET p == ret.call.path IN
    (ret.call.op \in {"open", "stat", "access"} /\ OwnedByMount(p) /\ FitsBuffer(p) /\ g_disabled = 0)
        => /\ ret.out # "host"
           /\ ret.out = "ENOENT" <=> g_state # 1 \/ Named(p) = {}
           /\ ret.out = "fd" /\ ret.val \in held =>
                \E i \in Named(p) : fds[ret.val].data = entry_data(zip, i)

(* Every call returns. *)
CallsReturn == pc = "materialize" ~> pc = "idle"
=============================================================================

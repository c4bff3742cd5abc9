------------------------------- MODULE Mount -------------------------------
(***************************************************************************)
(* What the mount promises a program, without descriptors, buffers or       *)
(* steps: whether the mount or libc serves the reserved prefix is settled   *)
(* once; whether the archive can be read is settled once; after that every  *)
(* answer is a function of the path and the archive, or an error that says  *)
(* it is one.                                                               *)
(***************************************************************************)
EXTENDS VfsArchive

CONSTANTS Archives, Paths

VARIABLES
    zip,        \* the archive
    route,      \* who serves the prefix: "unsettled", "mount", "libc"
    health,     \* of the archive: "unsettled", "up", "down"
    answer      \* the last answer: [op, path, out, size, data]

vars == <<zip, route, health, answer>>

Init ==
    /\ zip \in Archives
    /\ route = "unsettled" /\ health = "unsettled"
    /\ answer.out = "none"

Settles(old, new, final) == IF old = "unsettled" THEN new \in final \cup {old} ELSE new = old

(* The entries a key names, ignoring case, and the directories. *)
Files(key) == IF vfs_hidden(key) THEN {} ELSE {entry_data(zip, i) : i \in Matches(zip, key, FALSE)}
IsDir(key) == ~vfs_hidden(key) /\ (Matches(zip, key, TRUE) # {} \/ is_implicit_dir(zip, key))

(* The answers a mounted path may get.  A failure to open is allowed only   *)
(* where there is something to open; "no such file" only where there is     *)
(* nothing, or where the archive has been found unreadable for good.        *)
Legal(a, state) ==
    LET key == path_canon(a.path.segs)
        up == state = "up"
    IN
    \/ a.out = "fd" /\ a.op \in {"open", "fopen_r"} /\ up /\ a.data \in Files(key)
    \/ a.out = "ok" /\ a.op = "access" /\ up /\ Files(key) # {}
    \/ a.out = "file" /\ a.op = "stat" /\ up /\ \E data \in Files(key) : a.size = Len(data)
    \/ a.out = "dir" /\ a.op = "stat" /\ up /\ IsDir(key) /\ Files(key) = {}
    \/ /\ a.out = "ENOENT" /\ a.op = "stat"
       /\ vfs_hidden(key) \/ (up /\ Files(key) = {} /\ ~IsDir(key))
    \/ a.out = "ENOENT" /\ a.op # "stat" /\ (state = "down" \/ Files(key) = {})
    \/ a.out = "EIO" /\ a.op = "stat" /\ state = "down"
    \/ a.out = "EIO" /\ a.op # "stat" /\ up /\ Files(key) # {}
    \/ a.out = "EFAIL" /\ a.op \in {"open", "fopen_r"} /\ up /\ Files(key) # {}
    \/ a.out = "EROFS" /\ a.op = "fopen_w"

Answers ==
    \/ answer'.out = "none"
    \/ /\ answer'.out = "host"
       /\ route' = "libc" \/ ~(OwnedByMount(answer'.path) /\ FitsKeybuf(answer'.path))
    \/ /\ OwnedByMount(answer'.path) /\ FitsKeybuf(answer'.path)
       /\ route' = "mount"
       /\ Legal(answer', health')

Next ==
    /\ Settles(route, route', {"mount", "libc"})
    /\ Settles(health, health', {"up", "down"})
    /\ Answers
    /\ UNCHANGED zip

Spec == Init /\ [][Next]_vars
=============================================================================

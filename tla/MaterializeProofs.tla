------------------------- MODULE MaterializeProofs -------------------------
(***************************************************************************)
(* Theorems about the temporary files of the Windows side, for any          *)
(* archives, any paths, and any number of descriptors and of files: the     *)
(* cache holds whole copies only, nothing is lost but what the code itself  *)
(* forgets, what is not open is removed at exit.                            *)
(***************************************************************************)
EXTENDS Materialize, VfsCoreProofs, SequenceTheorems

(* materialize is making a file that is in no cache yet; a call runs. *)
Making == pc \in {"extract", "create", "write"}
Running == pc \in {"materialize", "use"} \/ Making

InCache == {tmpcache[i] : i \in Cache}

(* The cache: whole copies, each of one record, to be removed at exit. *)
CacheInv ==
    /\ pc # "exited" => \A i \in Cache :
        /\ temp[tmpcache[i]] = Holding(entry_data(zip, i))
        /\ \A j \in Cache : tmpcache[j] = tmpcache[i] => i = j
    /\ Cache # {} => cleanup_registered # "no"

(* Every temporary file is cached, forgotten, or being made; none is two.   *)
FilesInv ==
    /\ pc # "exited" => There = InCache \cup Lost \cup (IF Making THEN {path} ELSE {})
    /\ Making => path \in There /\ path \notin InCache /\ ~temp[path].lost

(* Descriptors: what is open on a temporary file is the program's, or the   *)
(* one that materialize writes to.                                          *)
OpenInv ==
    /\ \A f \in held : fds[f].kind # "closed"
    /\ \A f \in Fd : on[f] # 0 =>
        /\ fds[f].kind # "closed" /\ temp[on[f]].there
        /\ IF pc = "write" /\ f = fd THEN on[f] = path ELSE f \in held /\ (Making => on[f] # path)

(* The record a running call is about is one its path names. *)
CallInv ==
    Running =>
        /\ idx \in DOMAIN zip.cdir
        /\ call.op \in {"open", "stat", "winpath"} /\ call.path \in Path
        /\ OwnedByMount(call.path)
        /\ g_disabled = 0 /\ g_state = 1
        /\ idx \in Matches(zip, WinKey(call.path), FALSE) /\ ~vfs_hidden(WinKey(call.path))
        /\ ret.call.op = "none"

(* How much of a copy is made at each step. *)
CopyInv ==
    /\ pc \notin {"create", "write"} => buf = NoBlock
    /\ pc # "write" => fd = 0
    /\ Making => tmpcache # << >> /\ tmpcache[idx] = 0
    /\ pc \in {"create", "write"} => buf.data = entry_data(zip, idx)
    /\ pc = "write" =>
        /\ fd \in Fd \ held /\ on[fd] = path /\ fds[fd].kind # "closed"
        /\ \E n \in 0 .. Len(buf.data) : temp[path] = Holding(SubSeq(buf.data, 1, n))
    /\ pc = "use" => idx \in Cache /\ path = tmpcache[idx]

Inv == TypeOK /\ CacheInv /\ FilesInv /\ OpenInv /\ CallInv /\ CopyInv /\ CleansUp /\ ReservedMount

-----------------------------------------------------------------------------
(* Paths. *)

(* A path that fits the buffers is not cut. *)
LEMMA FittingIsWhole ==
    ASSUME NEW p \in Path, FitsBuffer(p)
    PROVE  WinKey(p) = path_canon(p.segs)
<1>. DEFINE segs == p.segs
            n == Len(segs)
            Fits(k) == /\ k = 0 \/ ~TooLong(segs, k)
                       /\ k < n => TooLong(segs, k + 1)
<1>1. n \in Nat /\ \A k \in 1 .. n : ~TooLong(segs, k)
  BY DEF Path, FitsBuffer
<1>. HIDE DEF segs
<1>2. Fits(n)
  BY <1>1
<1>3. \A k \in 0 .. n : Fits(k) => k = n
  BY <1>1
<1>. HIDE DEF Fits
<1>4. n \in 0 .. n
  BY <1>1
<1>5. (CHOOSE k \in 0 .. n : Fits(k)) = n
  BY <1>2, <1>3, <1>4
<1>6. Fitting(segs) = n
  BY <1>5 DEF Fitting, Fits
<1>7. Truncated(segs) = segs
  BY <1>6 DEF Truncated
<1>. QED
  BY <1>7 DEF WinKey, segs

-----------------------------------------------------------------------------
(* Types. *)

LEMMA CacheTyped ==
    ASSUME TypeOK
    PROVE  /\ Cache \subseteq DOMAIN zip.cdir /\ InCache \subseteq Temp
           /\ \A i \in Cache : tmpcache[i] \in Temp
           /\ zip \in Archive /\ DOMAIN zip.cdir = 1 .. Len(zip.cdir) /\ Len(zip.cdir) \in Nat
           /\ tmpcache # << >> => tmpcache \in [DOMAIN zip.cdir -> 0 .. MaxTemp]
           /\ MaxTemp \in Nat
<1>1. /\ zip \in Archive /\ Len(zip.cdir) \in Nat /\ DOMAIN zip.cdir = 1 .. Len(zip.cdir)
  BY ArchiveTyped DEF TypeOK, Archive
<1>2. MaxTemp \in Nat
  BY MaterializeAssumption
<1>3. CASE tmpcache = << >>
  BY <1>1, <1>2, <1>3 DEF Cache, InCache
<1>4. CASE tmpcache \in [DOMAIN zip.cdir -> 0 .. MaxTemp]
  BY <1>1, <1>2, <1>4 DEF Cache, InCache, Temp
<1>. QED
  BY <1>1, <1>2, <1>3, <1>4 DEF TypeOK

LEMMA DataTyped ==
    ASSUME TypeOK, NEW i \in DOMAIN zip.cdir
    PROVE  /\ entry_data(zip, i) \in Seq(Byte) /\ Len(entry_data(zip, i)) \in Nat
           /\ entry_size(zip, i) = Len(entry_data(zip, i))
  BY CacheTyped, EntryTyped

TempFile == [there : BOOLEAN, data : Seq(Byte), lost : BOOLEAN]

LEMMA FileTyped ==
    /\ NoFile \in TempFile /\ ~NoFile.there
    /\ \A data \in Seq(Byte) :
        /\ Holding(data) \in TempFile
        /\ Holding(data).there /\ Holding(data).data = data /\ ~Holding(data).lost
<1>1. << >> \in Seq(Byte)
  OBVIOUS
<1>. QED
  BY <1>1 DEF NoFile, Holding, TempFile

LEMMA TypeParts ==
    TypeOK <=>
        /\ CoreTypeOK /\ marker \in BOOLEAN
        /\ tmpcache = << >> \/ tmpcache \in [DOMAIN zip.cdir -> 0 .. MaxTemp]
        /\ cleanup_registered \in {"no", "yes", "lost"}
        /\ temp \in [Temp -> TempFile]
        /\ on \in [Fd -> 0 .. MaxTemp]
        /\ pc \in {"idle", "materialize", "extract", "create", "write", "use", "exited"}
        /\ idx \in 0 .. Len(zip.cdir) /\ path \in 0 .. MaxTemp /\ fd \in 0 .. FdLimit
        /\ held \subseteq Fd
  BY DEF TypeOK, TempFile

LEMMA InitInv == Init => Inv
<1>. SUFFICES ASSUME Init PROVE Inv
  OBVIOUS
<1>1. CoreTypeOK
  BY CoreInitTyped DEF Init
<1>2. TypeOK
  <2>1. Len(zip.cdir) \in Nat
    BY <1>1, ArchiveTyped
  <2>2. temp \in [Temp -> TempFile]
    BY FileTyped DEF Init
  <2>3. MaxTemp \in Nat /\ FdLimit \in Nat
    BY MaterializeAssumption, CoreAssumption
  <2>4. on \in [Fd -> 0 .. MaxTemp]
    BY <2>3 DEF Init
  <2>5. idx \in 0 .. Len(zip.cdir) /\ path \in 0 .. MaxTemp /\ fd \in 0 .. FdLimit
    BY <2>1, <2>3 DEF Init
  <2>6. marker \in BOOLEAN /\ cleanup_registered \in {"no", "yes", "lost"}
    BY DEF Init
  <2>7. tmpcache = << >> /\ pc = "idle" /\ held \subseteq Fd
    BY DEF Init
  <2>. QED
    BY <1>1, <2>2, <2>4, <2>5, <2>6, <2>7, TypeParts
<1>3. pc = "idle" /\ Cache = {} /\ There = {} /\ Lost = {} /\ held = {} /\ on = [f \in Fd |-> 0]
  BY DEF Init, Cache, There, Lost, NoFile
<1>4. CacheInv /\ FilesInv /\ OpenInv
  BY <1>3 DEF CacheInv, FilesInv, OpenInv, Making, InCache
<1>5. CallInv /\ CopyInv /\ CleansUp
  BY <1>3 DEF Init, CallInv, CopyInv, CleansUp, Running, Making
<1>6. ReservedMount
  BY DEF Init, ReservedMount, Answer, NoCall
<1>. QED
  BY <1>2, <1>4, <1>5, <1>6 DEF Inv

-----------------------------------------------------------------------------
(* What steps have in common. *)

(* A call that ends leaves nothing behind. *)
LEMMA Ended ==
    ASSUME NEW out, NEW val, Ends(out, val)
    PROVE  /\ pc' = "idle" /\ ~Running' /\ ~Making'
           /\ CallInv' /\ CopyInv' /\ CleansUp'
<1>1. pc' = "idle" /\ buf' = NoBlock /\ fd' = 0
  BY DEF Ends
<1>. QED
  BY <1>1 DEF Running, Making, CallInv, CopyInv, CleansUp

(* What a call leaves in its locals when it ends has its type. *)
LEMMA EndTyped ==
    ASSUME TypeOK, NEW out, NEW val, Ends(out, val), UNCHANGED <<zip, off_env, g_disabled, reader, marker>>,
           fds' \in [Fd -> File],
           tmpcache' = << >> \/ tmpcache' \in [DOMAIN zip.cdir -> 0 .. MaxTemp],
           cleanup_registered' \in {"no", "yes", "lost"},
           temp' \in [Temp -> TempFile], on' \in [Fd -> 0 .. MaxTemp], held' \subseteq Fd
    PROVE  TypeOK'
<1>1. CoreTypeOK'
  BY DEF TypeOK, CoreTypeOK, reader
<1>2. pc' = "idle" /\ idx' = 0 /\ path' = 0 /\ fd' = 0
  BY DEF Ends
<1>3. Len(zip.cdir) \in Nat /\ MaxTemp \in Nat /\ FdLimit \in Nat
  BY CacheTyped, CoreAssumption
<1>4. idx' \in 0 .. Len(zip.cdir) /\ path' \in 0 .. MaxTemp /\ fd' \in 0 .. FdLimit
  BY <1>2, <1>3
<1>. QED
  BY <1>1, <1>2, <1>4 DEF TypeOK, TempFile

(* A running call is of an entry of its path, whatever comes of it. *)
LEMMA EndsReserved ==
    ASSUME Inv, Running, NEW out, NEW val, Ends(out, val),
           UNCHANGED <<marker, zip, g_disabled, g_state>>,
           out \notin {"ENOENT", "host"},
           out = "fd" => fds'[val].data = entry_data(zip, idx)
    PROVE  ReservedMount'
<1>1. ret' = Answer(call, out, val)
  BY DEF Ends
<1>2. /\ call.path \in Path /\ g_state = 1
      /\ idx \in Matches(zip, WinKey(call.path), FALSE) /\ ~vfs_hidden(WinKey(call.path))
  BY DEF Inv, CallInv
<1>. DEFINE p == call.path
<1>3. /\ ret'.call.path = p /\ ret'.out = out /\ ret'.val = val
  BY <1>1 DEF Answer
<1>4. FitsBuffer(p) => idx \in Named(p)
  <2>. HAVE FitsBuffer(p)
  <2>. QED
    BY <1>2, FittingIsWhole DEF Named
<1>5. ASSUME NEW q PROVE Named(q)' = Named(q)
  BY DEF Named, Matches
<1>. HIDE DEF p
<1>. QED
  BY <1>2, <1>3, <1>4, <1>5 DEF ReservedMount

(* calloc gives a cache of nothing. *)
LEMMA CacheKept ==
    ASSUME TypeOK, tmpcache' \in {tmpcache, Allocated}
    PROVE  /\ Cache' = Cache /\ \A i \in Cache : tmpcache'[i] = tmpcache[i]
           /\ InCache' = InCache
           /\ tmpcache' = << >> \/ tmpcache' \in [DOMAIN zip.cdir -> 0 .. MaxTemp]
<1>1. CASE tmpcache' = tmpcache
  BY <1>1, TypeParts DEF Cache, InCache
<1>2. CASE tmpcache = << >> /\ tmpcache' = Allocated
  <2>1. tmpcache' = [i \in DOMAIN zip.cdir |-> 0]
    BY <1>2 DEF Allocated
  <2>2. Cache = {} /\ Cache' = {}
    BY <1>2, <2>1 DEF Cache
  <2>3. 0 \in 0 .. MaxTemp
    BY MaterializeAssumption
  <2>. QED
    BY <2>1, <2>2, <2>3 DEF InCache
<1>. QED
  BY <1>1, <1>2 DEF Allocated

(* A step that touches neither the files nor the descriptors. *)
LEMMA FilesKept ==
    ASSUME Inv, UNCHANGED <<core, temp, on, held, cleanup_registered>>,
           tmpcache' \in {tmpcache, Allocated},
           pc # "exited", pc' # "exited", pc # "write", pc' # "write",
           Making' => Making /\ path' = path,
           Making => Making'
    PROVE  CacheInv' /\ FilesInv' /\ OpenInv'
<1>1. /\ TypeOK /\ CacheInv /\ FilesInv /\ OpenInv
      /\ There' = There /\ Lost' = Lost
  BY DEF Inv, There, Lost
<1>2. /\ Cache' = Cache /\ \A i \in Cache : tmpcache'[i] = tmpcache[i]
      /\ InCache' = InCache
  BY <1>1, CacheKept
<1>3. CacheInv'
  BY <1>1, <1>2 DEF CacheInv, core
<1>4. FilesInv'
  BY <1>1, <1>2 DEF FilesInv
<1>5. OpenInv'
  BY <1>1 DEF OpenInv, core
<1>. QED
  BY <1>3, <1>4, <1>5

-----------------------------------------------------------------------------
(* materialize, step by step. *)

LEMMA CachedKeeps ==
    ASSUME Inv, Cached, UNCHANGED marker
    PROVE  Inv'
<1>1. /\ pc = "materialize" /\ pc' = "use" /\ Running /\ ~Making /\ ~Making' /\ Running'
      /\ UNCHANGED <<core, files, marker, call, idx, buf, fd, held, ret>>
  BY DEF Cached, Running, Making
<1>2. TypeOK /\ CallInv /\ CopyInv /\ ReservedMount /\ idx \in DOMAIN zip.cdir
  BY <1>1 DEF Inv, CallInv
<1>3. tmpcache # << >> /\ tmpcache[idx] # 0 /\ path' = tmpcache[idx] /\ idx \in Cache
  <2>1. Allocated[idx] # 0 /\ path' = tmpcache[idx]
    BY DEF Cached
  <2>2. tmpcache # << >>
    BY <1>2, <2>1 DEF Allocated
  <2>. QED
    BY <1>2, <2>1, <2>2, CacheTyped DEF Allocated, Cache
<1>4. TypeOK'
  <2>1. path' \in 0 .. MaxTemp
    BY <1>2, <1>3, CacheTyped DEF Temp
  <2>2. CoreTypeOK'
    BY <1>1, <1>2, TypeParts, CoreUnchanged
  <2>. QED
    BY <1>1, <1>2, <2>1, <2>2 DEF TypeOK, core, files
<1>5. CacheInv' /\ FilesInv' /\ OpenInv'
  BY <1>1, FilesKept DEF files
<1>6. CallInv'
  BY <1>1, <1>2 DEF CallInv, core, Matches, WinKey
<1>7. CopyInv'
  <2>1. buf = NoBlock /\ fd = 0
    BY <1>1, <1>2 DEF CopyInv
  <2>2. Cache' = Cache
    BY <1>1 DEF Cache, files
  <2>. QED
    BY <1>1, <1>3, <2>1, <2>2 DEF CopyInv, files
<1>8. CleansUp' /\ ReservedMount'
  BY <1>1, <1>2 DEF CleansUp, ReservedMount, core, Named, Matches
<1>. QED
  BY <1>4, <1>5, <1>6, <1>7, <1>8 DEF Inv

LEMMA NoTempKeeps ==
    ASSUME Inv, NoTemp, UNCHANGED marker
    PROVE  Inv'
<1>1. /\ pc = "materialize" /\ Running /\ ~Making /\ Ends("EIO", 0)
      /\ tmpcache' \in {tmpcache, Allocated}
      /\ UNCHANGED <<core, cleanup_registered, temp, on, held, marker>>
  BY DEF NoTemp, Running, Making
<1>2. TypeOK
  BY DEF Inv
<1>3. pc' = "idle" /\ ~Making' /\ CallInv' /\ CopyInv' /\ CleansUp'
  BY <1>1, Ended
<1>4. CacheInv' /\ FilesInv' /\ OpenInv'
  BY <1>1, <1>3, FilesKept
<1>5. ReservedMount'
  BY <1>1, EndsReserved DEF core
<1>6. TypeOK'
  <2>1. /\ fds \in [Fd -> File] /\ cleanup_registered \in {"no", "yes", "lost"}
        /\ temp \in [Temp -> TempFile] /\ on \in [Fd -> 0 .. MaxTemp] /\ held \subseteq Fd
    BY <1>2, TypeParts DEF CoreTypeOK
  <2>. QED
    BY <1>1, <1>2, <2>1, EndTyped, CacheKept DEF core, reader
<1>. QED
  BY <1>3, <1>4, <1>5, <1>6 DEF Inv

LEMMA GetTempFileNameKeeps ==
    ASSUME Inv, GetTempFileName, UNCHANGED marker
    PROVE  Inv'
<1>1. PICK t \in Temp \ There : path' = t /\ temp' = [temp EXCEPT ![t] = Holding(<< >>)]
  BY DEF GetTempFileName
<1>2. /\ pc = "materialize" /\ pc' = "extract" /\ Running /\ ~Making /\ Making' /\ Running'
      /\ Allocated[idx] = 0 /\ tmpcache' = Allocated
      /\ UNCHANGED <<core, cleanup_registered, on, call, idx, buf, fd, held, ret, marker>>
  BY DEF GetTempFileName, Running, Making
<1>3. /\ TypeOK /\ CacheInv /\ FilesInv /\ OpenInv /\ CallInv /\ CopyInv /\ ReservedMount
      /\ idx \in DOMAIN zip.cdir
  BY <1>2 DEF Inv, CallInv
<1>4. /\ temp' \in [Temp -> TempFile]
      /\ temp'[t] = Holding(<< >>) /\ temp'[t].there /\ ~temp'[t].lost
      /\ \A u \in Temp : u # t => temp'[u] = temp[u]
  <2>1. << >> \in Seq(Byte)
    OBVIOUS
  <2>2. temp \in [Temp -> TempFile]
    BY <1>3, TypeParts
  <2>. QED
    BY <1>1, <2>1, <2>2, FileTyped
<1>5. There' = There \cup {t} /\ Lost' = Lost
  BY <1>1, <1>4 DEF There, Lost
<1>6. /\ Cache' = Cache /\ \A i \in Cache : tmpcache'[i] = tmpcache[i]
      /\ InCache' = InCache
      /\ tmpcache' = << >> \/ tmpcache' \in [DOMAIN zip.cdir -> 0 .. MaxTemp]
  BY <1>2, <1>3, CacheKept
<1>7. InCache \subseteq There /\ \A i \in Cache : tmpcache[i] \in Temp /\ tmpcache[i] # t
  BY <1>1, <1>2, <1>3, CacheTyped DEF FilesInv, InCache
<1>8. TypeOK'
  <2>1. CoreTypeOK'
    BY <1>2, <1>3, TypeParts, CoreUnchanged
  <2>2. path' \in 0 .. MaxTemp
    BY <1>1, <1>3, CacheTyped DEF Temp
  <2>. QED
    BY <1>2, <1>3, <1>4, <1>6, <2>1, <2>2 DEF TypeOK, TempFile, core
<1>9. CacheInv'
  BY <1>2, <1>3, <1>4, <1>6, <1>7 DEF CacheInv, core
<1>10. FilesInv'
  BY <1>1, <1>2, <1>3, <1>4, <1>5, <1>6, <1>7 DEF FilesInv
<1>11. OpenInv'
  <2>1. \A f \in Fd : on[f] # 0 => on[f] \in Temp /\ temp[on[f]].there /\ on[f] # t /\ f \in held
    BY <1>1, <1>2, <1>3, CacheTyped DEF OpenInv, There, TypeOK, Temp
  <2>. QED
    BY <1>1, <1>2, <1>3, <1>4, <2>1 DEF OpenInv, core
<1>12. CallInv'
  BY <1>2, <1>3 DEF CallInv, core, Matches, WinKey
<1>13. CopyInv'
  <2>1. buf = NoBlock /\ fd = 0
    BY <1>2, <1>3 DEF CopyInv
  <2>2. tmpcache' # << >> /\ tmpcache'[idx] = 0
    BY <1>2, <1>3 DEF Allocated
  <2>. QED
    BY <1>2, <2>1, <2>2 DEF CopyInv
<1>14. CleansUp' /\ ReservedMount'
  BY <1>2, <1>3 DEF CleansUp, ReservedMount, core, Named, Matches
<1>. QED
  BY <1>8, <1>9, <1>10, <1>11, <1>12, <1>13, <1>14 DEF Inv

LEMMA ExtractKeeps ==
    ASSUME Inv, Extract, UNCHANGED marker
    PROVE  Inv'
<1>1. /\ pc = "extract" /\ pc' = "create" /\ Running /\ Making /\ Making' /\ Running'
      /\ UNCHANGED <<core, files, call, idx, path, fd, held, ret, marker>>
  BY DEF Extract, Running, Making
<1>2. /\ TypeOK /\ CallInv /\ CopyInv /\ ReservedMount /\ idx \in DOMAIN zip.cdir
  BY <1>1 DEF Inv, CallInv
<1>3. buf'.data = entry_data(zip, idx)
  <2>1. CASE entry_size(zip, idx) = 0
    <3>1. buf' = NoBlock
      BY <1>1, <1>2, <2>1 DEF Extract, CopyInv
    <3>2. entry_data(zip, idx) = << >>
      BY <1>2, <2>1, DataTyped, EmptySeq
    <3>. QED
      BY <3>1, <3>2 DEF NoBlock
  <2>2. CASE entry_size(zip, idx) # 0
    <3>1. zip \in Archive /\ idx \in 1 .. Len(zip.cdir)
      BY <1>2, ArchiveTyped DEF TypeOK, Archive
    <3>. QED
      BY <2>2, <3>1, ExtractedData DEF Extract, Block
  <2>. QED
    BY <2>1, <2>2
<1>4. TypeOK'
  BY <1>1, <1>2, TypeParts, CoreUnchanged DEF TypeOK, core, files
<1>5. CacheInv' /\ FilesInv' /\ OpenInv'
  BY <1>1, FilesKept DEF files
<1>6. CallInv'
  BY <1>1, <1>2 DEF CallInv, core, Matches, WinKey
<1>7. CopyInv'
  BY <1>1, <1>2, <1>3 DEF CopyInv, core, files
<1>8. CleansUp' /\ ReservedMount'
  BY <1>1, <1>2 DEF CleansUp, ReservedMount, core, Named, Matches
<1>. QED
  BY <1>4, <1>5, <1>6, <1>7, <1>8 DEF Inv

(* Of the files only the one in the making changes. *)
LEMMA MadeFile ==
    ASSUME Inv, Making, NEW file_ \in TempFile,
           temp' = [temp EXCEPT ![path] = file_]
    PROVE  /\ temp' \in [Temp -> TempFile] /\ path \in Temp /\ path \in There /\ path \notin InCache
           /\ temp'[path] = file_ /\ \A t \in Temp : t # path => temp'[t] = temp[t]
           /\ There = InCache \cup Lost \cup {path} /\ path \notin Lost
           /\ There' = IF file_.there THEN There ELSE There \ {path}
           /\ Lost' = IF file_.there /\ file_.lost THEN Lost \cup {path} ELSE Lost
           /\ \A i \in Cache : tmpcache[i] \in Temp /\ temp'[tmpcache[i]] = temp[tmpcache[i]]
<1>1. /\ temp \in [Temp -> TempFile] /\ path \in There /\ path \notin InCache /\ ~temp[path].lost
      /\ There = InCache \cup Lost \cup {path}
  BY TypeParts DEF Inv, FilesInv, Making
<1>2. path \in Temp
  BY <1>1 DEF There
<1>3. /\ temp' \in [Temp -> TempFile]
      /\ temp'[path] = file_ /\ \A t \in Temp : t # path => temp'[t] = temp[t]
  BY <1>1, <1>2
<1>4. path \notin Lost
  BY <1>1 DEF Lost
<1>5. There' = IF file_.there THEN There ELSE There \ {path}
  BY <1>1, <1>2, <1>3 DEF There
<1>6. Lost' = IF file_.there /\ file_.lost THEN Lost \cup {path} ELSE Lost
  BY <1>1, <1>2, <1>3, <1>4, <1>5 DEF Lost, There
<1>7. \A i \in Cache : tmpcache[i] \in Temp /\ temp'[tmpcache[i]] = temp[tmpcache[i]]
  BY <1>1, <1>3, CacheTyped DEF Inv, InCache
<1>. QED
  BY <1>1, <1>2, <1>3, <1>4, <1>5, <1>6, <1>7

(* A file whose making fails is gone before the call returns. *)
LEMMA AbandonKeeps ==
    ASSUME Inv, Making, Ends("EIO", 0), temp' = [temp EXCEPT ![path] = NoFile],
           UNCHANGED <<Settled, tmpcache, cleanup_registered, held, marker>>,
           IF pc = "write" THEN CloseFd(fd) ELSE UNCHANGED <<fds, on>>
    PROVE  Inv'
<1>1. /\ TypeOK /\ CacheInv /\ FilesInv /\ OpenInv /\ CopyInv
      /\ fds \in [Fd -> File] /\ on \in [Fd -> 0 .. MaxTemp]
  BY TypeParts DEF Inv, CoreTypeOK
<1>2. pc' = "idle" /\ ~Making' /\ CallInv' /\ CopyInv' /\ CleansUp'
  BY Ended
<1>3. NoFile \in TempFile /\ ~NoFile.there
  BY FileTyped
<1>4. /\ temp' \in [Temp -> TempFile] /\ \A t \in Temp : t # path => temp'[t] = temp[t]
      /\ There = InCache \cup Lost \cup {path} /\ path \notin Lost /\ path \notin InCache
      /\ There' = There \ {path} /\ Lost' = Lost
      /\ \A i \in Cache : temp'[tmpcache[i]] = temp[tmpcache[i]]
  BY <1>3, MadeFile
<1>5. /\ fds' \in [Fd -> File] /\ on' \in [Fd -> 0 .. MaxTemp]
      /\ \A f \in held : fds'[f] = fds[f]
      /\ \A f \in Fd : on'[f] # 0 => fds'[f] = fds[f] /\ on'[f] = on[f] /\ on[f] # path /\ f \in held
  <2>1. CASE pc = "write"
    <3>1. fd \in Fd \ held
      BY <1>1, <2>1 DEF CopyInv
    <3>2. /\ fds' = [fds EXCEPT ![fd] = Closed] /\ on' = [on EXCEPT ![fd] = 0]
          /\ Closed \in File /\ 0 \in 0 .. MaxTemp
      BY <2>1, NewFileTyped, MaterializeAssumption DEF CloseFd
    <3>3. /\ fds' \in [Fd -> File] /\ on' \in [Fd -> 0 .. MaxTemp] /\ on'[fd] = 0
          /\ \A f \in Fd : f # fd => fds'[f] = fds[f] /\ on'[f] = on[f]
      BY <1>1, <3>1, <3>2
    <3>. QED
      BY <1>1, <2>1, <3>1, <3>3 DEF OpenInv, TypeOK
  <2>2. CASE pc # "write"
    BY <1>1, <2>2 DEF OpenInv
  <2>. QED
    BY <2>1, <2>2
<1>6. TypeOK'
  BY <1>1, <1>4, <1>5, EndTyped DEF TypeOK, Settled
<1>7. CacheInv'
  BY <1>1, <1>2, <1>4 DEF CacheInv, Cache, Settled, Making
<1>8. FilesInv'
  BY <1>1, <1>2, <1>4 DEF FilesInv, InCache, Cache
<1>9. OpenInv'
  <2>1. \A f \in Fd : on'[f] # 0 => temp'[on'[f]].there
    BY <1>1, <1>4, <1>5 DEF OpenInv, Temp
  <2>. QED
    BY <1>1, <1>2, <1>5, <2>1 DEF OpenInv, TypeOK
<1>10. ReservedMount'
  BY EndsReserved DEF Settled, reader, Running
<1>. QED
  BY <1>2, <1>6, <1>7, <1>8, <1>9, <1>10 DEF Inv

(* Nobody has the file open that DeleteFile is to remove. *)
LEMMA DeletedWhole ==
    ASSUME Inv, Making, pc # "write"
    PROVE  Delete({path}) = [temp EXCEPT ![path] = NoFile]
<1>1. path \in Temp /\ temp \in [Temp -> TempFile]
  BY TypeParts DEF Inv, FilesInv, There
<1>2. \A f \in Fd : on[f] # path
  <2>1. path # 0
    BY <1>1 DEF Temp
  <2>. QED
    BY <2>1 DEF Inv, OpenInv
<1>. QED
  BY <1>1, <1>2 DEF Delete

LEMMA ExtractFailsKeeps ==
    ASSUME Inv, ExtractFails, UNCHANGED marker
    PROVE  Inv'
<1>1. /\ pc = "extract" /\ Making /\ Ends("EIO", 0) /\ temp' = Delete({path})
      /\ UNCHANGED <<core, tmpcache, cleanup_registered, on, held, marker>>
  BY DEF ExtractFails, Making
<1>2. temp' = [temp EXCEPT ![path] = NoFile]
  BY <1>1, DeletedWhole
<1>. QED
  BY <1>1, <1>2, AbandonKeeps DEF core, Settled, reader

LEMMA CreateFailsKeeps ==
    ASSUME Inv, CreateFails, UNCHANGED marker
    PROVE  Inv'
<1>1. /\ pc = "create" /\ Making /\ Ends("EIO", 0) /\ temp' = Delete({path})
      /\ UNCHANGED <<core, tmpcache, cleanup_registered, on, held, marker>>
  BY DEF CreateFails, Making
<1>2. temp' = [temp EXCEPT ![path] = NoFile]
  BY <1>1, DeletedWhole
<1>. QED
  BY <1>1, <1>2, AbandonKeeps DEF core, Settled, reader

LEMMA WriteFailsKeeps ==
    ASSUME Inv, WriteFails, UNCHANGED marker
    PROVE  Inv'
<1>1. /\ pc = "write" /\ Making /\ Ends("EIO", 0) /\ temp' = [temp EXCEPT ![path] = NoFile]
      /\ CloseFd(fd) /\ UNCHANGED <<Settled, tmpcache, cleanup_registered, held, marker>>
  BY DEF WriteFails, Making
<1>. QED
  BY <1>1, AbandonKeeps

(* open gives a free descriptor to a temporary file. *)
LEMMA OpenedOn ==
    ASSUME Inv, FreeFds # {}, NEW file_ \in File, file_.kind # "closed", NEW t \in Temp,
           fds' = [fds EXCEPT ![LowestFd] = file_],
           on' = [on EXCEPT ![LowestFd] = t]
    PROVE  /\ LowestFd \in Fd \ held
           /\ fds' \in [Fd -> File] /\ fds'[LowestFd] = file_
           /\ on' \in [Fd -> 0 .. MaxTemp] /\ on'[LowestFd] = t
           /\ \A f \in Fd : f # LowestFd => fds'[f] = fds[f] /\ on'[f] = on[f]
<1>. DEFINE l == LowestFd
<1>1. l \in FreeFds
  BY LowestIsFree
<1>2. l \in Fd \ held
  BY <1>1 DEF Inv, OpenInv, FreeFds, OpenFds
<1>3. fds \in [Fd -> File] /\ on \in [Fd -> 0 .. MaxTemp] /\ t \in 0 .. MaxTemp
  BY CacheTyped DEF Inv, TypeOK, CoreTypeOK, Temp
<1>4. fds' = [fds EXCEPT ![l] = file_] /\ on' = [on EXCEPT ![l] = t]
  OBVIOUS
<1>. HIDE DEF l
<1>5. /\ fds' \in [Fd -> File] /\ fds'[l] = file_
      /\ on' \in [Fd -> 0 .. MaxTemp] /\ on'[l] = t
      /\ \A f \in Fd : f # l => fds'[f] = fds[f] /\ on'[f] = on[f]
  BY <1>2, <1>3, <1>4
<1>. QED
  BY <1>2, <1>5 DEF l

LEMMA CreateKeeps ==
    ASSUME Inv, Create, UNCHANGED marker
    PROVE  Inv'
<1>. DEFINE l == LowestFd
<1>1. /\ pc = "create" /\ pc' = "write" /\ Running /\ Making /\ Making' /\ Running'
      /\ FreeFds # {} /\ fd' = l
      /\ temp' = [temp EXCEPT ![path] = Holding(<< >>)]
      /\ UNCHANGED <<Settled, tmpcache, cleanup_registered, call, idx, path, buf, held, ret, marker>>
  BY DEF Create, Running, Making
<1>2. /\ TypeOK /\ CacheInv /\ FilesInv /\ OpenInv /\ CallInv /\ CopyInv /\ ReservedMount
      /\ idx \in DOMAIN zip.cdir
  BY <1>1 DEF Inv, CallInv
<1>3. << >> \in Seq(Byte)
  OBVIOUS
<1>4. /\ temp' \in [Temp -> TempFile] /\ path \in Temp
      /\ temp'[path] = Holding(<< >>) /\ \A t \in Temp : t # path => temp'[t] = temp[t]
      /\ There' = There /\ Lost' = Lost /\ path \in There /\ path \notin InCache
      /\ \A i \in Cache : temp'[tmpcache[i]] = temp[tmpcache[i]]
  BY <1>1, <1>3, FileTyped, MadeFile
<1>5. /\ l \in Fd \ held /\ fds' \in [Fd -> File] /\ fds'[l].kind # "closed"
      /\ on' \in [Fd -> 0 .. MaxTemp] /\ on'[l] = path
      /\ \A f \in Fd : f # l => fds'[f] = fds[f] /\ on'[f] = on[f]
  <2>1. NewFile("virtual") \in File /\ NewFile("virtual").kind # "closed"
    BY NewFileTyped DEF NewFile
  <2>. QED
    BY <1>1, <1>4, <2>1, OpenedOn DEF Create
<1>. HIDE DEF l
<1>6. TypeOK'
  <2>1. CoreTypeOK'
    BY <1>1, <1>2, <1>5 DEF TypeOK, CoreTypeOK, Settled, reader
  <2>2. fd' \in 0 .. FdLimit
    BY <1>1, <1>5, FdsAreNat
  <2>. QED
    BY <1>1, <1>2, <1>4, <1>5, <2>1, <2>2 DEF TypeOK, TempFile, Settled
<1>7. CacheInv'
  BY <1>1, <1>2, <1>4 DEF CacheInv, Cache, Settled
<1>8. FilesInv'
  <2>1. ~temp'[path].lost
    BY <1>3, <1>4, FileTyped
  <2>2. InCache' = InCache
    BY <1>1 DEF InCache, Cache
  <2>. QED
    BY <1>1, <1>2, <1>4, <2>1, <2>2 DEF FilesInv
<1>9. OpenInv'
  <2>1. \A f \in Fd : f # l /\ on[f] # 0 => on[f] \in Temp /\ temp'[on[f]] = temp[on[f]] /\ f \in held /\ on[f] # path
    BY <1>1, <1>2, <1>4 DEF OpenInv, TypeOK, Temp
  <2>2. temp'[path].there
    BY <1>3, <1>4, FileTyped
  <2>. QED
    BY <1>1, <1>2, <1>5, <2>1, <2>2 DEF OpenInv, TypeOK
<1>10. CallInv'
  BY <1>1, <1>2 DEF CallInv, Settled, reader, Matches, WinKey
<1>11. CopyInv'
  <2>1. entry_data(zip, idx) \in Seq(Byte) /\ Len(entry_data(zip, idx)) \in Nat
    BY <1>2, DataTyped
  <2>2. buf.data = entry_data(zip, idx) /\ SubSeq(buf.data, 1, 0) = << >>
    BY <1>1, <1>2, SubSeqEmpty DEF CopyInv
  <2>3. temp'[path] = Holding(SubSeq(buf.data, 1, 0))
    BY <1>4, <2>2
  <2>4. 0 \in 0 .. Len(buf.data)
    BY <2>1, <2>2
  <2>. QED
    BY <1>1, <1>2, <1>5, <2>3, <2>4 DEF CopyInv, Settled
<1>12. CleansUp' /\ ReservedMount'
  <2>1. \A f \in held : f \in Fd /\ f # l
    BY <1>2, <1>5 DEF TypeOK
  <2>. QED
    BY <1>1, <1>2, <1>5, <2>1 DEF CleansUp, ReservedMount, Settled, reader, Named, Matches
<1>. QED
  BY <1>6, <1>7, <1>8, <1>9, <1>10, <1>11, <1>12 DEF Inv

(* While the file is written the bytes are an initial part of the block. *)
LEMMA Writing ==
    ASSUME Inv, pc = "write"
    PROVE  /\ Making /\ Running /\ idx \in DOMAIN zip.cdir
           /\ buf.data = entry_data(zip, idx) /\ buf.data \in Seq(Byte) /\ Len(buf.data) \in Nat
           /\ Written \in 0 .. Len(buf.data)
           /\ Written = Len(buf.data) => temp[path] = Holding(entry_data(zip, idx))
<1>1. TypeOK /\ CopyInv /\ CallInv /\ Making /\ Running
  BY DEF Inv, Making, Running
<1>2. /\ idx \in DOMAIN zip.cdir /\ buf.data = entry_data(zip, idx)
      /\ buf.data \in Seq(Byte) /\ Len(buf.data) \in Nat
  BY <1>1, DataTyped DEF CallInv, CopyInv
<1>3. PICK n \in 0 .. Len(buf.data) : temp[path] = Holding(SubSeq(buf.data, 1, n))
  BY <1>1 DEF CopyInv
<1>4. Len(SubSeq(buf.data, 1, n)) = n
  <2>1. n \in Int /\ 1 \in Int /\ \A i \in 1 .. n : buf.data[i] \in Byte
    BY <1>2, <1>3, ElementOfSeq
  <2>. QED
    BY <2>1, <1>2, <1>3, SubSeqProperties
<1>5. Written = n
  BY <1>3, <1>4 DEF Written, Holding
<1>6. SubSeq(buf.data, 1, Len(buf.data)) = buf.data
  BY <1>2, SubSeqFull
<1>. QED
  BY <1>1, <1>2, <1>3, <1>5, <1>6

LEMMA WriteSomeKeeps ==
    ASSUME Inv, WriteSome, UNCHANGED marker
    PROVE  Inv'
<1>1. /\ pc = "write" /\ UNCHANGED <<core, tmpcache, cleanup_registered, on, locals, held, ret, marker>>
  BY DEF WriteSome
<1>2. PICK n \in Written + 1 .. Len(buf.data) : temp' = [temp EXCEPT ![path] = Holding(SubSeq(buf.data, 1, n))]
  BY DEF WriteSome
<1>3. /\ TypeOK /\ CacheInv /\ FilesInv /\ OpenInv /\ CallInv /\ CopyInv /\ ReservedMount
      /\ Making /\ Making' /\ Running
  BY <1>1 DEF Inv, Making, Running, locals
<1>4. n \in 0 .. Len(buf.data) /\ SubSeq(buf.data, 1, n) \in Seq(Byte)
  <2>1. Written \in Nat /\ buf.data \in Seq(Byte) /\ Len(buf.data) \in Nat
    BY <1>1, Writing
  <2>2. n \in 0 .. Len(buf.data)
    BY <1>2, <2>1
  <2>3. n \in Int /\ \A i \in 1 .. n : buf.data[i] \in Byte
    BY <2>1, <2>2, ElementOfSeq
  <2>. QED
    BY <2>2, <2>3, SubSeqProperties
<1>5. /\ Holding(SubSeq(buf.data, 1, n)) \in TempFile
      /\ Holding(SubSeq(buf.data, 1, n)).there /\ ~Holding(SubSeq(buf.data, 1, n)).lost
  BY <1>4, FileTyped
<1>6. /\ temp' \in [Temp -> TempFile] /\ path \in Temp
      /\ temp'[path] = Holding(SubSeq(buf.data, 1, n))
      /\ \A t \in Temp : t # path => temp'[t] = temp[t]
      /\ There' = There /\ Lost' = Lost /\ path \in There /\ path \notin InCache
      /\ \A i \in Cache : temp'[tmpcache[i]] = temp[tmpcache[i]]
  BY <1>2, <1>3, <1>5, MadeFile
<1>7. TypeOK'
  BY <1>1, <1>3, <1>6, TypeParts, CoreUnchanged DEF TypeOK, TempFile, core, locals
<1>8. CacheInv'
  BY <1>1, <1>3, <1>6 DEF CacheInv, Cache, core, locals
<1>9. FilesInv'
  <2>1. InCache' = InCache /\ path' = path
    BY <1>1 DEF InCache, Cache, locals
  <2>. QED
    BY <1>1, <1>3, <1>5, <1>6, <2>1 DEF FilesInv, locals
<1>10. OpenInv'
  <2>1. \A f \in Fd : on[f] # 0 => on[f] \in Temp /\ temp'[on[f]].there
    BY <1>3, <1>5, <1>6 DEF OpenInv, TypeOK, Temp
  <2>. QED
    BY <1>1, <1>3, <2>1 DEF OpenInv, core, locals
<1>11. CallInv'
  BY <1>1, <1>3 DEF CallInv, Running, Making, core, locals, Matches, WinKey
<1>12. CopyInv'
  BY <1>1, <1>3, <1>4, <1>6 DEF CopyInv, Making, Cache, core, locals
<1>13. CleansUp' /\ ReservedMount'
  BY <1>1, <1>3 DEF CleansUp, ReservedMount, core, locals, Named, Matches
<1>. QED
  BY <1>7, <1>8, <1>9, <1>10, <1>11, <1>12, <1>13 DEF Inv

(* The descriptor that was written to is closed, and no other. *)
LEMMA WriterCloses ==
    ASSUME Inv, pc = "write", CloseFd(fd)
    PROVE  /\ fds' \in [Fd -> File] /\ on' \in [Fd -> 0 .. MaxTemp]
           /\ \A f \in held : f \in Fd /\ fds'[f] = fds[f] /\ on'[f] = on[f]
           /\ \A f \in Fd : on'[f] # 0 => f \in held /\ fds[f].kind # "closed" /\ temp[on[f]].there /\ on[f] \in Temp
<1>1. /\ fds \in [Fd -> File] /\ on \in [Fd -> 0 .. MaxTemp] /\ OpenInv /\ fd \in Fd \ held /\ held \subseteq Fd
  BY TypeParts DEF Inv, CoreTypeOK, CopyInv
<1>2. /\ fds' = [fds EXCEPT ![fd] = Closed] /\ on' = [on EXCEPT ![fd] = 0]
      /\ Closed \in File /\ 0 \in 0 .. MaxTemp
  BY NewFileTyped, MaterializeAssumption DEF CloseFd
<1>3. /\ fds' \in [Fd -> File] /\ on' \in [Fd -> 0 .. MaxTemp] /\ on'[fd] = 0
      /\ \A f \in Fd : f # fd => fds'[f] = fds[f] /\ on'[f] = on[f]
  BY <1>1, <1>2
<1>. QED
  BY <1>1, <1>3 DEF OpenInv, Temp

LEMMA KeepKeeps ==
    ASSUME Inv, Keep, UNCHANGED marker
    PROVE  Inv'
<1>1. /\ pc = "write" /\ pc' = "use" /\ Written = Len(buf.data) /\ CloseFd(fd)
      /\ cleanup_registered' \in {"yes", "lost"} /\ tmpcache' = [tmpcache EXCEPT ![idx] = path]
      /\ buf' = NoBlock /\ fd' = 0
      /\ UNCHANGED <<Settled, temp, call, idx, path, held, ret, marker>>
  BY DEF Keep, Register, Inv, TypeOK
<1>2. /\ TypeOK /\ CacheInv /\ FilesInv /\ OpenInv /\ CallInv /\ CopyInv /\ ReservedMount
      /\ Making /\ Running /\ ~Making' /\ Running'
  BY <1>1 DEF Inv, Making, Running
<1>3. idx \in DOMAIN zip.cdir /\ temp[path] = Holding(entry_data(zip, idx))
  BY <1>1, Writing
<1>4. /\ fds' \in [Fd -> File] /\ on' \in [Fd -> 0 .. MaxTemp]
      /\ \A f \in held : f \in Fd /\ fds'[f] = fds[f] /\ on'[f] = on[f]
      /\ \A f \in Fd : on'[f] # 0 => f \in held /\ fds[f].kind # "closed" /\ temp[on[f]].there /\ on[f] \in Temp
  BY <1>1, WriterCloses
<1>5. path \in Temp /\ path \in There /\ path \notin InCache /\ path # 0 /\ path \in 0 .. MaxTemp
  BY <1>2, MaterializeAssumption DEF FilesInv, There, Temp
<1>6. /\ tmpcache # << >> /\ tmpcache[idx] = 0
      /\ tmpcache \in [DOMAIN zip.cdir -> 0 .. MaxTemp]
  BY <1>2, CacheTyped DEF CopyInv
<1>7. /\ tmpcache' \in [DOMAIN zip.cdir -> 0 .. MaxTemp] /\ tmpcache'[idx] = path
      /\ \A i \in DOMAIN zip.cdir : i # idx => tmpcache'[i] = tmpcache[i]
      /\ DOMAIN tmpcache = DOMAIN zip.cdir /\ DOMAIN tmpcache' = DOMAIN zip.cdir
  BY <1>1, <1>3, <1>5, <1>6
<1>8. Cache' = Cache \cup {idx} /\ idx \notin Cache
  BY <1>3, <1>5, <1>6, <1>7 DEF Cache
<1>9. InCache' = InCache \cup {path}
  BY <1>3, <1>7, <1>8 DEF InCache, Cache
<1>10. TypeOK'
  <2>1. CoreTypeOK'
    BY <1>1, <1>2, <1>4 DEF TypeOK, CoreTypeOK, Settled, reader
  <2>2. 0 \in 0 .. FdLimit
    BY CoreAssumption
  <2>. QED
    BY <1>1, <1>2, <1>4, <1>7, <2>1, <2>2 DEF TypeOK, Settled
<1>11. CacheInv'
  <2>1. \A i \in Cache : i \in DOMAIN zip.cdir /\ i # idx /\ tmpcache'[i] = tmpcache[i] /\ tmpcache[i] # path
    BY <1>2, <1>5, <1>7, <1>8, CacheTyped DEF InCache
  <2>2. \A i \in Cache' : temp[tmpcache'[i]] = Holding(entry_data(zip, i))
    BY <1>1, <1>2, <1>3, <1>7, <1>8, <2>1 DEF CacheInv
  <2>3. \A i \in Cache', j \in Cache' : tmpcache'[j] = tmpcache'[i] => i = j
    BY <1>1, <1>2, <1>7, <1>8, <2>1 DEF CacheInv
  <2>. QED
    BY <1>1, <2>2, <2>3 DEF CacheInv, Settled
<1>12. FilesInv'
  BY <1>1, <1>2, <1>9 DEF FilesInv, There, Lost
<1>13. OpenInv'
  BY <1>1, <1>2, <1>4 DEF OpenInv
<1>14. CallInv'
  BY <1>1, <1>2 DEF CallInv, Settled, reader, Matches, WinKey
<1>15. CopyInv'
  BY <1>1, <1>2, <1>7, <1>8 DEF CopyInv
<1>16. CleansUp' /\ ReservedMount'
  BY <1>1, <1>2, <1>4 DEF CleansUp, ReservedMount, Settled, reader, Named, Matches
<1>. QED
  BY <1>10, <1>11, <1>12, <1>13, <1>14, <1>15, <1>16 DEF Inv

LEMMA KeepFailsKeeps ==
    ASSUME Inv, KeepFails, UNCHANGED marker
    PROVE  Inv'
<1>1. /\ pc = "write" /\ Written = Len(buf.data) /\ CloseFd(fd) /\ Ends("EIO", 0)
      /\ cleanup_registered' \in {"yes", "lost"} /\ temp' = [temp EXCEPT ![path].lost = TRUE]
      /\ UNCHANGED <<Settled, tmpcache, held, marker>>
  BY DEF KeepFails, Register, Inv, TypeOK
<1>2. /\ TypeOK /\ CacheInv /\ FilesInv /\ OpenInv /\ Making /\ Running
  BY <1>1 DEF Inv, Making, Running
<1>3. pc' = "idle" /\ ~Making' /\ CallInv' /\ CopyInv' /\ CleansUp'
  BY <1>1, Ended
<1>. DEFINE kept == [temp[path] EXCEPT !.lost = TRUE]
<1>4. temp[path] \in TempFile /\ temp[path].there
  BY <1>2, TypeParts DEF FilesInv, There
<1>5. kept \in TempFile /\ kept.there /\ kept.lost /\ temp' = [temp EXCEPT ![path] = kept]
  BY <1>1, <1>4 DEF TempFile
<1>. HIDE DEF kept
<1>6. /\ temp' \in [Temp -> TempFile]
      /\ temp'[path] = kept /\ \A t \in Temp : t # path => temp'[t] = temp[t]
      /\ There = InCache \cup Lost \cup {path}
      /\ There' = There /\ Lost' = Lost \cup {path}
      /\ \A i \in Cache : temp'[tmpcache[i]] = temp[tmpcache[i]]
  BY <1>2, <1>5, MadeFile
<1>7. /\ fds' \in [Fd -> File] /\ on' \in [Fd -> 0 .. MaxTemp]
      /\ \A f \in held : f \in Fd /\ fds'[f] = fds[f] /\ on'[f] = on[f]
      /\ \A f \in Fd : on'[f] # 0 => f \in held /\ fds[f].kind # "closed" /\ temp[on[f]].there /\ on[f] \in Temp
  BY <1>1, WriterCloses
<1>8. TypeOK'
  BY <1>1, <1>2, <1>6, <1>7, EndTyped DEF TypeOK, Settled
<1>9. CacheInv'
  BY <1>1, <1>2, <1>3, <1>6 DEF CacheInv, Cache, Settled, Making
<1>10. FilesInv'
  <2>1. InCache' = InCache
    BY <1>1 DEF InCache, Cache
  <2>. QED
    BY <1>3, <1>6, <2>1 DEF FilesInv
<1>11. OpenInv'
  <2>1. \A f \in Fd : on'[f] # 0 => temp'[on'[f]].there
    BY <1>5, <1>6, <1>7
  <2>. QED
    BY <1>1, <1>2, <1>3, <1>7, <2>1 DEF OpenInv
<1>12. ReservedMount'
  BY <1>1, <1>2, EndsReserved DEF Settled, reader
<1>. QED
  BY <1>3, <1>8, <1>9, <1>10, <1>11, <1>12 DEF Inv

-----------------------------------------------------------------------------
(* The call itself. *)

LEMMA UseFailsKeeps ==
    ASSUME Inv, UseFails \/ UsePath, UNCHANGED marker
    PROVE  Inv'
<1>1. /\ pc = "use" /\ Running /\ ~Making
      /\ UNCHANGED <<core, files, held, marker>>
      /\ \E out \in {"EFAIL", "file", "path"} : \E val : Ends(out, val)
  BY DEF UseFails, UsePath, Running, Making
<1>2. PICK out, val : out \in {"EFAIL", "file", "path"} /\ Ends(out, val)
  BY <1>1
<1>3. pc' = "idle" /\ ~Making' /\ CallInv' /\ CopyInv' /\ CleansUp'
  BY <1>2, Ended
<1>4. CacheInv' /\ FilesInv' /\ OpenInv'
  BY <1>1, <1>3, FilesKept DEF files
<1>5. ReservedMount'
  BY <1>1, <1>2, EndsReserved DEF core
<1>6. TypeOK'
  BY <1>1, <1>2, EndTyped DEF Inv, TypeOK, TempFile, CoreTypeOK, core, files, reader
<1>. QED
  BY <1>3, <1>4, <1>5, <1>6 DEF Inv

LEMMA UseOpensKeeps ==
    ASSUME Inv, UseOpens, UNCHANGED marker
    PROVE  Inv'
<1>. DEFINE l == LowestFd
            file_ == [kind |-> "virtual", data |-> temp[path].data, pos |-> 0]
<1>1. /\ pc = "use" /\ Running /\ ~Making /\ FreeFds # {} /\ Ends("fd", l)
      /\ fds' = [fds EXCEPT ![l] = file_] /\ on' = [on EXCEPT ![l] = path]
      /\ held' = held \cup {l}
      /\ UNCHANGED <<Settled, tmpcache, cleanup_registered, temp, marker>>
  BY DEF UseOpens, Running, Making
<1>2. /\ TypeOK /\ CacheInv /\ FilesInv /\ OpenInv /\ CallInv /\ CopyInv
      /\ idx \in DOMAIN zip.cdir /\ idx \in Cache /\ path = tmpcache[idx] /\ pc # "exited"
  BY <1>1 DEF Inv, CallInv, CopyInv
<1>3. temp[path] = Holding(entry_data(zip, idx)) /\ path \in Temp /\ entry_data(zip, idx) \in Seq(Byte)
  BY <1>2, CacheTyped, DataTyped DEF CacheInv
<1>4. pc' = "idle" /\ ~Making' /\ CallInv' /\ CopyInv' /\ CleansUp'
  BY <1>1, Ended
<1>5. file_ \in File /\ file_.kind # "closed" /\ file_.data = entry_data(zip, idx)
  BY <1>3 DEF File, Holding
<1>. HIDE DEF file_
<1>6. /\ l \in Fd \ held /\ fds' \in [Fd -> File] /\ fds'[l] = file_
      /\ on' \in [Fd -> 0 .. MaxTemp] /\ on'[l] = path
      /\ \A f \in Fd : f # l => fds'[f] = fds[f] /\ on'[f] = on[f]
  BY <1>1, <1>3, <1>5, OpenedOn
<1>. HIDE DEF l
<1>7. TypeOK'
  BY <1>1, <1>2, <1>6, EndTyped DEF TypeOK, TempFile, Settled
<1>8. CacheInv'
  BY <1>1, <1>2, <1>4 DEF CacheInv, Cache, Settled
<1>9. FilesInv'
  BY <1>1, <1>2, <1>4 DEF FilesInv, There, Lost, InCache, Cache
<1>10. OpenInv'
  <2>1. temp[path].there
    BY <1>3, FileTyped
  <2>. QED
    BY <1>1, <1>2, <1>4, <1>5, <1>6, <2>1 DEF OpenInv, TypeOK
<1>11. ReservedMount'
  BY <1>1, <1>5, <1>6, EndsReserved DEF Settled, reader
<1>. QED
  BY <1>4, <1>7, <1>8, <1>9, <1>10, <1>11 DEF Inv

-----------------------------------------------------------------------------
(* The steps between calls. *)

(* unpin_vfs_init takes no descriptor that is open. *)
LEMMA ReaderKeepsOpen ==
    ASSUME CoreTypeOK, unpin_vfs_init
    PROVE  \A f \in OpenFds : fds'[f] = fds[f]
<1>1. CASE UNCHANGED fds
  BY <1>1
<1>2. CASE self_open
  BY <1>2, Taken DEF self_open, CoreTypeOK
<1>. QED
  BY <1>1, <1>2 DEF unpin_vfs_init, InitFails, InitSucceeds

(* vfs_find, and what it says of the record it finds. *)
LEMMA FindTyped ==
    ASSUME CoreTypeOK, vfs_off, NEW key, vfs_find(key), UNCHANGED <<zip, off_env>>
    PROVE  /\ CoreTypeOK' /\ \A f \in OpenFds : fds'[f] = fds[f]
           /\ Found(key) \in Nat
           /\ Found(key) # 0 =>
                Found(key) \in Matches(zip, key, FALSE) /\ ~vfs_hidden(key) /\ g_state' = 1
           /\ Found(key) = 0 =>
                vfs_hidden(key) \/ g_state' # 1 \/ Matches(zip, key, FALSE) = {}
<1>1. CoreTypeOK' /\ \A f \in OpenFds : fds'[f] = fds[f]
  <2>1. CASE vfs_hidden(key)
    BY <2>1, OffTyped DEF CoreTypeOK, vfs_find, reader
  <2>2. CASE ~vfs_hidden(key)
    BY <2>2, OffTyped, ReaderTyped, ReaderKeepsOpen DEF CoreTypeOK, vfs_find
  <2>. QED
    BY <2>1, <2>2
<1>. DEFINE m == Matches(zip, key, FALSE)
            i == Locate(zip, key, FALSE)
<1>2. zip \in Archive /\ DOMAIN zip.cdir \subseteq Nat \ {0}
  <2>1. zip \in Archive /\ Len(zip.cdir) \in Nat
    BY ArchiveTyped
  <2>2. zip.cdir \in Seq(Entry)
    BY <2>1 DEF Archive
  <2>. QED
    BY <2>1, <2>2
<1>3. m \subseteq Nat \ {0}
  BY <1>2 DEF Matches
<1>4. i = IF m = {} THEN 0 ELSE CHOOSE j \in m : TRUE
  BY DEF Locate
<1>5. Found(key) = IF vfs_hidden(key) \/ g_state' # 1 THEN 0 ELSE i
  BY DEF Found
<1>. HIDE DEF m, i
<1>6. /\ i \in Nat /\ (i # 0 => i \in m) /\ (i = 0 => m = {})
  BY <1>3, <1>4
<1>7. /\ Found(key) \in Nat
      /\ Found(key) # 0 => Found(key) \in m /\ ~vfs_hidden(key) /\ g_state' = 1
      /\ Found(key) = 0 => vfs_hidden(key) \/ g_state' # 1 \/ m = {}
  BY <1>5, <1>6
<1>. QED
  BY <1>1, <1>7 DEF m

LEMMA CallKeeps ==
    ASSUME Inv, NEW op \in WinOp, NEW p \in Paths, Call(op, p), UNCHANGED marker
    PROVE  Inv'
<1>. DEFINE c == [op |-> op, path |-> p]
            key == WinKey(p)
<1>1. /\ pc = "idle" /\ ~Running /\ ~Making
      /\ UNCHANGED <<zip, off_env, files, marker>> /\ vfs_off
  BY DEF Call, Running, Making
<1>2. /\ TypeOK /\ CacheInv /\ FilesInv /\ OpenInv /\ CopyInv /\ CoreTypeOK
      /\ p \in Path /\ op \in {"open", "fopen_w", "stat", "access", "winpath"}
  BY MaterializeAssumption DEF Inv, TypeOK, WinOp
<1>3. \/ /\ ~KeyMatches(p) /\ UNCHANGED <<reader, fds>>
         /\ Returns(c, IF op = "winpath" THEN "NULL" ELSE "host", 0)
      \/ KeyMatches(p) /\ op = "fopen_w" /\ UNCHANGED <<reader, fds>> /\ Returns(c, "EROFS", 0)
      \/ KeyMatches(p) /\ op # "fopen_w" /\ vfs_find(key) /\ Found(key) = 0 /\ Returns(c, "ENOENT", 0)
      \/ KeyMatches(p) /\ op = "access" /\ vfs_find(key) /\ Found(key) # 0 /\ Returns(c, "ok", 0)
      \/ /\ KeyMatches(p) /\ op \notin {"fopen_w", "access"} /\ vfs_find(key) /\ Found(key) # 0
         /\ pc' = "materialize" /\ call' = c /\ idx' = Found(key)
         /\ ret' = Answer(NoCall, "none", 0)
         /\ UNCHANGED <<path, buf, fd, held>>
  BY DEF Call
<1>4. /\ UNCHANGED <<path, buf, fd, held, tmpcache, cleanup_registered, temp, on>>
      /\ pc' \in {"idle", "materialize"}
      /\ CoreTypeOK' /\ \A f \in OpenFds : fds'[f] = fds[f]
  <2>1. CASE UNCHANGED <<reader, fds>>
    BY <1>1, <1>2, <1>3, <2>1, OffTyped DEF CoreTypeOK, reader, Returns, locals, files
  <2>2. CASE vfs_find(key)
    BY <1>1, <1>2, <1>3, <2>2, FindTyped DEF Returns, locals, files
  <2>. QED
    BY <1>3, <2>1, <2>2
<1>5. vfs_find(key) =>
        /\ Found(key) \in Nat
        /\ Found(key) # 0 => /\ Found(key) \in Matches(zip, key, FALSE)
                             /\ ~vfs_hidden(key) /\ g_state' = 1 /\ Found(key) \in DOMAIN zip.cdir
        /\ Found(key) = 0 => vfs_hidden(key) \/ g_state' # 1 \/ Matches(zip, key, FALSE) = {}
  BY <1>1, <1>2, FindTyped DEF Matches
<1>. HIDE DEF c, key
<1>6. ~Making'
  BY <1>4 DEF Making
<1>7. TypeOK'
  <2>1. idx' = idx \/ idx' \in DOMAIN zip.cdir
    BY <1>3, <1>5 DEF Returns, locals
  <2>2. idx' \in 0 .. Len(zip.cdir)
    BY <1>2, <2>1, CacheTyped DEF TypeOK
  <2>. QED
    BY <1>1, <1>2, <1>4, <2>2 DEF TypeOK
<1>8. CacheInv'
  BY <1>1, <1>2, <1>4 DEF CacheInv, Cache
<1>9. FilesInv'
  BY <1>1, <1>2, <1>4, <1>6 DEF FilesInv, There, Lost, InCache, Cache
<1>10. OpenInv'
  BY <1>1, <1>2, <1>4, <1>6 DEF OpenInv, OpenFds, TypeOK
<1>11. CopyInv'
  BY <1>1, <1>2, <1>4, <1>6 DEF CopyInv
<1>12. CallInv'
  <2>1. CASE pc' = "idle"
    BY <1>6, <2>1 DEF CallInv, Running
  <2>2. CASE pc' = "materialize"
    <3>1. /\ KeyMatches(p) /\ op \notin {"fopen_w", "access"} /\ vfs_find(key) /\ Found(key) # 0
          /\ call' = c /\ idx' = Found(key) /\ ret' = Answer(NoCall, "none", 0)
      BY <1>1, <1>3, <2>2 DEF Returns, locals
    <3>2. /\ call'.op \in {"open", "stat", "winpath"} /\ call'.path = p
          /\ ret'.call.op = "none"
      BY <1>2, <3>1 DEF c, Answer, NoCall
    <3>3. g_disabled' = 0 /\ OwnedByMount(p)
      BY <3>1 DEF KeyMatches
    <3>4. Found(key) \in Matches(zip, WinKey(p), FALSE) /\ ~vfs_hidden(WinKey(p)) /\ g_state' = 1
          /\ Found(key) \in DOMAIN zip.cdir
      BY <1>5, <3>1 DEF key
    <3>. QED
      BY <1>1, <1>2, <3>1, <3>2, <3>3, <3>4 DEF CallInv, OwnedByMount, Matches, WinKey
  <2>. QED
    BY <1>4, <2>1, <2>2
<1>13. ReservedMount'
  <2>1. CASE pc' = "materialize"
    BY <1>1, <1>3, <2>1 DEF ReservedMount, Returns, locals, Answer, NoCall
  <2>2. CASE pc' = "idle"
    <3>1. ret'.call = c
      BY <1>3, <2>2 DEF Returns, Answer
    <3>2. ret'.call.path = p /\ ret'.call.op = op
      BY <3>1 DEF c
    <3>3. ASSUME NEW q PROVE Named(q)' = Named(q)
      BY <1>1 DEF Named, Matches
    <3>4. ASSUME op \in {"open", "stat", "access"}, OwnedByMount(p), FitsBuffer(p), g_disabled' = 0
          PROVE  ret'.out \notin {"host", "fd"} /\ (ret'.out = "ENOENT" <=> g_state' # 1 \/ Named(p) = {})
      <4>1. KeyMatches(p)
        BY <3>4 DEF KeyMatches, FitsBuffer
      <4>2. /\ vfs_find(key)
            /\ \/ Found(key) = 0 /\ ret'.out = "ENOENT"
               \/ Found(key) # 0 /\ ret'.out = "ok"
        BY <1>1, <1>3, <2>2, <3>4, <4>1 DEF Returns, Answer
      <4>3. key = path_canon(p.segs)
        BY <1>2, <3>4, FittingIsWhole DEF key
      <4>4. Named(p) = IF vfs_hidden(key) THEN {} ELSE Matches(zip, key, FALSE)
        BY <4>3 DEF Named
      <4>. QED
        BY <1>5, <4>2, <4>4
    <3>. QED
      BY <3>2, <3>3, <3>4 DEF ReservedMount, OwnedByMount
  <2>. QED
    BY <1>4, <2>1, <2>2
<1>14. CleansUp'
  BY <1>4 DEF CleansUp
<1>. QED
  BY <1>7, <1>8, <1>9, <1>10, <1>11, <1>12, <1>13, <1>14 DEF Inv

LEMMA CloseKeeps ==
    ASSUME Inv, NEW f \in held, Close(f), UNCHANGED marker
    PROVE  Inv'
<1>1. /\ pc = "idle" /\ ~Running /\ ~Making
      /\ fds' = [fds EXCEPT ![f] = Closed] /\ on' = [on EXCEPT ![f] = 0] /\ held' = held \ {f}
      /\ UNCHANGED <<Settled, tmpcache, cleanup_registered, temp, locals, ret, marker>>
  BY DEF Close, CloseFd, Running, Making
<1>2. /\ TypeOK /\ CacheInv /\ FilesInv /\ OpenInv /\ CopyInv /\ ReservedMount
      /\ fds \in [Fd -> File] /\ on \in [Fd -> 0 .. MaxTemp] /\ f \in Fd
      /\ Closed \in File /\ 0 \in 0 .. MaxTemp
  BY NewFileTyped, MaterializeAssumption DEF Inv, TypeOK, CoreTypeOK
<1>3. /\ fds' \in [Fd -> File] /\ on' \in [Fd -> 0 .. MaxTemp] /\ on'[f] = 0
      /\ \A g \in Fd : g # f => fds'[g] = fds[g] /\ on'[g] = on[g]
  BY <1>1, <1>2
<1>4. ~Running' /\ ~Making' /\ pc' = "idle"
  BY <1>1 DEF Running, Making, locals
<1>5. TypeOK'
  <2>1. CoreTypeOK'
    BY <1>1, <1>2, <1>3 DEF TypeOK, CoreTypeOK, Settled, reader
  <2>. QED
    BY <1>1, <1>2, <1>3, <2>1 DEF TypeOK, Settled, locals
<1>6. CacheInv' /\ FilesInv'
  BY <1>1, <1>2, <1>4 DEF CacheInv, FilesInv, There, Lost, InCache, Cache, Settled
<1>7. OpenInv'
  BY <1>1, <1>2, <1>3, <1>4 DEF OpenInv, TypeOK
<1>8. CallInv' /\ CleansUp'
  BY <1>4 DEF CallInv, CleansUp
<1>9. CopyInv'
  BY <1>1, <1>2, <1>4 DEF CopyInv, locals
<1>10. ReservedMount'
  BY <1>1, <1>2, <1>3 DEF ReservedMount, Settled, reader, Named, Matches, TypeOK
<1>. QED
  BY <1>5, <1>6, <1>7, <1>8, <1>9, <1>10 DEF Inv

LEMMA ExitKeeps ==
    ASSUME Inv, Exit, UNCHANGED marker
    PROVE  Inv'
<1>1. /\ pc = "idle" /\ pc' = "exited" /\ ~Making /\ ~Running' /\ ~Making'
      /\ temp' = IF cleanup_registered = "yes" THEN vfs_cleanup ELSE temp
      /\ UNCHANGED <<core, tmpcache, cleanup_registered, on, call, idx, path, buf, fd, held, ret, marker>>
  BY DEF Exit, Running, Making
<1>2. /\ TypeOK /\ CacheInv /\ FilesInv /\ OpenInv /\ CopyInv /\ ReservedMount
      /\ temp \in [Temp -> TempFile] /\ CoreTypeOK
  BY TypeParts DEF Inv
<1>. DEFINE names == {tmpcache[i] : i \in DOMAIN tmpcache}
<1>3. /\ temp' \in [Temp -> TempFile]
      /\ \A t \in Temp : temp'[t] = IF cleanup_registered = "yes" /\ t \in names /\ \A f \in Fd : on[f] # t THEN NoFile ELSE temp[t]
  BY <1>1, <1>2, FileTyped DEF vfs_cleanup, Delete
<1>4. TypeOK'
  BY <1>1, <1>2, <1>3, CoreUnchanged DEF TypeOK, TempFile, core
<1>5. CacheInv' /\ FilesInv'
  BY <1>1, <1>2 DEF CacheInv, FilesInv, Cache
<1>6. OpenInv'
  <2>1. \A f \in Fd : on[f] # 0 => on[f] \in Temp /\ temp'[on[f]] = temp[on[f]]
    BY <1>2, <1>3 DEF TypeOK, Temp
  <2>. QED
    BY <1>1, <1>2, <2>1 DEF OpenInv, core
<1>7. CleansUp'
  <2>1. SUFFICES ASSUME NEW t \in Temp, temp'[t].there, cleanup_registered # "lost"
                 PROVE  t \in {on[f] : f \in held} \cup Lost'
    BY <1>1 DEF CleansUp, There
  <2>2. temp'[t] = temp[t] /\ t \in There
    BY <1>3, <2>1, FileTyped DEF There
  <2>3. t \in InCache \/ t \in Lost
    BY <1>1, <1>2, <2>2 DEF FilesInv
  <2>4. CASE t \in Lost
    BY <2>1, <2>2, <2>4 DEF Lost, There
  <2>5. CASE t \in InCache
    <3>1. cleanup_registered = "yes" /\ t \in names
      BY <1>2, <2>1, <2>5 DEF TypeOK, CacheInv, InCache, Cache
    <3>2. t # 0 /\ ~NoFile.there
      BY FileTyped DEF Temp
    <3>3. PICK f \in Fd : on[f] = t
      BY <1>3, <2>1, <3>1, <3>2
    <3>. QED
      BY <1>1, <1>2, <3>2, <3>3 DEF OpenInv
  <2>. QED
    BY <2>3, <2>4, <2>5
<1>8. CallInv'
  BY <1>1 DEF CallInv
<1>9. CopyInv'
  BY <1>1, <1>2 DEF CopyInv
<1>10. ReservedMount'
  BY <1>1, <1>2 DEF ReservedMount, core, Named, Matches
<1>. QED
  BY <1>4, <1>5, <1>6, <1>7, <1>8, <1>9, <1>10 DEF Inv

LEMMA StutterKeeps ==
    ASSUME Inv, UNCHANGED vars
    PROVE  Inv'
<1>1. UNCHANGED <<marker, core, files, held, ret>> /\ UNCHANGED <<pc, call, idx, path, buf, fd>>
  BY DEF vars, locals
<1>2. TypeOK'
  BY <1>1, CoreUnchanged DEF Inv, TypeOK, core, files
<1>3. CacheInv' /\ FilesInv' /\ OpenInv'
  BY <1>1 DEF Inv, CacheInv, FilesInv, OpenInv, Cache, InCache, There, Lost, Making, core, files
<1>4. CallInv' /\ CopyInv' /\ CleansUp'
  BY <1>1 DEF Inv, CallInv, CopyInv, CleansUp, Running, Making, There, Lost, Cache, Matches, WinKey, core, files
<1>5. ReservedMount'
  BY <1>1 DEF Inv, ReservedMount, Named, Matches, core
<1>. QED
  BY <1>2, <1>3, <1>4, <1>5 DEF Inv

-----------------------------------------------------------------------------
(* Every reachable state has the invariant: a call ends as it began, with   *)
(* whole copies in the cache and no file, block or descriptor of its own.   *)
THEOREM Invariance == Spec => []Inv
<1>1. Init => Inv
  BY InitInv
<1>2. Inv /\ [Next]_vars => Inv'
  <2>1. SUFFICES ASSUME Inv, [Next]_vars PROVE Inv'
    OBVIOUS
  <2>2. ASSUME NEW op \in WinOp, NEW p \in Paths, Call(op, p), UNCHANGED marker PROVE Inv'
    BY <2>1, <2>2, CallKeeps
  <2>3. CASE Step /\ UNCHANGED marker
    BY <2>1, <2>3, CachedKeeps, NoTempKeeps, GetTempFileNameKeeps, ExtractKeeps, ExtractFailsKeeps,
       CreateKeeps, CreateFailsKeeps, WriteSomeKeeps, WriteFailsKeeps, KeepKeeps, KeepFailsKeeps,
       UseOpensKeeps, UseFailsKeeps DEF Step
  <2>4. ASSUME NEW f \in held, Close(f), UNCHANGED marker PROVE Inv'
    BY <2>1, <2>4, CloseKeeps
  <2>5. CASE Exit /\ UNCHANGED marker
    BY <2>1, <2>5, ExitKeeps
  <2>6. CASE UNCHANGED vars
    BY <2>1, <2>6, StutterKeeps
  <2>. QED
    BY <2>1, <2>2, <2>3, <2>4, <2>5, <2>6 DEF Next
<1>. QED
  BY <1>1, <1>2, PTL DEF Spec

(* A file in the cache is there, is the whole entry, and no other entry's,  *)
(* however many calls failed half way before (vfs.c:264, 282-290).          *)
THEOREM CopiesAreWhole == Spec => []CachedIsWhole
<1>1. Inv => CachedIsWhole
  BY DEF Inv, CachedIsWhole, CacheInv
<1>. QED
  BY <1>1, Invariance, PTL

(* Between calls every temporary file is in the cache or a whole copy that  *)
(* was forgotten, and nothing of a call is left open (vfs.c:275-290).       *)
THEOREM NothingIsLost == Spec => []NothingLost
<1>1. Inv => NothingLost
  <2>1. SUFFICES ASSUME Inv, pc = "idle"
                 PROVE  /\ There = InCache \cup Lost /\ ~buf.live
                        /\ {f \in Fd : on[f] # 0} \subseteq held
    BY DEF NothingLost, InCache
  <2>2. ~Making /\ pc # "write"
    BY <2>1 DEF Making
  <2>. QED
    BY <2>1, <2>2 DEF Inv, FilesInv, OpenInv, CopyInv, NoBlock
<1>. QED
  BY <1>1, Invariance, PTL

(* The exit leaves the files the program has still open and the forgotten   *)
(* ones, no others (vfs.c:288-298).                                         *)
THEOREM ExitCleansUp == Spec => []CleansUp
<1>1. Inv => CleansUp
  BY DEF Inv
<1>. QED
  BY <1>1, Invariance, PTL

(* No path of the mount that fits the buffers is ever the host's, ENOENT is *)
(* said of exactly those that name no entry, and what an open returns reads *)
(* as an entry of that name (vfs.h:7-8), for every archive and every path.  *)
THEOREM MountIsReserved == Spec => []ReservedMount
<1>1. Inv => ReservedMount
  BY DEF Inv
<1>. QED
  BY <1>1, Invariance, PTL
=============================================================================

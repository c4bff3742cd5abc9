--------------------------- MODULE VfsFileProofs ---------------------------
(***************************************************************************)
(* Theorems about open, fopen, stat and access on the mount, for any        *)
(* archives, any paths and any limit on descriptors: no call loses a        *)
(* descriptor or a block, and what open hands out is the whole entry.       *)
(***************************************************************************)
EXTENDS VfsFile, VfsCoreProofs, SequenceTheorems

(* What the answers promise. *)
AnswersRight == ServesPristine /\ HiddenStaysHidden

(* The invariant that holds itself up; every part of it is checked by the   *)
(* runs, too.                                                               *)
Inv == TypeOK /\ NoLeak /\ PipelineInv /\ AnswersRight

-----------------------------------------------------------------------------
(* Files. *)

LEMMA Rewritten ==
    ASSUME NEW f \in File, NEW data \in Seq(Byte), NEW pos \in Nat
    PROVE  /\ [f EXCEPT !.data = data, !.pos = pos] \in File
           /\ [f EXCEPT !.data = data, !.pos = pos].kind = f.kind
  BY DEF File

LEMMA GrownTyped ==
    ASSUME NEW f \in File, NEW bytes \in Seq(Byte)
    PROVE  /\ Grown(f, bytes) \in File /\ Grown(f, bytes).kind = f.kind
           /\ Grown(f, bytes).data = f.data \o bytes
<1>1. f.data \o bytes \in Seq(Byte) /\ f.pos + Len(bytes) \in Nat
  BY DEF File
<1>. QED
  BY <1>1 DEF File, Grown

-----------------------------------------------------------------------------
(* The calls.  Before any answers, it has settled the switch and, when it   *)
(* needs it, the reader; the reader's descriptor is a fresh one.            *)

SharedStep ==
    /\ vfs_off
    /\ unpin_vfs_init \/ UNCHANGED <<reader, fds>>
    /\ UNCHANGED <<zip, off_env>>

LEMMA Settled ==
    ASSUME Inv, pc = "idle", SharedStep
    PROVE  /\ CoreTypeOK'
           /\ g_state' # 1 => g_self' = 0
           /\ OpenFds' = held \cup ({g_self'} \ {0}) /\ g_self' \notin held
<1>1. CoreTypeOK /\ fds \in [Fd -> File] /\ g_self \in 0 .. FdLimit
  BY DEF Inv, TypeOK, CoreTypeOK
<1>2. /\ OpenFds = held \cup ({g_self} \ {0}) /\ g_self \notin held
      /\ g_state # 1 => g_self = 0
  BY DEF Inv, NoLeak, PipelineInv
<1>3. g_disabled' \in {-1, 0, 1} /\ zip' \in Archives /\ off_env' \in BOOLEAN
  BY <1>1, OffTyped DEF SharedStep, CoreTypeOK
<1>4. CASE UNCHANGED <<reader, fds>>
  BY <1>1, <1>2, <1>3, <1>4 DEF reader, CoreTypeOK, OpenFds
<1>5. CASE unpin_vfs_init
  <2>1. /\ g_state' \in {1, 2} /\ g_dict' \in BOOLEAN
        /\ g_self' \in 0 .. FdLimit /\ fds' \in [Fd -> File]
    BY <1>1, <1>5, ReaderTyped
  <2>2. CoreTypeOK'
    BY <1>3, <2>1 DEF CoreTypeOK
  <2>3. CASE UNCHANGED <<g_self, fds>> /\ (g_state' = 2 => g_self = 0)
    BY <1>2, <2>1, <2>2, <2>3 DEF OpenFds
  <2>4. CASE /\ g_state = 0 /\ g_state' = 1 /\ FreeFds # {} /\ g_self' = LowestFd
             /\ fds' = [fds EXCEPT ![LowestFd] = NewFile("self")]
    <3>1. LowestFd \in Fd /\ LowestFd \notin OpenFds /\ OpenFds' = OpenFds \cup {LowestFd}
      BY <1>1, <2>4, Taken
    <3>2. g_self = 0 /\ OpenFds = held
      BY <1>2, <2>4
    <3>. QED
      BY <2>2, <2>4, <3>1, <3>2, FdsAreNat
  <2>5. \/ UNCHANGED <<g_self, fds>> /\ (g_state' = 2 => g_self = 0)
        \/ /\ g_state = 0 /\ g_state' = 1 /\ FreeFds # {} /\ g_self' = LowestFd
           /\ fds' = [fds EXCEPT ![LowestFd] = NewFile("self")]
    <3>1. CASE g_state # 0
      BY <1>2, <1>5, <3>1 DEF unpin_vfs_init, reader
    <3>2. CASE g_state = 0
      <4>1. InitFails \/ InitSucceeds
        BY <1>5, <3>2 DEF unpin_vfs_init
      <4>2. CASE InitFails
        BY <1>2, <3>2, <4>2 DEF InitFails
      <4>3. CASE InitSucceeds
        BY <3>2, <4>3 DEF InitSucceeds, self_open
      <4>. QED
        BY <4>1, <4>2, <4>3
    <3>. QED
      BY <3>1, <3>2
  <2>. QED
    BY <2>3, <2>4, <2>5
<1>. QED
  BY <1>4, <1>5 DEF SharedStep

(* A call that answers without opening anything. *)
LEMMA Answered ==
    ASSUME Inv, pc = "idle", SharedStep,
           NEW op \in FileOp, NEW p \in Path, NEW out \in Outcome \ {"fd"}, NEW val \in Nat,
           out \in {"file", "dir", "ok"} => ~vfs_hidden(KeyOf(p)),
           Returns(op, p, out, val)
    PROVE  Inv'
<1>1. /\ CoreTypeOK'
      /\ g_state' # 1 => g_self' = 0
      /\ OpenFds' = held \cup ({g_self'} \ {0}) /\ g_self' \notin held
  BY Settled
<1>2. /\ pc' = "idle" /\ call' = call /\ idx' = idx /\ buf' = NoBlock /\ fd' = 0 /\ held' = held
      /\ fd = 0 /\ zip' = zip
  BY DEF Returns, Inv, PipelineInv, SharedStep
<1>3. /\ ret' = Answer(op, p, out, val) /\ ret'.out # "fd"
      /\ ret' \in [op : FileOp \cup {"none"}, path : Path, out : Outcome, val : Nat]
  BY DEF Returns, Answer
<1>4. TypeOK'
  <2>1. /\ call \in [op : FileOp, path : Path] /\ idx \in 0 .. Len(zip.cdir)
        /\ buf \in [live : BOOLEAN, data : Seq(Byte)] /\ fd \in 0 .. FdLimit /\ held \subseteq Fd
    BY DEF Inv, TypeOK
  <2>2. idx' \in 0 .. Len(zip'.cdir) /\ buf' = buf /\ fd' = fd
    BY <1>2, <2>1 DEF Returns
  <2>. QED
    BY <1>1, <1>2, <1>3, <2>1, <2>2 DEF TypeOK
<1>5. NoLeak'
  BY <1>1, <1>2 DEF Inv, TypeOK, NoLeak, NoBlock, Fd
<1>6. PipelineInv'
  <2>1. pc' \notin {"fd_for", "anon_fd", "write_all", "mz_free", "fdopen"}
    BY <1>2
  <2>. QED
    BY <1>1, <1>2, <2>1 DEF PipelineInv
<1>7. AnswersRight'
  <2>1. ret'.out = out /\ ret'.path = p
    BY <1>3 DEF Answer
  <2>2. HiddenStaysHidden'
    BY <2>1 DEF HiddenStaysHidden, vfs_hidden, Metadata
  <2>. QED
    BY <1>3, <2>2 DEF AnswersRight, ServesPristine
<1>. QED
  BY <1>4, <1>5, <1>6, <1>7 DEF Inv

(* libc opens. *)
LEMMA RealOpened ==
    ASSUME Inv, pc = "idle", vfs_off, UNCHANGED <<zip, off_env>>,
           NEW op \in FileOp, NEW p \in Path, RealOpen(op, p)
    PROVE  Inv'
<1>1. CASE UNCHANGED <<reader, fds>> /\ Returns(op, p, "host", 0)
  <2>1. SharedStep
    BY <1>1 DEF SharedStep
  <2>. QED
    BY <1>1, <2>1, Answered DEF Outcome
<1>2. CASE /\ FreeFds # {} /\ UNCHANGED reader
           /\ fds' = [fds EXCEPT ![LowestFd] = NewFile("host")]
           /\ held' = held \cup {LowestFd}
           /\ ret' = Answer(op, p, "host", LowestFd)
           /\ UNCHANGED <<pc, call, idx, buf, fd>>
  <2>1. CoreTypeOK /\ fds \in [Fd -> File] /\ held \subseteq Fd
    BY DEF Inv, TypeOK, CoreTypeOK
  <2>2. /\ LowestFd \in Fd /\ LowestFd \notin OpenFds /\ fds' \in [Fd -> File]
        /\ OpenFds' = OpenFds \cup {LowestFd}
    BY <1>2, <2>1, Taken
  <2>3. CoreTypeOK'
    BY <1>2, <2>1, <2>2, OffTyped DEF CoreTypeOK, reader
  <2>4. /\ pc' = "idle" /\ fd' = 0 /\ buf' = NoBlock /\ g_self' = g_self /\ g_state' = g_state
        /\ OpenFds = held \cup ({g_self} \ {0}) /\ g_self \notin held /\ fd = 0
        /\ held' = held \cup {LowestFd} /\ zip' = zip
    BY <1>2 DEF Inv, NoLeak, PipelineInv, reader
  <2>5. /\ ret' \in [op : FileOp \cup {"none"}, path : Path, out : Outcome, val : Nat]
        /\ ret'.out = "host"
    BY <1>2, <2>2, FdsAreNat DEF Answer, Outcome
  <2>6. TypeOK'
    BY <1>2, <2>1, <2>2, <2>3, <2>4, <2>5 DEF Inv, TypeOK
  <2>7. NoLeak'
    <3>1. LowestFd # g_self /\ LowestFd # 0
      BY <2>2, <2>4, FdsAreNat
    <3>. QED
      BY <2>1, <2>2, <2>4, <3>1, FdsAreNat DEF NoLeak, NoBlock
  <2>8. PipelineInv'
    BY <2>4 DEF Inv, PipelineInv
  <2>9. AnswersRight'
    BY <2>5 DEF AnswersRight, ServesPristine, HiddenStaysHidden
  <2>. QED
    BY <2>6, <2>7, <2>8, <2>9 DEF Inv
<1>. QED
  BY <1>1, <1>2 DEF RealOpen

(* The mount opens: a miss, or the pipeline starts on the record found. *)
LEMMA VirtualOpened ==
    ASSUME Inv, pc = "idle", vfs_off, UNCHANGED <<zip, off_env>>,
           NEW op \in FileOp, NEW p \in Path, OpenVirtual(op, p)
    PROVE  Inv'
<1>. DEFINE i == Found(KeyOf(p))
<1>1. SharedStep
  BY DEF OpenVirtual, vfs_find, SharedStep
<1>2. CASE i = 0
  BY <1>1, <1>2, Answered DEF OpenVirtual, Outcome
<1>3. CASE i # 0
  <2>1. /\ CoreTypeOK'
        /\ g_state' # 1 => g_self' = 0
        /\ OpenFds' = held \cup ({g_self'} \ {0}) /\ g_self' \notin held
    BY <1>1, Settled
  <2>2. zip' = zip /\ zip \in Archive
    BY ArchiveTyped DEF Inv, TypeOK
  <2>3. i \in Matches(zip, KeyOf(p), FALSE) /\ i \in 1 .. Len(zip.cdir)
    BY <1>3, <2>2, LocateMatches DEF Found
  <2>4. ~vfs_hidden(KeyOf(p))
    BY <1>3 DEF Found
  <2>5. /\ pc' = "fd_for" /\ call' = [op |-> op, path |-> p] /\ idx' = i
        /\ ret' = NoAnswer /\ buf' = NoBlock /\ fd' = 0 /\ held' = held /\ fd = 0
    BY <1>3 DEF OpenVirtual, Inv, PipelineInv
  <2>. HIDE DEF i
  <2>6. TypeOK'
    <3>1. call' \in [op : FileOp, path : Path] /\ idx' \in 0 .. Len(zip'.cdir)
      BY <2>2, <2>3, <2>5
    <3>2. ret' \in [op : FileOp \cup {"none"}, path : Path, out : Outcome, val : Nat]
      BY <2>5 DEF NoAnswer, NoPath, Outcome, Path
    <3>3. buf' \in [live : BOOLEAN, data : Seq(Byte)] /\ fd' \in 0 .. FdLimit /\ held' \subseteq Fd
      BY <2>5 DEF NoBlock, Inv, TypeOK
    <3>4. pc' \in {"idle", "fd_for", "anon_fd", "write_all", "mz_free", "fdopen"}
      BY <2>5
    <3>. QED
      BY <2>1, <3>1, <3>2, <3>3, <3>4 DEF TypeOK
  <2>7. NoLeak'
    BY <2>1, <2>5, FdsAreNat DEF NoLeak, Inv, TypeOK
  <2>8. PipelineInv'
    <3>1. call'.path = p
      BY <2>5
    <3>2. pc' \notin {"idle", "anon_fd", "write_all", "mz_free", "fdopen"}
      BY <2>5
    <3>. QED
      BY <2>1, <2>2, <2>3, <2>5, <2>4, <3>1, <3>2 DEF PipelineInv
  <2>9. AnswersRight'
    BY <2>5 DEF AnswersRight, ServesPristine, HiddenStaysHidden, NoAnswer
  <2>. QED
    BY <2>6, <2>7, <2>8, <2>9 DEF Inv
<1>. QED
  BY <1>2, <1>3

LEMMA CallsKeep ==
    ASSUME Inv, NEW p \in Paths,
           \/ OPEN_FN(p) \/ STAT_FN(p) \/ ACCESS_FN(p)
           \/ \E op \in {"fopen_r", "fopen_w"} : FOPEN_FN(op, p)
    PROVE  Inv'
<1>1. p \in Path
  BY FileAssumption
<1>2. CASE OPEN_FN(p)
  BY <1>1, <1>2, RealOpened, VirtualOpened DEF OPEN_FN, FileOp
<1>3. CASE STAT_FN(p)
  <2>1. CASE Routed(p)
    <3>1. StatVirtual(p) /\ pc = "idle" /\ SharedStep
      BY <1>3, <2>1 DEF STAT_FN, StatVirtual, vfs_find, SharedStep
    <3>2. PICK out \in {"ENOENT", "EIO", "dir", "file"}, val \in Nat :
              /\ Returns("stat", p, out, val)
              /\ out \in {"dir", "file"} => ~vfs_hidden(KeyOf(p))
      <4>. DEFINE i == find_entry(zip, KeyOf(p))
      <4>1. CASE i # 0
        <5>1. i \in 1 .. Len(zip.cdir) /\ entry_size(zip, i) \in Nat
          <6>1. zip \in Archive
            BY ArchiveTyped DEF Inv, TypeOK
          <6>2. \E slash \in BOOLEAN : i = Locate(zip, KeyOf(p), slash)
            BY DEF find_entry
          <6>3. i \in 1 .. Len(zip.cdir)
            BY <4>1, <6>1, <6>2, LocateMatches
          <6>. QED
            BY <6>1, <6>3, EntryTyped
        <5>. HIDE DEF i
        <5>. QED
          BY <3>1, <4>1, <5>1 DEF StatVirtual, i
      <4>2. CASE i = 0
        BY <3>1, <4>2 DEF StatVirtual
      <4>. QED
        BY <4>1, <4>2
    <3>. QED
      BY <1>1, <3>1, <3>2, Answered DEF FileOp, Outcome
  <2>2. CASE ~Routed(p)
    <3>1. SharedStep /\ Returns("stat", p, "host", 0) /\ pc = "idle"
      BY <1>3, <2>2 DEF STAT_FN, SharedStep
    <3>. QED
      BY <1>1, <3>1, Answered DEF FileOp, Outcome
  <2>. QED
    BY <2>1, <2>2
<1>4. CASE ACCESS_FN(p)
  <2>1. SharedStep /\ pc = "idle"
    BY <1>4 DEF ACCESS_FN, SharedStep, vfs_find
  <2>2. PICK out \in {"ok", "ENOENT", "host"} :
            Returns("access", p, out, 0) /\ (out = "ok" => ~vfs_hidden(KeyOf(p)))
    BY <1>4 DEF ACCESS_FN, Found
  <2>. QED
    BY <1>1, <2>1, <2>2, Answered DEF FileOp, Outcome
<1>5. ASSUME NEW op \in {"fopen_r", "fopen_w"}, FOPEN_FN(op, p)
      PROVE  Inv'
  <2>1. op \in FileOp /\ pc = "idle" /\ vfs_off /\ UNCHANGED <<zip, off_env>>
    BY <1>5 DEF FOPEN_FN, FileOp
  <2>2. \/ RealOpen(op, p)
        \/ UNCHANGED <<reader, fds>> /\ Returns(op, p, "EROFS", 0)
        \/ OpenVirtual(op, p)
    BY <1>5 DEF FOPEN_FN
  <2>3. CASE UNCHANGED <<reader, fds>> /\ Returns(op, p, "EROFS", 0)
    BY <1>1, <2>1, <2>3, Answered DEF SharedStep, Outcome
  <2>. QED
    BY <1>1, <2>1, <2>2, <2>3, RealOpened, VirtualOpened
<1>. QED
  BY <1>2, <1>3, <1>4, <1>5

-----------------------------------------------------------------------------
(* The pipeline. *)

LEMMA Running ==
    ASSUME Inv, pc # "idle"
    PROVE  /\ ret = NoAnswer /\ idx \in Matches(zip, KeyOf(call.path), FALSE)
           /\ ~vfs_hidden(KeyOf(call.path))
           /\ zip \in Archive /\ idx \in 1 .. Len(zip.cdir)
           /\ entry_data(zip, idx) \in Seq(Byte)
           /\ entry_size(zip, idx) = Len(entry_data(zip, idx))
           /\ call \in [op : FileOp, path : Path]
           /\ fds \in [Fd -> File] /\ held \subseteq Fd /\ fd \in 0 .. FdLimit
           /\ buf.data \in Seq(Byte)
<1>1. /\ ret = NoAnswer /\ idx \in Matches(zip, KeyOf(call.path), FALSE)
      /\ ~vfs_hidden(KeyOf(call.path))
  BY DEF Inv, PipelineInv
<1>2. zip \in Archive
  BY ArchiveTyped DEF Inv, TypeOK
<1>3. idx \in 1 .. Len(zip.cdir)
  BY <1>1, <1>2, LocateMatches
<1>. QED
  BY <1>1, <1>2, <1>3, EntryTyped DEF Inv, TypeOK, CoreTypeOK

(* An answer other than a descriptor ends the call. *)
LEMMA Failed ==
    ASSUME Inv, pc # "idle", NEW out \in {"EIO", "EFAIL"}, Finish(out, 0),
           CoreTypeOK', UNCHANGED <<zip, off_env, g_disabled, reader, held>>,
           buf' = NoBlock, OpenFds' = held \cup ({g_self} \ {0})
    PROVE  Inv'
<1>1. /\ pc' = "idle" /\ call' = NoCall /\ idx' = 0 /\ fd' = 0 /\ buf' = NoBlock /\ held' = held
      /\ g_self' = g_self /\ g_state' = g_state /\ zip' = zip
      /\ ret' = Answer(call.op, call.path, out, 0)
  BY DEF Finish, reader
<1>2. /\ call \in [op : FileOp, path : Path] /\ zip \in Archive /\ held \subseteq Fd
      /\ g_self \notin held
  BY Running DEF Inv, NoLeak
<1>3. /\ ret' \in [op : FileOp \cup {"none"}, path : Path, out : Outcome, val : Nat]
      /\ ret'.out \in {"EIO", "EFAIL"}
  BY <1>1, <1>2 DEF Answer, Outcome
<1>4. TypeOK'
  <2>1. call' \in [op : FileOp, path : Path] /\ buf' \in [live : BOOLEAN, data : Seq(Byte)]
    BY <1>1 DEF NoCall, NoPath, NoBlock, FileOp, Path
  <2>2. idx' \in 0 .. Len(zip'.cdir) /\ fd' \in 0 .. FdLimit
    BY <1>1, <1>2, CoreAssumption DEF Archive
  <2>. QED
    BY <1>1, <1>2, <1>3, <2>1, <2>2 DEF TypeOK
<1>5. NoLeak'
  BY <1>1, <1>2, FdsAreNat DEF NoLeak, NoBlock
<1>6. PipelineInv'
  <2>1. pc' \notin {"fd_for", "anon_fd", "write_all", "mz_free", "fdopen"}
    BY <1>1
  <2>2. g_state # 1 => g_self = 0
    BY DEF Inv, PipelineInv
  <2>. QED
    BY <1>1, <2>1, <2>2 DEF PipelineInv
<1>7. AnswersRight'
  BY <1>3 DEF AnswersRight, ServesPristine, HiddenStaysHidden
<1>. QED
  BY <1>4, <1>5, <1>6, <1>7 DEF Inv

(* The descriptor of a filled file is handed over. *)
LEMMA HandedOver ==
    ASSUME Inv, pc \in {"mz_free", "fdopen"}, fd # 0,
           Finish("fd", fd), held' = held \cup {fd}, UNCHANGED core, buf' = NoBlock
    PROVE  Inv'
<1>1. /\ pc' = "idle" /\ call' = NoCall /\ idx' = 0 /\ fd' = 0 /\ buf' = NoBlock
      /\ held' = held \cup {fd}
      /\ g_self' = g_self /\ g_state' = g_state /\ zip' = zip /\ fds' = fds
      /\ ret' = Answer(call.op, call.path, "fd", fd)
  BY DEF Finish, core
<1>2. /\ call \in [op : FileOp, path : Path] /\ zip \in Archive /\ held \subseteq Fd
      /\ fd \in 0 .. FdLimit /\ fd \in Fd /\ idx \in Matches(zip, KeyOf(call.path), FALSE)
  <2>1. pc # "idle"
    OBVIOUS
  <2>2. /\ call \in [op : FileOp, path : Path] /\ zip \in Archive /\ held \subseteq Fd
        /\ fd \in 0 .. FdLimit /\ idx \in Matches(zip, KeyOf(call.path), FALSE)
    BY <2>1, Running
  <2>3. fd \in Fd
    BY <2>2, CoreAssumption DEF Fd
  <2>. QED
    BY <2>2, <2>3
<1>3. CoreTypeOK'
  BY CoreUnchanged DEF Inv, TypeOK
<1>4. TypeOK'
  <2>1. call' \in [op : FileOp, path : Path] /\ buf' \in [live : BOOLEAN, data : Seq(Byte)]
    BY <1>1 DEF NoCall, NoPath, NoBlock, FileOp, Path
  <2>2. idx' \in 0 .. Len(zip'.cdir) /\ fd' \in 0 .. FdLimit
    BY <1>1, <1>2, CoreAssumption DEF Archive
  <2>3. ret' \in [op : FileOp \cup {"none"}, path : Path, out : Outcome, val : Nat]
    BY <1>1, <1>2, FdsAreNat DEF Answer, Outcome
  <2>4. held' \subseteq Fd
    BY <1>1, <1>2
  <2>. QED
    BY <1>1, <1>3, <2>1, <2>2, <2>3, <2>4 DEF TypeOK
<1>5. NoLeak'
  <2>1. /\ OpenFds = held \cup ({fd, g_self} \ {0}) /\ {fd, g_self} \cap held = {} /\ fd # g_self
    BY DEF Inv, NoLeak
  <2>2. OpenFds' = OpenFds
    BY <1>1 DEF OpenFds
  <2>. QED
    BY <1>1, <1>2, <2>1, <2>2, FdsAreNat DEF NoLeak, NoBlock
<1>6. PipelineInv'
  <2>1. pc' \notin {"fd_for", "anon_fd", "write_all", "mz_free", "fdopen"}
    BY <1>1
  <2>2. g_state # 1 => g_self = 0
    BY DEF Inv, PipelineInv
  <2>. QED
    BY <1>1, <2>1, <2>2 DEF PipelineInv
<1>7. AnswersRight'
  <2>1. ret'.val = fd /\ ret'.path = call.path
    BY <1>1 DEF Answer
  <2>2. fds[fd].kind = "virtual" /\ fds[fd].pos = 0 /\ fds[fd].data = entry_data(zip, idx)
    BY DEF Inv, PipelineInv
  <2>3. ~(SelfMode /\ Metadata(KeyOf(call.path)))
    BY DEF Inv, PipelineInv, vfs_hidden, Metadata
  <2>. QED
    BY <1>1, <1>2, <2>1, <2>2, <2>3 DEF AnswersRight, ServesPristine, HiddenStaysHidden
<1>. QED
  BY <1>4, <1>5, <1>6, <1>7 DEF Inv

LEMMA StepsKeep == Inv /\ Step => Inv'
<1>. SUFFICES ASSUME Inv, Step PROVE Inv'
  OBVIOUS
<1>. DEFINE Size == Len(entry_data(zip, idx))
<1>1. pc # "idle"
  BY DEF Step, fd_for, anon_fd, WriteSome, WriteFails, WriteEnds, mz_free, fdopen
<1>2. /\ ret = NoAnswer /\ idx \in Matches(zip, KeyOf(call.path), FALSE)
      /\ ~vfs_hidden(KeyOf(call.path))
      /\ zip \in Archive /\ idx \in 1 .. Len(zip.cdir)
      /\ entry_data(zip, idx) \in Seq(Byte) /\ Size \in Nat
      /\ entry_size(zip, idx) = Size
      /\ call \in [op : FileOp, path : Path]
      /\ fds \in [Fd -> File] /\ held \subseteq Fd /\ fd \in 0 .. FdLimit
      /\ buf.data \in Seq(Byte)
  <2>1. entry_data(zip, idx) \in Seq(Byte) => Size \in Nat
    OBVIOUS
  <2>. QED
    BY <1>1, <2>1, Running
<1>3. /\ OpenFds = held \cup ({fd, g_self} \ {0}) /\ {fd, g_self} \cap held = {}
      /\ fd # 0 => fd # g_self
      /\ g_state # 1 => g_self = 0
  BY DEF Inv, NoLeak, PipelineInv
<1>4. fd # 0 => fd \in OpenFds /\ fd \in Fd
  BY <1>2, <1>3 DEF Fd
<1>5. CoreTypeOK /\ g_self \in 0 .. FdLimit
  BY DEF Inv, TypeOK, CoreTypeOK
<1>6. CASE fd_for
  <2>1. pc = "fd_for" /\ fd = 0 /\ buf = NoBlock
    BY <1>6 DEF fd_for, Inv, PipelineInv
  <2>2. UNCHANGED core /\ CoreTypeOK' /\ OpenFds' = OpenFds
    BY <1>5, <1>6, CoreUnchanged DEF fd_for, core, OpenFds
  <2>3. CASE /\ pc' = "anon_fd" /\ UNCHANGED <<call, idx, fd, ret, held>>
             /\ buf'.data = entry_data(zip, idx)
             /\ buf' \in [live : BOOLEAN, data : Seq(Byte)]
    <3>1. TypeOK'
      BY <1>2, <2>2, <2>3 DEF TypeOK, Inv, core
    <3>2. NoLeak'
      BY <1>3, <2>1, <2>2, <2>3 DEF NoLeak, core
    <3>3. PipelineInv'
      BY <1>2, <1>3, <2>1, <2>2, <2>3 DEF PipelineInv, core
    <3>4. AnswersRight'
      BY <1>2, <2>3 DEF AnswersRight, ServesPristine, HiddenStaysHidden, NoAnswer
    <3>. QED
      BY <3>1, <3>2, <3>3, <3>4 DEF Inv
  <2>4. CASE Finish("EIO", 0) /\ UNCHANGED <<buf, held>>
    <3>1. OpenFds' = held \cup ({g_self} \ {0})
      BY <1>3, <2>1, <2>2
    <3>. QED
      BY <1>1, <2>1, <2>2, <2>4, <3>1, Failed DEF core, reader
  <2>5. CASE Size = 0 /\ pc' = "anon_fd" /\ UNCHANGED <<call, idx, buf, fd, ret, held>>
    <3>1. buf'.data = entry_data(zip, idx) /\ buf' \in [live : BOOLEAN, data : Seq(Byte)]
      <4>1. entry_data(zip, idx) = << >>
        BY <1>2, <2>5
      <4>. QED
        BY <2>1, <2>5, <4>1 DEF NoBlock
    <3>. QED
      BY <2>3, <2>5, <3>1
  <2>6. CASE buf' = Block(entry_data(zip, idx)) /\ pc' = "anon_fd" /\ UNCHANGED <<call, idx, fd, ret, held>>
    <3>1. buf'.data = entry_data(zip, idx) /\ buf' \in [live : BOOLEAN, data : Seq(Byte)]
      BY <1>2, <2>6 DEF Block
    <3>. QED
      BY <2>3, <2>6, <3>1
  <2>. QED
    BY <1>2, <1>6, <2>4, <2>5, <2>6, ExtractedData DEF fd_for
<1>7. CASE anon_fd
  <2>1. pc = "anon_fd" /\ fd = 0 /\ buf.data = entry_data(zip, idx)
    BY <1>7 DEF anon_fd, Inv, PipelineInv
  <2>2. /\ UNCHANGED <<zip, off_env, g_disabled, g_state, g_dict, g_self>>
        /\ UNCHANGED <<call, idx, buf, held, ret>>
    BY <1>7 DEF anon_fd, reader
  <2>3. CASE pc' = "mz_free" /\ UNCHANGED <<fd, fds>>
    <3>1. OpenFds' = OpenFds
      BY <2>3 DEF OpenFds
    <3>2. TypeOK'
      BY <1>2, <2>2, <2>3 DEF TypeOK, CoreTypeOK, Inv
    <3>3. NoLeak'
      BY <1>3, <2>1, <2>2, <2>3, <3>1 DEF NoLeak
    <3>4. PipelineInv'
      BY <1>2, <1>3, <2>1, <2>2, <2>3 DEF PipelineInv
    <3>5. AnswersRight'
      BY <1>2, <2>2 DEF AnswersRight, ServesPristine, HiddenStaysHidden, NoAnswer
    <3>. QED
      BY <3>2, <3>3, <3>4, <3>5 DEF Inv
  <2>4. CASE /\ FreeFds # {} /\ fd' = LowestFd /\ pc' = "write_all"
             /\ fds' = [fds EXCEPT ![LowestFd] = NewFile("virtual")]
    <3>1. /\ fd' \in Fd /\ fd' \notin OpenFds /\ fds' \in [Fd -> File]
          /\ OpenFds' = OpenFds \cup {fd'} /\ fds'[fd'] = NewFile("virtual")
      BY <1>2, <2>4, Taken
    <3>2. fd' # 0 /\ fd' \in 0 .. FdLimit /\ fd' # g_self
      BY <1>3, <3>1, FdsAreNat
    <3>3. TypeOK'
      BY <1>2, <2>2, <2>4, <3>1, <3>2 DEF TypeOK, CoreTypeOK, Inv
    <3>4. NoLeak'
      BY <1>3, <2>1, <2>2, <2>4, <3>1, <3>2 DEF NoLeak
    <3>5. PipelineInv'
      <4>1. /\ fds'[fd'].kind = "virtual" /\ Written' = 0
            /\ fds'[fd'].data = SubSeq(buf.data, 1, 0) /\ Len(buf.data) \in Nat
        BY <1>2, <3>1 DEF NewFile, Written
      <4>2. /\ pc' \notin {"idle", "fd_for", "anon_fd", "mz_free", "fdopen"}
            /\ pc' = "write_all" /\ 0 <= Len(buf.data)
        BY <2>4, <4>1
      <4>. QED
        BY <1>2, <1>3, <2>1, <2>2, <3>2, <4>1, <4>2 DEF PipelineInv
    <3>6. AnswersRight'
      BY <1>2, <2>2 DEF AnswersRight, ServesPristine, HiddenStaysHidden, NoAnswer
    <3>. QED
      BY <3>3, <3>4, <3>5, <3>6 DEF Inv
  <2>. QED
    BY <1>7, <2>3, <2>4 DEF anon_fd
<1>8. CASE WriteSome
  <2>1. /\ pc = "write_all" /\ fd # 0 /\ buf.data = entry_data(zip, idx)
        /\ Written < Len(buf.data) /\ fds[fd].data = SubSeq(buf.data, 1, Written)
        /\ fds[fd].kind = "virtual"
    BY <1>8 DEF WriteSome, Inv, PipelineInv
  <2>2. /\ UNCHANGED <<zip, off_env, g_disabled, g_state, g_dict, g_self>>
        /\ UNCHANGED <<pc, call, idx, buf, fd, held, ret>>
    BY <1>8 DEF WriteSome, reader, file
  <2>3. PICK w \in 1 .. Len(buf.data) - Written :
            fds' = [fds EXCEPT ![fd] = Grown(@, SubSeq(buf.data, Written + 1, Written + w))]
    BY <1>8 DEF WriteSome
  <2>. DEFINE part == SubSeq(buf.data, Written + 1, Written + w)
  <2>. DEFINE next == Grown(fds[fd], part)
  <2>4. Written \in Nat /\ Len(buf.data) \in Nat /\ w \in Nat /\ Written + w <= Len(buf.data)
    <3>1. Written \in Nat
      BY <1>2, <1>4, <2>1 DEF File, Written
    <3>. QED
      BY <1>2, <2>3, <3>1
  <2>5. SubSeq(buf.data, 1, Written) \o part = SubSeq(buf.data, 1, Written + w)
    <3>1. /\ 1 \in 1 .. Len(buf.data) + 1 /\ Written \in 1 - 1 .. Len(buf.data)
          /\ Written + w \in Written .. Len(buf.data)
      BY <2>1, <2>4
    <3>2. buf.data \in Seq(Byte)
      BY <1>2
    <3>. QED
      BY <3>1, <3>2, ConcatAdjacentSubSeq
  <2>6. part \in Seq(Byte) /\ Len(SubSeq(buf.data, 1, Written + w)) = Written + w
    BY <1>2, <2>4
  <2>7. next \in File /\ next.kind = "virtual" /\ next.data = SubSeq(buf.data, 1, Written + w)
    <3>. HIDE DEF part
    <3>. QED
      BY <1>2, <1>4, <2>1, <2>5, <2>6, GrownTyped
  <2>8. fds' = [fds EXCEPT ![fd] = next]
    BY <1>2, <1>4, <2>1, <2>3
  <2>. HIDE DEF next, part
  <2>9. fds' \in [Fd -> File] /\ fds'[fd] = next /\ OpenFds' = OpenFds
    BY <1>2, <1>4, <2>1, <2>7, <2>8, Changed
  <2>10. TypeOK'
    BY <2>2, <2>9 DEF TypeOK, CoreTypeOK, Inv
  <2>11. NoLeak'
    BY <1>3, <2>1, <2>2, <2>9 DEF NoLeak
  <2>12. PipelineInv'
    <3>1. Written' = Written + w
      BY <2>2, <2>6, <2>7, <2>9 DEF Written
    <3>2. fds'[fd'].data = SubSeq(buf'.data, 1, Written') /\ fds'[fd'].kind = "virtual"
          /\ Written' <= Len(buf'.data)
      BY <2>2, <2>4, <2>7, <2>9, <3>1
    <3>3. pc' \notin {"idle", "fd_for", "anon_fd", "mz_free", "fdopen"}
      BY <2>1, <2>2
    <3>. QED
      BY <1>2, <1>3, <2>1, <2>2, <3>2, <3>3 DEF PipelineInv
  <2>13. AnswersRight'
    BY <1>2, <2>2 DEF AnswersRight, ServesPristine, HiddenStaysHidden, NoAnswer
  <2>. QED
    BY <2>10, <2>11, <2>12, <2>13 DEF Inv
<1>9. CASE WriteFails
  <2>1. pc = "write_all" /\ fd # 0
    BY <1>9 DEF WriteFails, Inv, PipelineInv
  <2>2. /\ UNCHANGED <<zip, off_env, g_disabled, g_state, g_dict, g_self>>
        /\ UNCHANGED <<call, idx, buf, held, ret>>
        /\ fds' = [fds EXCEPT ![fd] = Closed] /\ fd' = 0 /\ pc' = "mz_free"
    BY <1>9 DEF WriteFails, reader
  <2>3. fds' \in [Fd -> File] /\ OpenFds' = OpenFds \ {fd}
    <3>1. Closed \in File /\ Closed.kind = "closed"
      BY NewFileTyped DEF Closed
    <3>. HIDE DEF Closed
    <3>. QED
      BY <1>2, <1>4, <2>1, <2>2, <3>1, Changed
  <2>4. TypeOK'
    <3>1. 0 \in 0 .. FdLimit
      BY CoreAssumption
    <3>. QED
      BY <2>2, <2>3, <3>1 DEF TypeOK, CoreTypeOK, Inv
  <2>5. NoLeak'
    BY <1>2, <1>3, <2>1, <2>2, <2>3, FdsAreNat DEF NoLeak
  <2>6. PipelineInv'
    <3>1. pc' \notin {"idle", "fd_for", "anon_fd", "write_all", "fdopen"}
      BY <2>2
    <3>. QED
      BY <1>2, <1>3, <2>2, <3>1 DEF PipelineInv
  <2>7. AnswersRight'
    BY <1>2, <2>2 DEF AnswersRight, ServesPristine, HiddenStaysHidden, NoAnswer
  <2>. QED
    BY <2>4, <2>5, <2>6, <2>7 DEF Inv
<1>10. CASE WriteEnds
  <2>1. /\ pc = "write_all" /\ fd # 0 /\ buf.data = entry_data(zip, idx)
        /\ Written >= Len(buf.data) /\ fds[fd].data = SubSeq(buf.data, 1, Written)
        /\ Written <= Len(buf.data) /\ fds[fd].kind = "virtual"
    BY <1>10 DEF WriteEnds, Inv, PipelineInv
  <2>2. /\ UNCHANGED <<zip, off_env, g_disabled, g_state, g_dict, g_self>>
        /\ UNCHANGED <<call, idx, buf, fd, held, ret>>
        /\ fds' = [fds EXCEPT ![fd].pos = 0] /\ pc' = "mz_free"
    BY <1>10 DEF WriteEnds, reader
  <2>. DEFINE next == [fds[fd] EXCEPT !.pos = 0]
  <2>3. next \in File /\ next.kind = "virtual" /\ next.data = fds[fd].data /\ next.pos = 0
    BY <1>2, <1>4, <2>1 DEF File
  <2>4. fds[fd].data = entry_data(zip, idx)
    <3>1. Written \in Nat
      BY <1>2, <1>4, <2>1 DEF File, Written
    <3>2. Written = Len(buf.data)
      BY <1>2, <2>1, <3>1
    <3>. QED
      BY <1>2, <2>1, <3>2
  <2>5. fds' = [fds EXCEPT ![fd] = next]
    BY <2>2
  <2>. HIDE DEF next
  <2>6. fds' \in [Fd -> File] /\ fds'[fd] = next /\ OpenFds' = OpenFds
    BY <1>2, <1>4, <2>1, <2>3, <2>5, Changed
  <2>7. TypeOK'
    BY <2>2, <2>6 DEF TypeOK, CoreTypeOK, Inv
  <2>8. NoLeak'
    BY <1>3, <2>1, <2>2, <2>6 DEF NoLeak
  <2>9. PipelineInv'
    <3>1. pc' \notin {"idle", "fd_for", "anon_fd", "write_all", "fdopen"}
      BY <2>2
    <3>2. fds'[fd'].data = entry_data(zip', idx') /\ fds'[fd'].pos = 0 /\ fds'[fd'].kind = "virtual"
      BY <2>2, <2>3, <2>4, <2>6
    <3>. QED
      BY <1>2, <1>3, <2>2, <3>1, <3>2 DEF PipelineInv
  <2>10. AnswersRight'
    BY <1>2, <2>2 DEF AnswersRight, ServesPristine, HiddenStaysHidden, NoAnswer
  <2>. QED
    BY <2>7, <2>8, <2>9, <2>10 DEF Inv
<1>11. CASE mz_free
  <2>1. pc = "mz_free" /\ buf' = NoBlock /\ UNCHANGED core /\ CoreTypeOK' /\ OpenFds' = OpenFds
    BY <1>5, <1>11, CoreUnchanged DEF mz_free, core, OpenFds
  <2>2. CASE fd = 0
    <3>1. Finish("EFAIL", 0) /\ UNCHANGED held
      BY <1>11, <2>2 DEF mz_free
    <3>2. OpenFds' = held \cup ({g_self} \ {0})
      BY <1>3, <2>1, <2>2
    <3>. QED
      BY <1>1, <2>1, <3>1, <3>2, Failed DEF core, reader
  <2>3. CASE fd # 0 /\ call.op = "open"
    <3>1. Finish("fd", fd) /\ held' = held \cup {fd}
      BY <1>11, <2>3 DEF mz_free
    <3>. QED
      BY <2>1, <2>3, <3>1, HandedOver
  <2>4. CASE fd # 0 /\ call.op # "open"
    <3>1. pc' = "fdopen" /\ UNCHANGED <<call, idx, fd, held, ret>>
      BY <1>11, <2>4 DEF mz_free
    <3>2. TypeOK'
      BY <2>1, <3>1 DEF TypeOK, Inv, NoBlock, core
    <3>3. NoLeak'
      BY <1>3, <2>1, <2>4, <3>1 DEF NoLeak, core
    <3>4. PipelineInv'
      <4>1. pc' \notin {"idle", "fd_for", "anon_fd", "write_all", "mz_free"}
        BY <3>1
      <4>2. /\ fds[fd].kind = "virtual" /\ fds[fd].data = entry_data(zip, idx)
            /\ fds[fd].pos = 0
        BY <2>1, <2>4 DEF Inv, PipelineInv
      <4>. QED
        BY <1>2, <1>3, <2>1, <2>4, <3>1, <4>1, <4>2 DEF PipelineInv, core
    <3>5. AnswersRight'
      BY <1>2, <3>1 DEF AnswersRight, ServesPristine, HiddenStaysHidden, NoAnswer
    <3>. QED
      BY <3>2, <3>3, <3>4, <3>5 DEF Inv
  <2>. QED
    BY <2>2, <2>3, <2>4
<1>12. CASE fdopen
  <2>1. /\ pc = "fdopen" /\ fd # 0 /\ buf' = NoBlock
        /\ UNCHANGED <<zip, off_env, g_disabled, reader>>
    BY <1>12 DEF fdopen, Inv, PipelineInv
  <2>2. CASE Finish("fd", fd) /\ held' = held \cup {fd} /\ UNCHANGED fds
    <3>. QED
      BY <2>1, <2>2, HandedOver DEF core, reader
  <2>3. CASE Finish("EFAIL", 0) /\ fds' = [fds EXCEPT ![fd] = Closed] /\ UNCHANGED held
    <3>1. fds' \in [Fd -> File] /\ OpenFds' = OpenFds \ {fd}
      <4>1. Closed \in File /\ Closed.kind = "closed"
        BY NewFileTyped DEF Closed
      <4>. HIDE DEF Closed
      <4>. QED
        BY <1>2, <1>4, <2>1, <2>3, <4>1, Changed
    <3>2. CoreTypeOK'
      BY <1>5, <2>1, <3>1 DEF CoreTypeOK, reader
    <3>3. OpenFds' = held \cup ({g_self} \ {0})
      BY <1>3, <2>1, <3>1
    <3>. QED
      BY <1>1, <2>1, <2>3, <3>2, <3>3, Failed
  <2>. QED
    BY <1>12, <2>2, <2>3 DEF fdopen
<1>. QED
  BY <1>6, <1>7, <1>8, <1>9, <1>10, <1>11, <1>12 DEF Step

-----------------------------------------------------------------------------
(* Between calls, and the theorems. *)

LEMMA ProgramKeeps == Inv /\ Program => Inv'
<1>. SUFFICES ASSUME Inv, Program PROVE Inv'
  OBVIOUS
<1>1. pc = "idle"
  BY DEF Program, Close, Use, SetEnv
<1>2. /\ OpenFds = held \cup ({g_self} \ {0}) /\ g_self \notin held /\ fd = 0 /\ buf = NoBlock
      /\ g_state # 1 => g_self = 0
  BY <1>1 DEF Inv, NoLeak, PipelineInv
<1>3. fds \in [Fd -> File] /\ held \subseteq Fd /\ held \subseteq OpenFds
  BY <1>2 DEF Inv, TypeOK, CoreTypeOK
<1>4. ASSUME ret' = NoAnswer, UNCHANGED <<zip, g_disabled, g_state, g_dict, g_self>>,
             off_env' \in BOOLEAN, UNCHANGED <<pc, call, idx, buf, fd>>,
             fds' \in [Fd -> File], held' \subseteq held,
             OpenFds' = held' \cup ({g_self} \ {0})
      PROVE  Inv'
  <2>1. TypeOK'
    <3>1. ret' \in [op : FileOp \cup {"none"}, path : Path, out : Outcome, val : Nat]
      BY <1>4 DEF NoAnswer, NoPath, Outcome, Path
    <3>2. held' \subseteq Fd
      BY <1>3, <1>4
    <3>. QED
      BY <1>4, <3>1, <3>2 DEF TypeOK, CoreTypeOK, Inv
  <2>2. NoLeak'
    BY <1>2, <1>3, <1>4, FdsAreNat DEF NoLeak, NoBlock
  <2>3. PipelineInv'
    <3>1. pc' \notin {"fd_for", "anon_fd", "write_all", "mz_free", "fdopen"}
      BY <1>1, <1>4
    <3>. QED
      BY <1>1, <1>2, <1>4, <3>1 DEF PipelineInv
  <2>4. AnswersRight'
    BY <1>4 DEF AnswersRight, ServesPristine, HiddenStaysHidden, NoAnswer
  <2>. QED
    BY <2>1, <2>2, <2>3, <2>4 DEF Inv
<1>5. ASSUME NEW f \in held, Close(f)
      PROVE  Inv'
  <2>1. fds' = [fds EXCEPT ![f] = Closed] /\ held' = held \ {f} /\ f \in OpenFds
    BY <1>3, <1>5 DEF Close
  <2>2. Closed \in File /\ Closed.kind = "closed"
    BY NewFileTyped DEF Closed
  <2>. HIDE DEF Closed
  <2>3. fds' \in [Fd -> File] /\ OpenFds' = OpenFds \ {f}
    BY <1>3, <2>1, <2>2, Changed
  <2>4. OpenFds' = held' \cup ({g_self} \ {0})
    BY <1>2, <2>1, <2>3
  <2>. QED
    BY <1>4, <1>5, <2>1, <2>3, <2>4 DEF Close, reader, Inv, TypeOK, CoreTypeOK
<1>6. ASSUME NEW f \in held, NEW byte \in Byte, Use(f, byte)
      PROVE  Inv'
  <2>. DEFINE next == Overwritten(fds[f], byte)
  <2>1. f \in OpenFds /\ f \in Fd /\ fds[f] \in File /\ fds[f].kind # "closed"
    BY <1>3 DEF OpenFds
  <2>2. next \in File /\ next.kind = fds[f].kind
    <3>1. fds[f].data \in Seq(Byte) /\ fds[f].pos \in Nat /\ fds[f].pos + 1 \in 1 .. Len(fds[f].data)
      BY <1>6, <2>1 DEF File, Use
    <3>. DEFINE data == [fds[f].data EXCEPT ![fds[f].pos + 1] = byte]
    <3>2. data \in Seq(Byte)
      BY <3>1, ExceptSeq
    <3>3. next = [fds[f] EXCEPT !.data = data, !.pos = fds[f].pos + 1] /\ fds[f].pos + 1 \in Nat
      BY <3>1 DEF Overwritten
    <3>. HIDE DEF data, next
    <3>. QED
      BY <2>1, <3>1, <3>2, <3>3, Rewritten
  <2>3. fds' = [fds EXCEPT ![f] = next] /\ held' = held
    BY <1>6 DEF Use
  <2>. HIDE DEF next
  <2>4. fds' \in [Fd -> File] /\ OpenFds' = OpenFds
    BY <1>3, <2>1, <2>2, <2>3, Changed
  <2>. QED
    BY <1>2, <1>4, <1>6, <2>3, <2>4 DEF Use, reader, Inv, TypeOK, CoreTypeOK
<1>7. CASE SetEnv
  <2>1. OpenFds' = OpenFds
    BY <1>7 DEF SetEnv, OpenFds
  <2>. QED
    BY <1>2, <1>3, <1>4, <1>7, <2>1 DEF SetEnv, reader, Inv, TypeOK, CoreTypeOK
<1>. QED
  BY <1>5, <1>6, <1>7 DEF Program

LEMMA InitInv == Init => Inv
<1>. SUFFICES ASSUME Init PROVE Inv
  OBVIOUS
<1>1. CoreTypeOK /\ zip \in Archive /\ Len(zip.cdir) \in Nat
  BY CoreInitTyped, ArchiveTyped DEF Init
<1>2. /\ pc = "idle" /\ call = NoCall /\ idx = 0 /\ buf = NoBlock /\ fd = 0 /\ held = {}
      /\ ret = NoAnswer /\ g_self = 0
  BY DEF Init, CoreInit
<1>3. TypeOK
  <2>1. call \in [op : FileOp, path : Path] /\ buf \in [live : BOOLEAN, data : Seq(Byte)]
    BY <1>2 DEF NoCall, NoPath, NoBlock, FileOp, Path
  <2>2. ret \in [op : FileOp \cup {"none"}, path : Path, out : Outcome, val : Nat]
    BY <1>2 DEF NoAnswer, NoPath, Outcome, Path
  <2>3. idx \in 0 .. Len(zip.cdir) /\ fd \in 0 .. FdLimit
    BY <1>1, <1>2, CoreAssumption
  <2>. QED
    BY <1>1, <1>2, <2>1, <2>2, <2>3 DEF TypeOK
<1>4. NoLeak
  <2>1. OpenFds = {}
    BY DEF Init, CoreInit, OpenFds, Closed
  <2>. QED
    BY <1>2, <2>1 DEF NoLeak, NoBlock
<1>5. PipelineInv
  <2>1. pc \notin {"fd_for", "anon_fd", "write_all", "mz_free", "fdopen"}
    BY <1>2
  <2>. QED
    BY <1>2, <2>1 DEF PipelineInv
<1>6. AnswersRight
  BY <1>2 DEF AnswersRight, ServesPristine, HiddenStaysHidden, NoAnswer
<1>. QED
  BY <1>3, <1>4, <1>5, <1>6 DEF Inv

LEMMA StutterKeeps == Inv /\ UNCHANGED vars => Inv'
<1>. SUFFICES ASSUME Inv, UNCHANGED vars PROVE Inv'
  OBVIOUS
<1>1. UNCHANGED <<zip, off_env, g_disabled, g_state, g_dict, g_self, fds>>
  BY DEF vars, core
<1>2. UNCHANGED <<pc, call, idx, buf, fd, held, ret>>
  BY DEF vars, file
<1>3. TypeOK'
  BY <1>1, <1>2 DEF Inv, TypeOK, CoreTypeOK
<1>4. NoLeak'
  BY <1>1, <1>2 DEF Inv, NoLeak, OpenFds
<1>5. PipelineInv'
  BY <1>1, <1>2 DEF Inv, PipelineInv, Written
<1>6. AnswersRight'
  BY <1>1, <1>2 DEF Inv, AnswersRight, ServesPristine, HiddenStaysHidden
<1>. QED
  BY <1>3, <1>4, <1>5, <1>6 DEF Inv

LEMMA AlwaysInv == Spec => []Inv
<1>1. Inv /\ [Next]_vars => Inv'
  BY CallsKeep, StepsKeep, ProgramKeeps, StutterKeeps DEF Next, Call
<1>. QED
  BY <1>1, InitInv, PTL DEF Spec

(* In every reachable state each variable has its type. *)
THEOREM TypeCorrect == Spec => []TypeOK
<1>1. Inv => TypeOK
  BY DEF Inv
<1>. QED
  BY <1>1, AlwaysInv, PTL

(* Whatever fails on the way, no call loses a descriptor or a heap block,   *)
(* and none gives away the reader's own descriptor.                         *)
THEOREM NothingLeaks == Spec => []NoLeak
<1>1. Inv => NoLeak
  BY DEF Inv
<1>. QED
  BY <1>1, AlwaysInv, PTL

(* Half-way through a call, its step, its heap block and its descriptor     *)
(* agree with what it was asked for.                                        *)
THEOREM PipelineHolds == Spec => []PipelineInv
<1>1. Inv => PipelineInv
  BY DEF Inv
<1>. QED
  BY <1>1, AlwaysInv, PTL

(* A descriptor that open or fopen returns holds a whole entry of the       *)
(* requested name, at offset 0, and is the caller's alone.                  *)
THEOREM OpensPristine == Spec => []ServesPristine
<1>1. Inv => ServesPristine
  BY DEF Inv, AnswersRight
<1>. QED
  BY <1>1, AlwaysInv, PTL

(* No spelling of a path and no call reaches the metadata of the container. *)
THEOREM MetadataIsHidden == Spec => []HiddenStaysHidden
<1>1. Inv => HiddenStaysHidden
  BY DEF Inv, AnswersRight
<1>. QED
  BY <1>1, AlwaysInv, PTL
-----------------------------------------------------------------------------
(* The pipeline implements the mount of module Mount.  The words of that    *)
(* module mean there what they mean here.                                   *)

FilesOf(key) == IF vfs_hidden(key) THEN {} ELSE {entry_data(zip, i) : i \in Matches(zip, key, FALSE)}
DirAt(key) == ~vfs_hidden(key) /\ (Matches(zip, key, TRUE) # {} \/ is_implicit_dir(zip, key))

LEMMA SameHidden == ASSUME NEW key PROVE Promise!vfs_hidden(key) = vfs_hidden(key)
  BY DEF Promise!vfs_hidden, vfs_hidden

LEMMA SameMatches ==
    ASSUME NEW z, NEW key, NEW slash
    PROVE  Promise!Matches(z, key, slash) = Matches(z, key, slash)
  BY DEF Promise!Matches, Matches, Promise!FoldKey, FoldKey

LEMMA SameImplicit ==
    ASSUME NEW z, NEW key
    PROVE  Promise!is_implicit_dir(z, key) = is_implicit_dir(z, key)
  BY Zenon DEF Promise!is_implicit_dir, is_implicit_dir, Promise!Under, Under,
               Promise!IsPrefix, IsPrefix

LEMMA SameData == ASSUME NEW z, NEW i PROVE Promise!entry_data(z, i) = entry_data(z, i)
  BY DEF Promise!entry_data, entry_data

LEMMA SameKey == ASSUME NEW s PROVE Promise!path_canon(s) = path_canon(s)
  BY Zenon DEF Promise!path_canon, path_canon, Promise!Join, Join,
               Promise!CanonStep, CanonStep, Promise!JoinStops, JoinStops,
               Promise!KeyLen, KeyLen, Promise!TextLen, TextLen, Promise!Front, Front,
               Promise!FoldLeft, FoldLeft, Promise!MapThenFoldSet, MapThenFoldSet,
               Promise!Max, Max

LEMMA SameMine ==
    ASSUME NEW p
    PROVE  /\ Promise!OwnedByMount(p) <=> OwnedByMount(p)
           /\ Promise!FitsKeybuf(p) <=> FitsKeybuf(p)
<1>1. Promise!OwnedByMount(p) = OwnedByMount(p)
  BY DEF Promise!OwnedByMount, OwnedByMount
<1>2. Promise!FitsKeybuf(p) = FitsKeybuf(p)
  BY Zenon DEF Promise!FitsKeybuf, FitsKeybuf, Promise!KeyLen, KeyLen,
               Promise!TextLen, TextLen, Promise!FoldLeft, FoldLeft,
               Promise!MapThenFoldSet, MapThenFoldSet, Promise!Max, Max
<1>. QED
  BY <1>1, <1>2

LEMMA SameTree ==
    ASSUME NEW key
    PROVE  Promise!Files(key) = FilesOf(key) /\ Promise!IsDir(key) = DirAt(key)
  BY SameHidden, SameMatches, SameImplicit, SameData DEF Promise!Files, Promise!IsDir, FilesOf, DirAt

(* The answers a mounted path gets while the archive is in a state. *)
Rightly(op, key, out, size, data, state) ==
    \/ out = "fd" /\ op \in {"open", "fopen_r"} /\ state = "up" /\ data \in FilesOf(key)
    \/ out = "ok" /\ op = "access" /\ state = "up" /\ FilesOf(key) # {}
    \/ out = "file" /\ op = "stat" /\ state = "up" /\ \E d \in FilesOf(key) : size = Len(d)
    \/ out = "dir" /\ op = "stat" /\ state = "up" /\ DirAt(key) /\ FilesOf(key) = {}
    \/ /\ out = "ENOENT" /\ op = "stat"
       /\ vfs_hidden(key) \/ (state = "up" /\ FilesOf(key) = {} /\ ~DirAt(key))
    \/ out = "ENOENT" /\ op # "stat" /\ (state = "down" \/ FilesOf(key) = {})
    \/ out = "EIO" /\ op = "stat" /\ state = "down"
    \/ out = "EIO" /\ op # "stat" /\ state = "up" /\ FilesOf(key) # {}
    \/ out = "EFAIL" /\ op \in {"open", "fopen_r"} /\ state = "up" /\ FilesOf(key) # {}
    \/ out = "EROFS" /\ op = "fopen_w"

LEMMA RightlyIsLegal ==
    ASSUME NEW a, NEW state
    PROVE  Rightly(a.op, KeyOf(a.path), a.out, a.size, a.data, state) <=> Promise!Legal(a, state)
<1>. DEFINE key == KeyOf(a.path)
<1>1. /\ Promise!path_canon(a.path.segs) = key
      /\ Promise!Files(key) = FilesOf(key) /\ Promise!IsDir(key) = DirAt(key)
      /\ Promise!vfs_hidden(key) = vfs_hidden(key)
  BY SameKey, SameTree, SameHidden DEF KeyOf
<1>. HIDE DEF key
<1>2. Rightly(a.op, key, a.out, a.size, a.data, state) <=> Promise!Legal(a, state)
  BY <1>1 DEF Rightly, Promise!Legal
<1>. QED
  BY <1>2 DEF key

-----------------------------------------------------------------------------
(* A step of the pipeline is a step of the mount, or stutters there.        *)

Served(p) == OwnedByMount(p) /\ FitsKeybuf(p)

(* A running call came through the mount, and the archive was up.           *)
Serving ==
    pc # "idle" => /\ g_disabled = 0 /\ g_state = 1
                   /\ call.op \in {"open", "fopen_r"} /\ Served(call.path)

(* Whose answer it is and whether the archive is up is settled once.        *)
LEMMA SettlesOnce ==
    ASSUME CoreTypeOK, CoreTypeOK', vfs_off \/ UNCHANGED g_disabled,
           g_state = 0 \/ UNCHANGED g_state
    PROVE  /\ Promise!Settles(Route, Route', {"mount", "libc"})
           /\ Promise!Settles(Health, Health', {"up", "down"})
<1>1. /\ g_disabled \in {-1, 0, 1} /\ g_disabled' \in {-1, 0, 1}
      /\ g_state \in {0, 1, 2} /\ g_state' \in {0, 1, 2}
  BY DEF CoreTypeOK
<1>2. Promise!Settles(Route, Route', {"mount", "libc"})
  BY <1>1 DEF vfs_off, Route, Promise!Settles
<1>3. Promise!Settles(Health, Health', {"up", "down"})
  BY <1>1 DEF Health, Promise!Settles
<1>. QED
  BY <1>2, <1>3

LEMMA AnswerSeen ==
    ASSUME NEW op, NEW p, NEW out, NEW val, ret' = Answer(op, p, out, val)
    PROVE  /\ LastAnswer'.op = op /\ LastAnswer'.path = p /\ LastAnswer'.out = out
           /\ out = "file" => LastAnswer'.size = val
           /\ out = "fd" => LastAnswer'.data = fds'[val].data
<1>1. ret'.op = op /\ ret'.path = p /\ ret'.out = out /\ ret'.val = val
  BY DEF Answer
<1>. QED
  BY <1>1 DEF LastAnswer

(* The mount answers. *)
LEMMA MountAnswers ==
    ASSUME NEW op, NEW p, NEW out, NEW val, ret' = Answer(op, p, out, val),
           g_disabled' = 0, Served(p),
           Rightly(op, KeyOf(p), out, LastAnswer'.size, LastAnswer'.data, Health')
    PROVE  Promise!Answers
<1>. DEFINE a == LastAnswer'
<1>1. a.op = op /\ a.path = p /\ a.out = out
  BY AnswerSeen
<1>2. Route' = "mount"
  BY DEF Route
<1>3. Promise!OwnedByMount(p) /\ Promise!FitsKeybuf(p)
  BY SameMine DEF Served
<1>. HIDE DEF a
<1>4. Rightly(a.op, KeyOf(a.path), a.out, a.size, a.data, Health')
  BY <1>1 DEF a
<1>5. Promise!Legal(a, Health')
  BY <1>4, RightlyIsLegal
<1>. QED
  BY <1>1, <1>2, <1>3, <1>5 DEF a, Promise!Answers

(* libc answers. *)
LEMMA HostAnswers ==
    ASSUME NEW op, NEW p, NEW val, ret' = Answer(op, p, "host", val),
           g_disabled' \in {0, 1}, ~Routed(p)
    PROVE  Promise!Answers
<1>1. LastAnswer'.path = p /\ LastAnswer'.out = "host"
  BY AnswerSeen
<1>2. Promise!OwnedByMount(p) /\ Promise!FitsKeybuf(p) => OwnedByMount(p) /\ FitsKeybuf(p)
  BY SameMine
<1>3. g_disabled' = 1 => Route' = "libc"
  BY DEF Route
<1>. QED
  BY <1>1, <1>2, <1>3 DEF Promise!Answers, Routed

LEMMA Silent == ret' = NoAnswer => Promise!Answers
  BY DEF NoAnswer, LastAnswer, Promise!Answers

(* What find_entry and vfs_find say about a key. *)
LEMMA LookedUp ==
    ASSUME zip \in Archive, NEW key
    PROVE  /\ Matches(zip, key, FALSE) = {} <=> Locate(zip, key, FALSE) = 0
           /\ Matches(zip, key, TRUE) = {} <=> Locate(zip, key, TRUE) = 0
           /\ LET i == find_entry(zip, key)
              IN  /\ i = 0 => Matches(zip, key, FALSE) = {} /\ Matches(zip, key, TRUE) = {}
                  /\ i # 0 /\ ~zip.cdir[i].dir => i \in Matches(zip, key, FALSE)
                  /\ i # 0 /\ zip.cdir[i].dir =>
                        Matches(zip, key, FALSE) = {} /\ Matches(zip, key, TRUE) # {}
<1>1. ASSUME NEW slash \in BOOLEAN
      PROVE  /\ Matches(zip, key, slash) = {} <=> Locate(zip, key, slash) = 0
             /\ Locate(zip, key, slash) # 0 => Locate(zip, key, slash) \in Matches(zip, key, slash)
             /\ \A i \in Matches(zip, key, slash) : zip.cdir[i].dir = slash
  <2>1. CASE Matches(zip, key, slash) = {}
    BY <2>1 DEF Locate
  <2>2. CASE Matches(zip, key, slash) # {}
    <3>1. Locate(zip, key, slash) \in Matches(zip, key, slash)
      BY <2>2 DEF Locate
    <3>2. Len(zip.cdir) \in Nat /\ Matches(zip, key, slash) \subseteq 1 .. Len(zip.cdir)
      BY LocateMatches DEF Archive
    <3>. QED
      BY <2>2, <3>1, <3>2 DEF Matches
  <2>. QED
    BY <2>1, <2>2
<1>. DEFINE L == Locate(zip, key, FALSE)
<1>. DEFINE M == Locate(zip, key, TRUE)
<1>2. find_entry(zip, key) = IF L # 0 THEN L ELSE M
  BY DEF find_entry
<1>. HIDE DEF L, M
<1>3. /\ Matches(zip, key, FALSE) = {} <=> L = 0
      /\ L # 0 => L \in Matches(zip, key, FALSE) /\ zip.cdir[L].dir = FALSE
  BY <1>1 DEF L
<1>4. /\ Matches(zip, key, TRUE) = {} <=> M = 0
      /\ M # 0 => M \in Matches(zip, key, TRUE) /\ zip.cdir[M].dir = TRUE
  BY <1>1 DEF M
<1>. QED
  BY <1>2, <1>3, <1>4 DEF L, M

LEMMA Sought ==
    ASSUME CoreTypeOK, zip \in Archive, NEW key, vfs_find(key)
    PROVE  /\ ~vfs_hidden(key) => Health' \in {"up", "down"}
           /\ Found(key) = 0 => Health' = "down" \/ FilesOf(key) = {}
           /\ Found(key) # 0 => Health' = "up" /\ FilesOf(key) # {}
<1>1. ~vfs_hidden(key) => g_state' \in {1, 2}
  BY ReaderTyped DEF vfs_find
<1>2. (g_state' = 1 => Health' = "up") /\ (g_state' = 2 => Health' = "down")
  BY DEF Health
<1>. QED
  BY <1>1, <1>2, LookedUp DEF Found, FilesOf

(* open and fopen on the mount: a miss, or a call that will be served.      *)
LEMMA OpenImplements ==
    ASSUME Inv, pc = "idle", NEW op \in {"open", "fopen_r"}, NEW p, Routed(p),
           OpenVirtual(op, p), g_state' \in {0, 1, 2}
    PROVE  Promise!Answers /\ Serving'
<1>. DEFINE key == KeyOf(p)
<1>1. zip \in Archive
  BY ArchiveTyped DEF Inv, TypeOK
<1>2. CASE Found(key) = 0
  <2>1. ret' = Answer(op, p, "ENOENT", 0) /\ pc' = pc
    BY <1>2 DEF OpenVirtual, Returns
  <2>2. Health' = "down" \/ FilesOf(key) = {}
    BY <1>1, <1>2, Sought DEF OpenVirtual, Inv, TypeOK
  <2>3. Rightly(op, key, "ENOENT", LastAnswer'.size, LastAnswer'.data, Health')
    BY <2>2 DEF Rightly
  <2>4. Promise!Answers
    BY <2>1, <2>3, MountAnswers DEF Routed, Served
  <2>. QED
    BY <2>1, <2>4 DEF Serving
<1>3. CASE Found(key) # 0
  <2>1. ret' = NoAnswer /\ call' = [op |-> op, path |-> p]
    BY <1>3 DEF OpenVirtual
  <2>2. g_state' = 1 /\ g_disabled' = 0 /\ Served(p)
    BY <1>3 DEF Found, Routed, Served
  <2>. QED
    BY <2>1, <2>2, Silent DEF Serving
<1>. QED
  BY <1>2, <1>3

(* stat looks a name up with and without the slash, and among the implicit  *)
(* directories; what it says of it is what lies there.                      *)
LEMMA StatImplements ==
    ASSUME Inv, pc = "idle", NEW p, Routed(p), StatVirtual(p)
    PROVE  Promise!Answers /\ Serving'
<1>. DEFINE key == KeyOf(p)
<1>. DEFINE i == find_entry(zip, key)
<1>. DEFINE up == g_state' = 1
<1>1. zip \in Archive
  BY ArchiveTyped DEF Inv, TypeOK
<1>2. /\ i = 0 => Matches(zip, key, FALSE) = {} /\ Matches(zip, key, TRUE) = {}
      /\ i # 0 /\ ~zip.cdir[i].dir => i \in Matches(zip, key, FALSE)
      /\ i # 0 /\ zip.cdir[i].dir =>
            Matches(zip, key, FALSE) = {} /\ Matches(zip, key, TRUE) # {}
  BY <1>1, LookedUp
<1>3. PICK out, val :
          /\ out \in {"ENOENT", "EIO", "dir", "file"}
          /\ Returns("stat", p, out, val)
          /\ \/ out = "ENOENT" /\ vfs_hidden(key)
             \/ out = "EIO" /\ ~vfs_hidden(key) /\ ~up
             \/ /\ ~vfs_hidden(key) /\ up
                /\ \/ out = "dir" /\ i # 0 /\ zip.cdir[i].dir
                   \/ out = "file" /\ i # 0 /\ ~zip.cdir[i].dir /\ val = entry_size(zip, i)
                   \/ out = "dir" /\ i = 0 /\ is_implicit_dir(zip, key)
                   \/ out = "ENOENT" /\ i = 0 /\ ~is_implicit_dir(zip, key)
  <2>1. CASE vfs_hidden(key)
    BY <2>1 DEF StatVirtual
  <2>2. CASE ~vfs_hidden(key) /\ ~up
    BY <2>2 DEF StatVirtual
  <2>3. CASE ~vfs_hidden(key) /\ up /\ i # 0
    <3>1. IF zip.cdir[i].dir THEN Returns("stat", p, "dir", 0)
                             ELSE Returns("stat", p, "file", entry_size(zip, i))
      BY <2>3 DEF StatVirtual
    <3>. HIDE DEF i, up
    <3>. QED
      BY <2>3, <3>1
  <2>4. CASE ~vfs_hidden(key) /\ up /\ i = 0
    BY <2>4 DEF StatVirtual
  <2>. QED
    BY <2>1, <2>2, <2>3, <2>4
<1>4. ret' = Answer("stat", p, out, val) /\ pc' = pc
  BY <1>3 DEF Returns
<1>5. out = "file" => LastAnswer'.size = val
  BY <1>4, AnswerSeen
<1>. HIDE DEF i
<1>6. (up => Health' = "up") /\ (~vfs_hidden(key) /\ ~up => Health' = "down")
  <2>1. ~vfs_hidden(key) => Health' \in {"up", "down"}
    BY <1>1, Sought DEF StatVirtual, Inv, TypeOK
  <2>. QED
    BY <2>1 DEF Health
<1>. HIDE DEF up
<1>7. Rightly("stat", key, out, LastAnswer'.size, LastAnswer'.data, Health')
  <2>1. CASE out = "ENOENT" /\ vfs_hidden(key)
    BY <2>1 DEF Rightly
  <2>2. CASE out = "EIO" /\ ~vfs_hidden(key) /\ ~up
    BY <1>6, <2>2 DEF Rightly
  <2>3. CASE out = "dir" /\ ~vfs_hidden(key) /\ up
    BY <1>2, <1>3, <1>6, <2>3 DEF Rightly, DirAt, FilesOf
  <2>4. CASE out = "file" /\ ~vfs_hidden(key) /\ up /\ i # 0 /\ ~zip.cdir[i].dir /\ val = entry_size(zip, i)
    <3>1. entry_data(zip, i) \in FilesOf(key)
      BY <1>2, <2>4 DEF FilesOf
    <3>2. LastAnswer'.size = Len(entry_data(zip, i))
      <4>1. i \in 1 .. Len(zip.cdir)
        BY <1>1, <1>2, <2>4, LocateMatches
      <4>2. entry_size(zip, i) = Len(entry_data(zip, i))
        BY <1>1, <4>1, EntryTyped
      <4>. QED
        BY <1>5, <2>4, <4>2
    <3>. QED
      BY <1>6, <2>4, <3>1, <3>2 DEF Rightly
  <2>5. CASE out = "ENOENT" /\ ~vfs_hidden(key) /\ up /\ i = 0 /\ ~is_implicit_dir(zip, key)
    BY <1>2, <1>6, <2>5 DEF Rightly, DirAt, FilesOf
  <2>. QED
    BY <1>3, <2>1, <2>2, <2>3, <2>4, <2>5
<1>8. g_disabled' = 0 /\ Served(p)
  BY DEF Routed, Served
<1>9. Promise!Answers
  BY <1>4, <1>7, <1>8, MountAnswers
<1>. QED
  BY <1>4, <1>9 DEF Serving

LEMMA CallImplements ==
    ASSUME Inv, Inv', NEW p,
           \/ OPEN_FN(p) \/ STAT_FN(p) \/ ACCESS_FN(p)
           \/ \E op \in {"fopen_r", "fopen_w"} : FOPEN_FN(op, p)
    PROVE  Promise!Next /\ Serving'
<1>1. /\ pc = "idle" /\ vfs_off /\ zip' = zip /\ CoreTypeOK /\ CoreTypeOK'
      /\ g_disabled' \in {0, 1} /\ g_state' \in {0, 1, 2} /\ zip \in Archive
  <2>1. pc = "idle" /\ vfs_off /\ zip' = zip
    BY DEF OPEN_FN, STAT_FN, ACCESS_FN, FOPEN_FN
  <2>2. CoreTypeOK /\ CoreTypeOK'
    BY DEF Inv, TypeOK
  <2>. QED
    BY <2>1, <2>2, OffTyped, ArchiveTyped DEF CoreTypeOK
<1>2. CASE ~Routed(p)
  <2>1. PICK op, val : ret' = Answer(op, p, "host", val) /\ pc' = pc /\ UNCHANGED reader
    <3>1. ASSUME NEW op, RealOpen(op, p)
          PROVE  \E val : ret' = Answer(op, p, "host", val) /\ pc' = pc /\ UNCHANGED reader
      BY <3>1 DEF RealOpen, Returns
    <3>2. CASE OPEN_FN(p)
      BY <1>2, <3>1, <3>2 DEF OPEN_FN
    <3>3. CASE STAT_FN(p)
      BY <1>2, <3>3 DEF STAT_FN, Returns
    <3>4. CASE ACCESS_FN(p)
      BY <1>2, <3>4 DEF ACCESS_FN, Returns
    <3>5. CASE \E op \in {"fopen_r", "fopen_w"} : FOPEN_FN(op, p)
      BY <1>2, <3>1, <3>5 DEF FOPEN_FN
    <3>. QED
      BY <3>2, <3>3, <3>4, <3>5
  <2>2. Promise!Answers
    BY <1>1, <1>2, <2>1, HostAnswers
  <2>3. UNCHANGED g_state
    BY <2>1 DEF reader
  <2>. QED
    BY <1>1, <2>1, <2>2, <2>3, SettlesOnce DEF Serving, Promise!Next
<1>3. CASE Routed(p)
  <2>1. g_disabled' = 0 /\ Served(p)
    BY <1>3 DEF Routed, Served
  <2>2. Promise!Answers /\ Serving'
    <3>1. CASE OPEN_FN(p)
      <4>1. OpenVirtual("open", p)
        BY <1>3, <3>1 DEF OPEN_FN
      <4>. QED
        BY <1>1, <1>3, <4>1, OpenImplements
    <3>2. CASE STAT_FN(p)
      <4>1. StatVirtual(p)
        BY <1>3, <3>2 DEF STAT_FN
      <4>. QED
        BY <1>1, <1>3, <4>1, StatImplements
    <3>3. CASE ACCESS_FN(p)
      <4>. DEFINE key == KeyOf(p)
      <4>1. Returns("access", p, IF Found(key) # 0 THEN "ok" ELSE "ENOENT", 0)
        BY <1>3, <3>3 DEF ACCESS_FN
      <4>2. pc' = pc
        BY <4>1 DEF Returns
      <4>3. CASE Found(key) = 0
        <5>1. ret' = Answer("access", p, "ENOENT", 0)
          BY <4>1, <4>3 DEF Returns
        <5>2. Health' = "down" \/ FilesOf(key) = {}
          BY <1>1, <1>3, <3>3, <4>3, Sought DEF ACCESS_FN
        <5>3. Rightly("access", key, "ENOENT", LastAnswer'.size, LastAnswer'.data, Health')
          BY <5>2 DEF Rightly
        <5>. QED
          BY <1>1, <2>1, <4>2, <5>1, <5>3, MountAnswers DEF Serving
      <4>4. CASE Found(key) # 0
        <5>1. ret' = Answer("access", p, "ok", 0)
          BY <4>1, <4>4 DEF Returns
        <5>2. Health' = "up" /\ FilesOf(key) # {}
          BY <1>1, <1>3, <3>3, <4>4, Sought DEF ACCESS_FN
        <5>3. Rightly("access", key, "ok", LastAnswer'.size, LastAnswer'.data, Health')
          BY <5>2 DEF Rightly
        <5>. QED
          BY <1>1, <2>1, <4>2, <5>1, <5>3, MountAnswers DEF Serving
      <4>. QED
        BY <4>3, <4>4
    <3>4. ASSUME NEW op \in {"fopen_r", "fopen_w"}, FOPEN_FN(op, p)
          PROVE  Promise!Answers /\ Serving'
      <4>1. CASE op = "fopen_w"
        <5>1. ret' = Answer(op, p, "EROFS", 0) /\ pc' = pc
          BY <1>3, <3>4, <4>1 DEF FOPEN_FN, Returns
        <5>2. Rightly(op, KeyOf(p), "EROFS", LastAnswer'.size, LastAnswer'.data, Health')
          BY <4>1 DEF Rightly
        <5>. QED
          BY <1>1, <2>1, <5>1, <5>2, MountAnswers DEF Serving
      <4>2. CASE op # "fopen_w"
        <5>1. OpenVirtual(op, p)
          BY <1>3, <3>4, <4>2 DEF FOPEN_FN
        <5>. QED
          BY <1>1, <1>3, <4>2, <5>1, OpenImplements
      <4>. QED
        BY <4>1, <4>2
    <3>. QED
      BY <3>1, <3>2, <3>3, <3>4
  <2>3. g_state = 0 \/ UNCHANGED g_state
    <3>1. unpin_vfs_init \/ UNCHANGED reader
      BY <1>3 DEF OPEN_FN, STAT_FN, ACCESS_FN, FOPEN_FN, OpenVirtual, StatVirtual, vfs_find
    <3>. QED
      BY <3>1 DEF unpin_vfs_init, reader
  <2>. QED
    BY <1>1, <2>2, <2>3, SettlesOnce DEF Promise!Next
<1>. QED
  BY <1>2, <1>3

(* A call on its way has answered nothing; when it ends, its answer is one  *)
(* of the record it was to serve.                                           *)
LEMMA StepImplements ==
    ASSUME Inv, Inv', Serving, Step
    PROVE  Promise!Next /\ Serving'
<1>1. pc # "idle"
  BY DEF Step, fd_for, anon_fd, WriteSome, WriteFails, WriteEnds, mz_free, fdopen
<1>2. UNCHANGED <<zip, g_disabled, g_state>>
  BY DEF Step, fd_for, anon_fd, WriteSome, WriteFails, WriteEnds, mz_free, fdopen, core, reader
<1>3. /\ ret = NoAnswer /\ entry_data(zip, idx) \in FilesOf(KeyOf(call.path))
      /\ g_disabled = 0 /\ g_state = 1 /\ call.op \in {"open", "fopen_r"} /\ Served(call.path)
  BY <1>1, Running DEF Serving, FilesOf
<1>4. Health' = "up"
  BY <1>2, <1>3 DEF Health
<1>5. \/ UNCHANGED <<call, ret>>
      \/ \E out \in {"EIO", "EFAIL"} : Finish(out, 0)
      \/ Finish("fd", fd)
  BY DEF Step, fd_for, anon_fd, WriteSome, WriteFails, WriteEnds, mz_free, fdopen, file
<1>6. Promise!Answers /\ Serving'
  <2>1. CASE UNCHANGED <<call, ret>>
    BY <1>2, <1>3, <2>1, Silent DEF Serving
  <2>2. ASSUME NEW out \in {"EIO", "EFAIL"}, Finish(out, 0)
        PROVE  Promise!Answers /\ Serving'
    <3>1. ret' = Answer(call.op, call.path, out, 0) /\ pc' = "idle"
      BY <2>2 DEF Finish
    <3>2. Rightly(call.op, KeyOf(call.path), out, LastAnswer'.size, LastAnswer'.data, Health')
      BY <1>3, <1>4 DEF Rightly
    <3>. QED
      BY <1>2, <1>3, <3>1, <3>2, MountAnswers DEF Serving
  <2>3. CASE Finish("fd", fd)
    <3>1. ret' = Answer(call.op, call.path, "fd", fd) /\ pc' = "idle"
      BY <2>3 DEF Finish
    <3>2. LastAnswer'.data \in FilesOf(KeyOf(call.path))
      <4>1. /\ ret'.out = "fd" /\ ret'.path = call.path /\ ret'.val = fd
            /\ LastAnswer'.data = fds'[fd].data
        BY <3>1, AnswerSeen DEF Answer
      <4>2. \E i \in Matches(zip', KeyOf(call.path), FALSE) : fds'[fd].data = entry_data(zip', i)
        BY <4>1 DEF Inv, AnswersRight, ServesPristine
      <4>3. ~vfs_hidden(KeyOf(call.path))
        BY <1>1, Running
      <4>. QED
        BY <1>2, <4>1, <4>2, <4>3 DEF FilesOf
    <3>3. Rightly(call.op, KeyOf(call.path), "fd", LastAnswer'.size, LastAnswer'.data, Health')
      BY <1>3, <1>4, <3>2 DEF Rightly
    <3>. QED
      BY <1>2, <1>3, <3>1, <3>3, MountAnswers DEF Serving
  <2>. QED
    BY <1>5, <2>1, <2>2, <2>3
<1>. QED
  BY <1>2, <1>6, SettlesOnce DEF Inv, TypeOK, Promise!Next

(* Between calls the program says nothing to the mount.                     *)
LEMMA ProgramImplements ==
    ASSUME Inv, Inv', Program
    PROVE  Promise!Next /\ Serving'
<1>1. /\ pc' = "idle" /\ ret' = NoAnswer /\ UNCHANGED <<zip, g_disabled, g_state>>
  BY DEF Program, Close, Use, SetEnv, reader
<1>. QED
  BY <1>1, Silent, SettlesOnce DEF Inv, TypeOK, Serving, Promise!Next

LEMMA StartsLikeMount == Init => Promise!Init /\ Serving
<1>. SUFFICES ASSUME Init PROVE Promise!Init /\ Serving
  OBVIOUS
<1>1. ret = NoAnswer /\ pc = "idle" /\ zip \in Archives /\ g_disabled = -1 /\ g_state = 0
  BY DEF Init, CoreInit
<1>. QED
  BY <1>1 DEF Promise!Init, Serving, Route, Health, LastAnswer, NoAnswer

(* The mount of src/vfs.c is the mount of module Mount: whoever answers for *)
(* the reserved prefix is settled once, whether the archive can be read is  *)
(* settled once, and every answer of every call is one the archive          *)
(* justifies, through any failures and short writes on the way.             *)
THEOREM MountIsImplemented == Spec => ImplementsMount
<1>1. Init => Promise!Init /\ Serving
  BY StartsLikeMount
<1>2. Inv /\ Inv' /\ Serving /\ [Next]_vars => [Promise!Next]_Promise!vars /\ Serving'
  <2>. SUFFICES ASSUME Inv, Inv', Serving, [Next]_vars
                PROVE  [Promise!Next]_Promise!vars /\ Serving'
    OBVIOUS
  <2>1. CASE Next
    BY <2>1, CallImplements, StepImplements, ProgramImplements DEF Next, Call
  <2>2. CASE UNCHANGED vars
    BY <2>2 DEF vars, core, file, Serving, Served, Promise!vars, Route, Health, LastAnswer
  <2>. QED
    BY <2>1, <2>2
<1>3. Spec => Promise!Init /\ [][Promise!Next]_Promise!vars
  BY <1>1, <1>2, AlwaysInv, PTL DEF Spec
<1>. QED
  BY <1>3 DEF ImplementsMount, Promise!Spec

-----------------------------------------------------------------------------
(* Verdicts: what was answered once says who answers, whether the archive   *)
(* is up and whether the key names a file, and none of these changes.       *)

Given ==
    \/ ret.out = "none"
    \/ ret.out = "host" /\ (Route = "libc" \/ ~Served(ret.path))
    \/ /\ Served(ret.path) /\ Route = "mount"
       /\ Rightly(ret.op, KeyOf(ret.path), ret.out, LastAnswer.size, LastAnswer.data, Health)

LEMMA AnswersGiven ==
    ASSUME Promise!Answers, zip' = zip
    PROVE  Given'
<1>. DEFINE a == LastAnswer'
<1>1. a.op = ret'.op /\ a.path = ret'.path /\ a.out = ret'.out
  BY DEF LastAnswer
<1>2. CASE a.out = "none"
  BY <1>1, <1>2 DEF Given
<1>3. CASE a.out = "host" /\ (Route' = "libc" \/ ~(OwnedByMount(a.path) /\ FitsKeybuf(a.path)))
  BY <1>1, <1>3 DEF Given, Served
<1>4. CASE /\ OwnedByMount(a.path) /\ FitsKeybuf(a.path) /\ Route' = "mount"
           /\ Promise!Legal(a, Health')
  <2>. HIDE DEF a
  <2>1. Rightly(a.op, KeyOf(a.path), a.out, a.size, a.data, Health')
    BY <1>4, RightlyIsLegal
  <2>2. Rightly(ret.op, KeyOf(ret.path), ret.out, LastAnswer.size, LastAnswer.data, Health)'
    BY <1>1, <2>1 DEF a, Rightly, FilesOf, DirAt
  <2>. QED
    BY <1>1, <1>4, <2>2 DEF Given, Served
<1>5. \/ a.out = "none"
      \/ a.out = "host" /\ (Route' = "libc" \/ ~(OwnedByMount(a.path) /\ FitsKeybuf(a.path)))
      \/ /\ OwnedByMount(a.path) /\ FitsKeybuf(a.path) /\ Route' = "mount"
         /\ Promise!Legal(a, Health')
  <2>. HIDE DEF a
  <2>1. /\ Promise!OwnedByMount(a.path) <=> OwnedByMount(a.path)
        /\ Promise!FitsKeybuf(a.path) <=> FitsKeybuf(a.path)
    BY SameMine
  <2>. QED
    BY <2>1 DEF Promise!Answers, a
<1>. QED
  BY <1>2, <1>3, <1>4, <1>5

(* What the verdicts on a path rest on. *)
FoundThere(p) == Health = "up" /\ FilesOf(KeyOf(p)) # {}
NothingThere(p) == Health = "down" \/ FilesOf(KeyOf(p)) = {}
DirThere(p) == Health = "up" /\ FilesOf(KeyOf(p)) = {}

LEMMA VerdictsRest ==
    ASSUME Given, NEW p, Served(p)
    PROVE  /\ Says(p, AnyOp, {"host"}) => Route = "libc"
           /\ Route = "libc" => ~Says(p, AnyOp, Mounted)
           /\ Says(p, AnyOp, Mounted) => Route = "mount"
           /\ Route = "mount" => ~Says(p, AnyOp, {"host"})
           /\ Says(p, AnyOp, {"file", "fd", "ok"}) => FoundThere(p)
           /\ FoundThere(p) => ~Says(p, AnyOp, {"ENOENT", "dir"})
           /\ Says(p, {"open", "fopen_r", "access"}, {"ENOENT"}) => NothingThere(p)
           /\ NothingThere(p) => ~Says(p, AnyOp, {"file", "fd", "ok"})
           /\ Says(p, {"stat"}, {"dir"}) => DirThere(p)
           /\ DirThere(p) => ~Says(p, AnyOp, {"file", "fd", "ok", "EIO"})
<1>. DEFINE Right(out) ==
        ret.out = out /\ Rightly(ret.op, KeyOf(p), out, LastAnswer.size, LastAnswer.data, Health)
<1>1. ASSUME ret.path = p, ret.out # "none"
      PROVE  \/ ret.out = "host" /\ Route = "libc"
             \/ Route = "mount" /\ Right(ret.out) /\ ret.out # "host"
  BY <1>1 DEF Given, Rightly
<1>2. ASSUME NEW ops, NEW outs, Says(p, ops, outs)
      PROVE  ret.path = p /\ ret.op \in ops /\ ret.out \in outs
  BY <1>2 DEF Says
<1>3. /\ Says(p, AnyOp, {"host"}) => Route = "libc"
      /\ Route = "libc" => ~Says(p, AnyOp, Mounted)
      /\ Says(p, AnyOp, Mounted) => Route = "mount"
      /\ Route = "mount" => ~Says(p, AnyOp, {"host"})
  BY <1>1, <1>2 DEF Mounted
<1>4. Says(p, AnyOp, {"file", "fd", "ok"}) => FoundThere(p)
  BY <1>1, <1>2 DEF Rightly, FoundThere
<1>5. FoundThere(p) => ~Says(p, AnyOp, {"ENOENT", "dir"})
  <2>1. vfs_hidden(KeyOf(p)) => FilesOf(KeyOf(p)) = {}
    BY DEF FilesOf
  <2>. QED
    BY <1>1, <1>2, <2>1 DEF Rightly, FoundThere
<1>6. Says(p, {"open", "fopen_r", "access"}, {"ENOENT"}) => NothingThere(p)
  BY <1>1, <1>2 DEF Rightly, NothingThere
<1>7. NothingThere(p) => ~Says(p, AnyOp, {"file", "fd", "ok"})
  BY <1>1, <1>2 DEF Rightly, NothingThere
<1>8. Says(p, {"stat"}, {"dir"}) => DirThere(p)
  BY <1>1, <1>2 DEF Rightly, DirThere
<1>9. DirThere(p) => ~Says(p, AnyOp, {"file", "fd", "ok", "EIO"})
  BY <1>1, <1>2 DEF Rightly, DirThere
<1>. QED
  BY <1>3, <1>4, <1>5, <1>6, <1>7, <1>8, <1>9

(* Nothing that a verdict rests on changes. *)
LEMMA RestsLast ==
    ASSUME [Promise!Next]_Promise!vars, NEW p
    PROVE  /\ Route = "libc" => Route' = "libc"
           /\ Route = "mount" => Route' = "mount"
           /\ FoundThere(p) => FoundThere(p)'
           /\ NothingThere(p) => NothingThere(p)'
           /\ DirThere(p) => DirThere(p)'
<1>1. /\ Route # "unsettled" => Route' = Route
      /\ Health # "unsettled" => Health' = Health
      /\ zip' = zip
  BY DEF Promise!Next, Promise!vars, Promise!Settles
<1>2. FilesOf(KeyOf(p))' = FilesOf(KeyOf(p))
  BY <1>1 DEF FilesOf
<1>. QED
  BY <1>1, <1>2 DEF FoundThere, NothingThere, DirThere

(* A path of the mount is answered by one side for good; what was found     *)
(* stays found, what was missing stays missing, whichever call asks, what   *)
(* fails in between and however often the environment changes.              *)
THEOREM VerdictsAreFinal == Spec => VerdictsLast
<1>1. Spec => []Given /\ [][Promise!Next]_Promise!vars
  <2>1. Init => Given
    BY DEF Init, NoAnswer, Given
  <2>2. Given /\ [Promise!Next]_Promise!vars => Given'
    <3>. SUFFICES ASSUME Given, [Promise!Next]_Promise!vars PROVE Given'
      OBVIOUS
    <3>1. CASE Promise!Next
      BY <3>1, AnswersGiven DEF Promise!Next
    <3>2. CASE UNCHANGED Promise!vars
      <4>1. zip' = zip /\ Route' = Route /\ Health' = Health /\ LastAnswer' = LastAnswer
        BY <3>2 DEF Promise!vars
      <4>2. ret'.out = ret.out /\ ret'.op = ret.op /\ ret'.path = ret.path
        BY <4>1 DEF LastAnswer
      <4>. QED
        BY <4>1, <4>2 DEF Given, Rightly, FilesOf, DirAt, Served
    <3>. QED
      BY <3>1, <3>2
  <2>3. Spec => [][Promise!Next]_Promise!vars
    BY MountIsImplemented, PTL DEF ImplementsMount, Promise!Spec
  <2>. QED
    BY <2>1, <2>2, <2>3, PTL DEF Spec
<1>2. ASSUME NEW p \in {q \in Paths : OwnedByMount(q) /\ FitsKeybuf(q)}
      PROVE  Spec =>
        /\ [](Says(p, AnyOp, {"host"}) => []~Says(p, AnyOp, Mounted))
        /\ [](Says(p, AnyOp, Mounted) => []~Says(p, AnyOp, {"host"}))
        /\ [](Says(p, AnyOp, {"file", "fd", "ok"}) => []~Says(p, AnyOp, {"ENOENT", "dir"}))
        /\ [](Says(p, {"open", "fopen_r", "access"}, {"ENOENT"}) => []~Says(p, AnyOp, {"file", "fd", "ok"}))
        /\ [](Says(p, {"stat"}, {"dir"}) => []~Says(p, AnyOp, {"file", "fd", "ok", "EIO"}))
  <2>1. Served(p)
    BY DEF Served
  <2>2. Given => /\ Says(p, AnyOp, {"host"}) => Route = "libc"
                 /\ Route = "libc" => ~Says(p, AnyOp, Mounted)
                 /\ Says(p, AnyOp, Mounted) => Route = "mount"
                 /\ Route = "mount" => ~Says(p, AnyOp, {"host"})
                 /\ Says(p, AnyOp, {"file", "fd", "ok"}) => FoundThere(p)
                 /\ FoundThere(p) => ~Says(p, AnyOp, {"ENOENT", "dir"})
                 /\ Says(p, {"open", "fopen_r", "access"}, {"ENOENT"}) => NothingThere(p)
                 /\ NothingThere(p) => ~Says(p, AnyOp, {"file", "fd", "ok"})
                 /\ Says(p, {"stat"}, {"dir"}) => DirThere(p)
                 /\ DirThere(p) => ~Says(p, AnyOp, {"file", "fd", "ok", "EIO"})
    BY <2>1, VerdictsRest
  <2>3. [Promise!Next]_Promise!vars =>
            /\ Route = "libc" => (Route = "libc")'
            /\ Route = "mount" => (Route = "mount")'
            /\ FoundThere(p) => FoundThere(p)'
            /\ NothingThere(p) => NothingThere(p)'
            /\ DirThere(p) => DirThere(p)'
    BY RestsLast
  <2>. QED
    BY <1>1, <2>2, <2>3, PTL
<1>. QED
  BY <1>2 DEF VerdictsLast
=============================================================================

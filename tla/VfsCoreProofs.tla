--------------------------- MODULE VfsCoreProofs ---------------------------
(***************************************************************************)
(* Lemmas about the shared operators of module VfsCore.                     *)
(***************************************************************************)
EXTENDS VfsCore, WellFoundedInduction, TLAPS

(* open and memfd_create return a descriptor that was free. *)
LEMMA LowestIsFree == FreeFds # {} => LowestFd \in FreeFds
<1>1. FreeFds \subseteq Nat
  BY CoreAssumption DEF FreeFds, Fd
<1>2. ASSUME FreeFds # {}
      PROVE  \E fd \in FreeFds : \A other \in FreeFds : fd <= other
  <2>. DEFINE Below == {ss \in Nat \X Nat : ss[1] < ss[2]}
  <2>1. IsWellFoundedOn(Below, Nat)
    BY NatLessThanWellFounded DEF OpToRel
  <2>2. PICK fd \in FreeFds : \A other \in FreeFds : <<other, fd>> \notin Below
    <3>. HIDE DEF Below
    <3>. QED
      BY <1>1, <1>2, <2>1, WFMin
  <2>3. ASSUME NEW other \in FreeFds
        PROVE  fd <= other
    <3>1. <<other, fd>> \in Nat \X Nat /\ fd \in Nat /\ other \in Nat
      BY <1>1
    <3>2. ~(<<other, fd>>[1] < <<other, fd>>[2])
      BY <2>2, <3>1
    <3>. QED
      BY <3>1, <3>2
  <2>. QED
    BY <2>2, <2>3
<1>. QED
  BY <1>2 DEF LowestFd

LEMMA NewFileTyped == /\ NewFile("self") \in File /\ NewFile("virtual") \in File
                      /\ NewFile("host") \in File /\ Closed \in File
  BY DEF NewFile, File, Closed

LEMMA CoreInitTyped == CoreInit => CoreTypeOK
<1>. SUFFICES ASSUME CoreInit PROVE CoreTypeOK
  OBVIOUS
<1>1. fds \in [Fd -> File]
  BY NewFileTyped DEF CoreInit
<1>2. g_self \in 0 .. FdLimit
  BY CoreAssumption DEF CoreInit
<1>. QED
  BY <1>1, <1>2 DEF CoreInit, CoreTypeOK

(* The switch is known after vfs_off. *)
LEMMA OffTyped == CoreTypeOK /\ vfs_off => g_disabled' \in {0, 1}
  BY DEF CoreTypeOK, vfs_off

(* unpin_vfs_init leaves a decided reader. *)
LEMMA ReaderTyped ==
    ASSUME CoreTypeOK, unpin_vfs_init
    PROVE  /\ g_state' \in {1, 2} /\ g_dict' \in BOOLEAN
           /\ g_self' \in 0 .. FdLimit /\ fds' \in [Fd -> File]
<1>1. CASE g_state # 0
  BY <1>1 DEF CoreTypeOK, unpin_vfs_init, reader
<1>2. CASE g_state = 0 /\ InitFails
  BY <1>2 DEF CoreTypeOK, InitFails
<1>3. CASE g_state = 0 /\ InitSucceeds
  <2>1. g_state' \in {1, 2} /\ g_dict' \in BOOLEAN
    BY <1>3 DEF CoreTypeOK, InitSucceeds
  <2>2. CASE SelfMode
    <3>1. FreeFds # {} /\ g_self' = LowestFd /\ fds' = [fds EXCEPT ![LowestFd] = NewFile("self")]
      BY <1>3, <2>2 DEF InitSucceeds, self_open
    <3>2. LowestFd \in Fd
      BY <3>1, LowestIsFree DEF FreeFds
    <3>. QED
      BY <2>1, <3>1, <3>2, NewFileTyped, CoreAssumption DEF CoreTypeOK, Fd
  <2>3. CASE ~SelfMode
    BY <1>3, <2>1, <2>3 DEF CoreTypeOK, InitSucceeds
  <2>. QED
    BY <2>2, <2>3
<1>. QED
  BY <1>1, <1>2, <1>3 DEF unpin_vfs_init

(* The archive is one of Archives, of well-formed records. *)
LEMMA ArchiveTyped == CoreTypeOK => zip \in Archive /\ Len(zip.cdir) \in Nat
  BY CoreAssumption DEF CoreTypeOK, Archive

LEMMA CoreUnchanged == CoreTypeOK /\ UNCHANGED core => CoreTypeOK'
  BY DEF CoreTypeOK, core

-----------------------------------------------------------------------------
(* The descriptor table. *)

LEMMA FdsAreNat == Fd \subseteq Nat /\ 0 \notin Fd /\ Fd \subseteq 0 .. FdLimit
  BY CoreAssumption DEF Fd

(* Taking the lowest free descriptor opens it and touches no other. *)
LEMMA Taken ==
    ASSUME fds \in [Fd -> File], FreeFds # {},
           NEW kind \in {"self", "virtual", "host"},
           fds' = [fds EXCEPT ![LowestFd] = NewFile(kind)]
    PROVE  /\ LowestFd \in Fd /\ LowestFd \notin OpenFds
           /\ fds' \in [Fd -> File]
           /\ OpenFds' = OpenFds \cup {LowestFd}
           /\ fds'[LowestFd] = NewFile(kind)
           /\ \A f \in OpenFds : fds'[f] = fds[f]
<1>1. LowestFd \in Fd /\ LowestFd \notin OpenFds
  BY LowestIsFree DEF FreeFds
<1>. DEFINE l == LowestFd
<1>2. /\ l \in Fd /\ l \notin OpenFds /\ fds' = [fds EXCEPT ![l] = NewFile(kind)]
  BY <1>1
<1>3. NewFile(kind) \in File /\ NewFile(kind).kind # "closed"
  BY NewFileTyped DEF NewFile
<1>4. OpenFds \subseteq Fd
  BY DEF OpenFds
<1>. HIDE DEF l
<1>5. /\ fds' \in [Fd -> File] /\ fds'[l] = NewFile(kind)
      /\ \A f \in Fd : f # l => fds'[f] = fds[f]
  BY <1>2, <1>3
<1>6. OpenFds' = OpenFds \cup {l}
  BY <1>2, <1>3, <1>5 DEF OpenFds
<1>. QED
  BY <1>2, <1>4, <1>5, <1>6 DEF l

(* Replacing the file behind one open descriptor. *)
LEMMA Changed ==
    ASSUME fds \in [Fd -> File], NEW f \in OpenFds, NEW file_ \in File,
           fds' = [fds EXCEPT ![f] = file_]
    PROVE  /\ fds' \in [Fd -> File] /\ fds'[f] = file_
           /\ \A g \in Fd : g # f => fds'[g] = fds[g]
           /\ file_.kind = "closed" => OpenFds' = OpenFds \ {f}
           /\ file_.kind # "closed" => OpenFds' = OpenFds
<1>1. f \in Fd
  BY DEF OpenFds
<1>2. /\ fds' \in [Fd -> File] /\ fds'[f] = file_
      /\ \A g \in Fd : g # f => fds'[g] = fds[g]
  BY <1>1
<1>. QED
  BY <1>1, <1>2 DEF OpenFds

-----------------------------------------------------------------------------
(* The archive. *)

LEMMA LocateMatches ==
    ASSUME zip \in Archive, NEW key, NEW slash
    PROVE  /\ Locate(zip, key, slash) # 0 => Locate(zip, key, slash) \in Matches(zip, key, slash)
           /\ Matches(zip, key, slash) \subseteq 1 .. Len(zip.cdir)
<1>1. DOMAIN zip.cdir = 1 .. Len(zip.cdir)
  BY DEF Archive
<1>. QED
  BY <1>1 DEF Locate, Matches

LEMMA EntryTyped ==
    ASSUME zip \in Archive, NEW i \in 1 .. Len(zip.cdir)
    PROVE  /\ entry_data(zip, i) \in Seq(Byte) /\ Len(entry_data(zip, i)) \in Nat
           /\ entry_size(zip, i) = Len(entry_data(zip, i))
<1>1. zip.cdir[i] \in Entry
  BY DEF Archive
<1>2. zip.cdir[i].data \in Seq(Byte) /\ << >> \in Seq(Byte)
  BY <1>1 DEF Entry
<1>3. entry_data(zip, i) \in Seq(Byte)
  BY <1>2 DEF entry_data
<1>4. Len(<< >>) = 0
  OBVIOUS
<1>. QED
  BY <1>3, <1>4 DEF entry_size, entry_data

(* What is extracted, since it is not of size 0, is what is served. *)
LEMMA ExtractedData ==
    ASSUME zip \in Archive, NEW i \in 1 .. Len(zip.cdir), entry_size(zip, i) # 0
    PROVE  zip.cdir[i].data = entry_data(zip, i)
  BY DEF entry_size, entry_data
=============================================================================

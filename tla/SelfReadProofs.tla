--------------------------- MODULE SelfReadProofs ---------------------------
(***************************************************************************)
(* Extraction from the shared FILE, for every archive that is sound, every  *)
(* set of processes, every size of the buffers and either way to tell.      *)
(*                                                                          *)
(* Invariant has two halves.  Tidy holds whatever other processes do to     *)
(* the offset: the reads that a process makes lie in the file, its buffer   *)
(* is one for the entry, it holds the blocks that its place in the code has *)
(* allocated, and what it handed out is the entry.  Lone is about a process *)
(* that shares the offset with nobody who moved it: what its FILE believes  *)
(* is so, what it has read is what it asked for, and what an inflater made  *)
(* of that is the beginning of the entry.                                   *)
(***************************************************************************)
EXTENDS SelfRead, SequenceTheorems, TLAPS

OpenFile == [end : Nat, buf : Seq(Seen)]

Running ==
    [at : {"idle", "tell", "seek", "read", "have"}, e : Nat,
     phase : {"header", "stored", "frame", "chunk"}, ofs : Nat, want : Nat,
     got : Seq(Seen), remaining : Nat, fed : Seq(Seen), buf : Seq(Seen),
     made : Nat, heap : [Block -> Int]]

(* The reads of an extraction lie in the file, those to come included, and  *)
(* its buffer is one for the entry, which a stored entry is read to fill.   *)
InFile(s) ==
    /\ s.ofs + s.want + s.remaining <= Len(File)
    /\ Len(s.got) <= s.want
    /\ s.at # "idle" => s.e \in Entry /\ s.buf \in BufferOf(s.e)
    /\ s.phase = "header" => s.remaining = 0
    /\ s.phase = "stored" => s.want = Records[s.e].uncomp

Answers == [e : Nat, ok : BOOLEAN, data : Seq(Seen), why : {"", "none", "memory", "data"}]
Exact(r) == r.ok => r.data = Content(r.e)

(* What a process that waits for a read holds.  An idle one holds what it   *)
(* was handed, and one without a reader nothing.                            *)
HeldFor(phase) == Held({"pBuf"} \cup (IF phase = "frame" THEN {"pTmp"}
                                     ELSE IF phase = "chunk" THEN {"pRead_buf"} ELSE {}))

Freed(s, d, r) ==
    /\ s.at = "idle" => s.heap = Held(IF r.ok THEN {"pBuf"} ELSE {})
    /\ s.at # "idle" => s.heap = HeldFor(s.phase)
    /\ d = "none" => s.at = "idle" /\ r.why # "data"

Types ==
    /\ offset \in 0 .. Len(File) /\ calls \in 0 .. MaxCalls
    /\ stdio \in [Proc -> OpenFile]
    /\ desc \in [Proc -> {"none", "self", "closed", "reused"}]
    /\ x \in [Proc -> Running]
    /\ ret \in [Proc -> Answers]
    /\ apart \in [Proc -> BOOLEAN]

Tidy ==
    /\ Types
    /\ \A p \in Proc :
        /\ Len(stdio[p].buf) <= Stdio
        /\ InFile(x[p])
        /\ Exact(ret[p])
        /\ Freed(x[p], desc[p], ret[p])

(* A FILE follows the kernel: it knows the offset, and its buffer holds the *)
(* cells in front of it.                                                    *)
Follows(o, f) ==
    /\ f.end = o /\ Len(f.buf) <= o
    /\ \A i \in 1 .. Len(f.buf) : f.buf[i] = File[o - Len(f.buf) + i]

(* A read is the one for the entry: of its header, of all its data, or of   *)
(* the chunk behind those already taken, out of which the inflater has made *)
(* the beginning of the entry.                                              *)
Aimed(s) ==
    /\ s.phase = "header" =>
        s.ofs = Records[s.e].header /\ s.want = 1 /\ Len(s.fed) = 0 /\ s.made = 0
    /\ s.phase \in {"stored", "frame"} => s.ofs = DataOf(s.e) /\ s.want = Records[s.e].comp
    /\ s.phase = "stored" => Records[s.e].method = "stored"
    /\ s.phase = "chunk" =>
        /\ s.ofs = DataOf(s.e) + Len(s.fed)
        /\ Len(s.fed) + s.want + s.remaining = Records[s.e].comp
        /\ \A i \in 1 .. Len(s.fed) : s.fed[i] = Data(s.e, i)
        /\ s.made <= Records[s.e].uncomp
        /\ \A k \in 1 .. s.made : s.buf[k] = Content(s.e)[k]

OnTheSpot(o, f, s) == s.at = "read" => o - Len(f.buf) = s.ofs

Fetched(s) == s.at = "have" =>
    /\ Len(s.got) = s.want
    /\ \A i \in 1 .. s.want : s.got[i] = File[s.ofs + i]

Undisturbed(o, f, s, r) ==
    /\ Follows(o, f)
    /\ s.at # "idle" => Aimed(s)
    /\ OnTheSpot(o, f, s)
    /\ Fetched(s)
    /\ r.why # "data"

(* A child that may be forked gets the FILE of a parent, which follows. *)
Lone == \A p \in Proc :
    /\ apart[p] /\ desc[p] = "self" => Undisturbed(offset, stdio[p], x[p], ret[p])
    /\ apart[p] /\ desc[p] = "none" /\ desc[Parent] = "self" => Follows(offset, stdio[Parent])

Invariant == Tidy /\ Lone
-----------------------------------------------------------------------------
(* The archive. *)
LEMMA FileIsSeen ==
    /\ File \in Seq(Seen) /\ File \in Seq(Cell)
    /\ \A i \in 1 .. Len(File) : File[i] \in Seen
<1>1. File \in Seq(Cell) /\ DOMAIN File = 1 .. Len(File)
    BY ArchiveIsSound, LenProperties
<1>2. \A i \in 1 .. Len(File) : File[i] \in Seen
    BY <1>1 DEF Seen
<1> QED  BY <1>1, <1>2, SeqDef

LEMMA RecordTypes ==
    ASSUME NEW e \in Entry
    PROVE  /\ e \in Nat /\ Records[e].method \in Method
           /\ Records[e].header \in Nat /\ Records[e].name \in Nat /\ Records[e].comp \in Nat
           /\ Records[e].uncomp \in Nat /\ DataOf(e) \in Nat
<1> DEFINE Record == [method : Method, header : Nat, name : Nat, comp : Nat, uncomp : Nat, crc : Nat]
<1>1. Records \in Seq(Record)  BY SelfReadAssumption
<1>2. DOMAIN Records = 1 .. Len(Records) /\ Len(Records) \in Nat
    BY <1>1, LenProperties
<1>3. e \in 1 .. Len(Records)  BY <1>2 DEF Entry
<1>4. Records[e] \in Record  BY <1>1, <1>3, ElementOfSeq
<1> QED  BY <1>2, <1>3, <1>4 DEF DataOf

(* A header that was read is one of a record. *)
LEMMA SeenIsCell == \A c \in Seen : c \in Cell /\ (c.part = "header" => c.e \in Entry)
<1> SUFFICES ASSUME NEW c \in Seen PROVE c \in Cell /\ (c.part = "header" => c.e \in Entry)
    OBVIOUS
<1>1. CASE c \in {File[i] : i \in DOMAIN File}
  <2>1. PICK i \in DOMAIN File : c = File[i]  BY <1>1
  <2>2. File[i] \in Cell /\ (File[i].part = "header" => File[i].e \in Entry)
      BY ArchiveIsSound, ElementOfSeq, LenProperties
  <2> QED  BY <2>1, <2>2
<1>2. CASE c = Other  BY <1>2 DEF Other, Cell
<1>3. ASSUME NEW e \in Entry, NEW k \in 1 .. Records[e].uncomp, c = Plain(e, k)
      PROVE  c \in Cell /\ (c.part = "header" => c.e \in Entry)
  <2>1. e \in Nat /\ k \in Nat  BY RecordTypes
  <2> QED  BY <1>3, <2>1 DEF Plain, Cell
<1> QED  BY <1>1, <1>2, <1>3 DEF Seen

LEMMA SeenAreCells == \A s \in Seq(Seen) : s \in Seq(Cell)
    BY SeenIsCell, SeqDef

LEMMA OtherIsSeen == Other \in Seen
    BY DEF Seen

LEMMA DataIsSeen ==
    ASSUME NEW e \in Entry
    PROVE  \A k \in 1 .. Records[e].comp : Data(e, k) \in Seen
<1> SUFFICES ASSUME NEW k \in 1 .. Records[e].comp PROVE Data(e, k) \in Seen
    OBVIOUS
<1>1. File[DataOf(e) + k] = Data(e, k) /\ DataOf(e) + Records[e].comp <= Len(File)
    BY ArchiveIsSound
<1>2. DataOf(e) + k \in 1 .. Len(File)
    BY <1>1, RecordTypes, FileIsSeen, LenProperties
<1> QED  BY <1>1, <1>2, FileIsSeen

LEMMA StreamIsSeen ==
    ASSUME NEW e \in Entry
    PROVE  /\ Stream(e) \in Seq(Seen) /\ Len(Stream(e)) = Records[e].comp
           /\ \A k \in 1 .. Records[e].comp : Stream(e)[k] = Data(e, k)
<1>1. Records[e].comp \in Nat /\ e \in Nat  BY RecordTypes
<1>2. \A k \in 1 .. Records[e].comp : Data(e, k) \in Seen
    BY DataIsSeen
<1> DEFINE n == Records[e].comp
<1>3. Stream(e) = [k \in 1 .. n |-> Data(e, k)] /\ n \in Nat  BY <1>1 DEF Stream
<1> HIDE DEF n
<1>4. Stream(e) \in Seq(Seen)  BY <1>2, <1>3, SeqDef DEF n
<1>5. DOMAIN Stream(e) = 1 .. n  BY <1>3
<1>6. Len(Stream(e)) = n  BY <1>3, <1>4, <1>5, LenProperties
<1> QED  BY <1>3, <1>4, <1>6 DEF n

(* The buffers of an entry; the entry is one. *)
LEMMA BufferProperties ==
    ASSUME NEW e \in Entry, NEW d \in BufferOf(e)
    PROVE  /\ d \in Seq(Seen) /\ Len(d) = Records[e].uncomp
           /\ DOMAIN d = 1 .. Records[e].uncomp
           /\ \A k \in 1 .. Records[e].uncomp : d[k] \in Seen
<1>1. Records[e].uncomp \in Nat /\ d \in [1 .. Records[e].uncomp -> Seen]
    BY RecordTypes DEF BufferOf
<1>2. d \in Seq(Seen)  BY <1>1, SeqDef
<1> QED  BY <1>1, <1>2, LenProperties

LEMMA FullBuffer ==
    ASSUME NEW e \in Entry, NEW d \in Seq(Seen), Len(d) = Records[e].uncomp
    PROVE  d \in BufferOf(e)
    BY LenProperties DEF BufferOf

LEMMA ContentIsBuffer ==
    ASSUME NEW e \in Entry
    PROVE  Content(e) \in BufferOf(e)
<1>1. Records[e].method = "stored" => Records[e].uncomp = Records[e].comp  BY ArchiveIsSound
<1>2. ASSUME NEW k \in 1 .. Records[e].uncomp
      PROVE  (IF Records[e].method = "stored" THEN Data(e, k) ELSE Plain(e, k)) \in Seen
  <2>1. CASE Records[e].method = "stored"  BY <1>1, <2>1, DataIsSeen
  <2>2. CASE Records[e].method # "stored"
    <3>1. Plain(e, k) \in {Plain(e, i) : i \in 1 .. Records[e].uncomp}  OBVIOUS
    <3> QED  BY <2>2, <3>1 DEF Seen
  <2> QED  BY <2>1, <2>2
<1> QED  BY <1>2 DEF Content, BufferOf

(* A stored entry is its stream. *)
LEMMA StoredContent ==
    ASSUME NEW e \in Entry, Records[e].method = "stored"
    PROVE  Stream(e) = Content(e)
    BY ArchiveIsSound DEF Stream, Content

(* What the sum says of a full buffer. *)
LEMMA CrcJudges ==
    ASSUME NEW s, s.e \in Entry, s.buf \in BufferOf(s.e)
    PROVE  CrcMatches(s) <=> s.buf = Content(s.e)
<1>1. Crc(s.buf) = Records[s.e].crc => s.buf = Content(s.e)  BY CrcTells
<1>2. Records[s.e].crc = Crc(Content(s.e))  BY ArchiveIsSound
<1> QED  BY <1>1, <1>2 DEF CrcMatches

(* The heap. *)
LEMMA Allocating ==
    ASSUME NEW B \in SUBSET Block, NEW b \in Block, b \notin B
    PROVE  Malloc(Held(B), b) = Held(B \cup {b}) /\ Free(Held(B \cup {b}), b) = Held(B)
<1> DEFINE h == Held(B)
           g == Held(B \cup {b})
<1>1. /\ h = [c \in Block |-> h[c]] /\ g = [c \in Block |-> g[c]]
      /\ \A c \in Block : h[c] = (IF c \in B THEN 1 ELSE 0) /\ g[c] = (IF c \in B \cup {b} THEN 1 ELSE 0)
    BY DEF Held
<1>2. h[b] = 0 /\ g[b] = 1 /\ \A c \in Block : c # b => h[c] = g[c]  BY <1>1
<1> HIDE DEF h, g
<1>3. [h EXCEPT ![b] = h[b] + 1] = g  BY <1>1, <1>2
<1>4. [g EXCEPT ![b] = g[b] - 1] = h  BY <1>1, <1>2
<1> QED  BY <1>3, <1>4 DEF Malloc, Free, h, g

LEMMA HeldType == \A B \in SUBSET Block : Held(B) \in [Block -> {0, 1}] /\ Held(B) \in [Block -> Int]
    BY DEF Held

(* What holds the cells of an entry, all of them and in their order, is it. *)
LEMMA StreamByItsCells ==
    ASSUME NEW e \in Entry, NEW s \in Seq(Seen), Len(s) = Records[e].comp,
           \A k \in 1 .. Len(s) : s[k] = Data(e, k)
    PROVE  s = Stream(e)
<1>1. /\ Stream(e) \in Seq(Seen) /\ Len(Stream(e)) = Records[e].comp
      /\ \A k \in 1 .. Records[e].comp : Stream(e)[k] = Data(e, k)
    BY StreamIsSeen
<1>2. \A k \in 1 .. Len(s) : s[k] = Stream(e)[k]  BY <1>1
<1> QED  BY <1>1, <1>2, SeqEqual

-----------------------------------------------------------------------------
(* Reading: what fread has to give. *)
LEMMA BehindReads ==
    ASSUME offset \in 0 .. Len(File), NEW n \in Nat
    PROVE  /\ Behind(n) \in Seq(Seen)
           /\ Len(Behind(n)) = IF offset + n < Len(File) THEN n ELSE Len(File) - offset
           /\ \A i \in 1 .. Len(Behind(n)) : Behind(n)[i] = File[offset + i]
<1> DEFINE last == IF offset + n < Len(File) THEN offset + n ELSE Len(File)
<1>1. File \in Seq(Seen) /\ Len(File) \in Nat  BY FileIsSeen, LenProperties
<1>2. last \in 0 .. Len(File) /\ offset <= last /\ offset \in Nat /\ last \in Nat  BY <1>1
<1>3. last - offset = IF offset + n < Len(File) THEN n ELSE Len(File) - offset  BY <1>1
<1> HIDE DEF last
<1>4. /\ SubSeq(File, offset + 1, last) \in Seq(Seen)
      /\ Len(SubSeq(File, offset + 1, last)) = last - offset
      /\ \A i \in 1 .. last - offset : SubSeq(File, offset + 1, last)[i] = File[offset + i]
    BY <1>1, <1>2, SubSeqProperties
<1>5. Behind(n) = SubSeq(File, offset + 1, last)  BY DEF Behind, last
<1> QED  BY <1>2, <1>3, <1>4, <1>5

LEMMA MoreReads ==
    ASSUME Types, NEW p \in Proc, desc[p] # "none",
           NEW n, n = x[p].want - Len(stdio[p].buf)
    PROVE  /\ More(p) \in Seq(Seen)
           /\ n <= 0 => Len(More(p)) = 0
           /\ n > 0 => Len(More(p)) <= n + Stdio
           /\ desc[p] = "self" => offset + Len(More(p)) <= Len(File)
           /\ desc[p] = "self" /\ n > 0 =>
                Len(More(p)) = IF offset + n + Stdio < Len(File) THEN n + Stdio ELSE Len(File) - offset
           /\ desc[p] = "self" =>
                \A i \in 1 .. Len(More(p)) : More(p)[i] = File[offset + i]
<1>1. /\ x[p].want \in Nat /\ stdio[p].buf \in Seq(Seen) /\ Len(stdio[p].buf) \in Nat
      /\ desc[p] \in {"self", "closed", "reused"} /\ offset \in 0 .. Len(File)
    BY LenProperties DEF Types, Running, OpenFile
<1>2. n \in Int /\ Stdio \in Nat /\ Len(File) \in Nat
    BY <1>1, SelfReadAssumption, FileIsSeen, LenProperties
<1>3. CASE n <= 0
  <2>1. More(p) = << >>  BY <1>3 DEF More
  <2>2. << >> \in Seq(Seen) /\ Len(<< >>) = 0  OBVIOUS
  <2> QED  BY <1>1, <1>2, <1>3, <2>1, <2>2
<1>4. CASE n > 0 /\ desc[p] = "self"
  <2>1. More(p) = Behind(n + Stdio)  BY <1>2, <1>4 DEF More
  <2>2. n + Stdio \in Nat  BY <1>2, <1>4
  <2>3. /\ Behind(n + Stdio) \in Seq(Seen)
        /\ Len(Behind(n + Stdio)) =
             IF offset + (n + Stdio) < Len(File) THEN n + Stdio ELSE Len(File) - offset
        /\ \A i \in 1 .. Len(Behind(n + Stdio)) : Behind(n + Stdio)[i] = File[offset + i]
    BY <1>1, <2>2, BehindReads
  <2> QED  BY <1>1, <1>2, <1>4, <2>1, <2>3
<1>5. CASE n > 0 /\ desc[p] = "reused"
  <2>1. More(p) = [i \in 1 .. n |-> Other]  BY <1>2, <1>5 DEF More
  <2>2. n \in Nat /\ \A i \in 1 .. n : Other \in Seen  BY <1>2, <1>5, OtherIsSeen
  <2>3. More(p) \in Seq(Seen) /\ Len(More(p)) = n  BY <2>1, <2>2
  <2> QED  BY <1>2, <1>5, <2>3
<1>6. CASE n > 0 /\ desc[p] = "closed"
  <2>1. More(p) = << >>  BY <1>2, <1>6 DEF More
  <2>2. << >> \in Seq(Seen) /\ Len(<< >>) = 0  OBVIOUS
  <2> QED  BY <1>2, <1>6, <2>1, <2>2
<1> QED  BY <1>1, <1>2, <1>3, <1>4, <1>5, <1>6
-----------------------------------------------------------------------------
(* A step of one process: what it must show of its own state for the whole *)
(* to be in order afterwards.                                              *)
Alone(p, s, f, r, o) ==
    /\ x' = [x EXCEPT ![p] = s] /\ stdio' = [stdio EXCEPT ![p] = f]
    /\ ret' = [ret EXCEPT ![p] = r] /\ offset' = o /\ desc' = desc
    /\ apart' = [q \in Proc |-> apart[q] /\ (q = p \/ o = offset)]

LEMMA OwnStepTidy ==
    ASSUME Tidy, NEW p \in Proc, NEW s \in Running, NEW f \in OpenFile, NEW r \in Answers,
           NEW o \in 0 .. Len(File),
           Len(f.buf) <= Stdio, InFile(s), Exact(r), Freed(s, desc[p], r),
           Alone(p, s, f, r, o), calls' \in 0 .. MaxCalls
    PROVE  Tidy'
<1> USE DEF Alone
<1>1. Types'
  <2>1. x' \in [Proc -> Running]  BY DEF Tidy, Types
  <2>2. stdio' \in [Proc -> OpenFile]  BY DEF Tidy, Types
  <2>3. ret' \in [Proc -> Answers]  BY DEF Tidy, Types
  <2>4. apart' \in [Proc -> BOOLEAN]  BY Zenon DEF Tidy, Types
  <2>5. desc' \in [Proc -> {"none", "self", "closed", "reused"}]  BY DEF Tidy, Types
  <2> QED  BY <2>1, <2>2, <2>3, <2>4, <2>5 DEF Types
<1>2. ASSUME NEW q \in Proc
      PROVE  /\ Len(stdio'[q].buf) <= Stdio /\ InFile(x'[q])
             /\ Exact(ret'[q]) /\ Freed(x'[q], desc'[q], ret'[q])
  <2>1. CASE q = p
    <3>1. x'[q] = s /\ stdio'[q] = f /\ ret'[q] = r /\ desc'[q] = desc[p]
        BY <2>1 DEF Tidy, Types
    <3> QED  BY <3>1
  <2>2. CASE q # p
    <3>1. x'[q] = x[q] /\ stdio'[q] = stdio[q] /\ ret'[q] = ret[q] /\ desc'[q] = desc[q]
        BY <2>2 DEF Tidy, Types
    <3> QED  BY <3>1 DEF Tidy
  <2> QED  BY <2>1, <2>2
<1> QED  BY <1>1, <1>2 DEF Tidy, InFile, Exact, Freed, Content, BufferOf, HeldFor, Held

LEMMA OwnStepLone ==
    ASSUME Tidy, Lone, NEW p \in Proc, NEW s, NEW f, NEW r, NEW o, desc[p] # "none",
           Alone(p, s, f, r, o),
           apart[p] /\ desc[p] = "self" => Undisturbed(o, f, s, r),
           desc[p] = "self" /\ Follows(offset, stdio[p]) => Follows(o, f)
    PROVE  Lone'
<1> USE DEF Alone
<1>1. ASSUME NEW q \in Proc, apart'[q], desc'[q] = "self"
      PROVE  Undisturbed(offset', stdio'[q], x'[q], ret'[q])
  <2>1. CASE q = p
    <3>1. x'[q] = s /\ stdio'[q] = f /\ ret'[q] = r /\ desc[p] = "self" /\ apart[p]
        BY <1>1, <2>1 DEF Tidy, Types
    <3> QED  BY <3>1
  <2>2. CASE q # p
    <3>1. /\ x'[q] = x[q] /\ stdio'[q] = stdio[q] /\ ret'[q] = ret[q]
          /\ desc[q] = "self" /\ apart[q] /\ o = offset
        BY <1>1, <2>2 DEF Tidy, Types
    <3> QED  BY <3>1 DEF Lone
  <2> QED  BY <2>1, <2>2
<1>2. ASSUME NEW q \in Proc, apart'[q], desc'[q] = "none", desc'[Parent] = "self"
      PROVE  Follows(offset', stdio'[Parent])
  <2>1. q # p /\ apart[q] /\ o = offset /\ Parent \in Proc
      BY <1>2, SelfReadAssumption DEF Tidy, Types
  <2>2. Follows(offset, stdio[Parent])  BY <1>2, <2>1 DEF Lone
  <2>3. CASE Parent = p
    <3>1. stdio'[Parent] = f  BY <2>1, <2>3 DEF Tidy, Types
    <3> QED  BY <1>2, <2>2, <2>3, <3>1
  <2>4. CASE Parent # p
    <3>1. stdio'[Parent] = stdio[Parent]  BY <2>1, <2>4 DEF Tidy, Types
    <3> QED  BY <2>1, <2>2, <3>1
  <2> QED  BY <2>3, <2>4
<1> QED  BY <1>1, <1>2 DEF Lone, Undisturbed, Follows, Aimed, OnTheSpot, Fetched, Data, DataOf, Content

(* What another process may find when it looks: nothing has changed. *)
LEMMA Same ==
    ASSUME Types, NEW p \in Proc
    PROVE  /\ x = [x EXCEPT ![p] = x[p]] /\ stdio = [stdio EXCEPT ![p] = stdio[p]]
           /\ ret = [ret EXCEPT ![p] = ret[p]]
           /\ apart = [q \in Proc |-> apart[q] /\ (q = p \/ offset = offset)]
<1>1. x = [x EXCEPT ![p] = x[p]]  BY DEF Types
<1>2. stdio = [stdio EXCEPT ![p] = stdio[p]]  BY DEF Types
<1>3. ret = [ret EXCEPT ![p] = ret[p]]  BY DEF Types
<1>4. apart = [q \in Proc |-> apart[q] /\ (q = p \/ offset = offset)]  BY Zenon DEF Types
<1> QED  BY <1>1, <1>2, <1>3, <1>4

LEMMA Busy ==
    ASSUME Tidy, NEW p \in Proc, x[p].at # "idle"
    PROVE  /\ desc[p] \in {"self", "closed", "reused"}
           /\ x[p] \in Running /\ stdio[p] \in OpenFile /\ ret[p] \in Answers
           /\ offset \in 0 .. Len(File) /\ calls \in 0 .. MaxCalls
           /\ x[p].e \in Entry /\ InFile(x[p]) /\ Exact(ret[p])
           /\ Len(stdio[p].buf) <= Stdio
           /\ x[p].heap = HeldFor(x[p].phase) /\ x[p].buf \in BufferOf(x[p].e)
           /\ x[p].ofs + x[p].want + x[p].remaining <= Len(File)
<1>1. Freed(x[p], desc[p], ret[p])  BY DEF Tidy
<1>2. desc[p] # "none"  BY <1>1 DEF Freed
<1> QED  BY <1>1, <1>2 DEF Tidy, Types, InFile, Freed

LEMMA Placed ==
    ASSUME NEW t \in Running, NEW a \in {"tell", "seek", "read", "have"}, NEW s,
           s = [t EXCEPT !.at = a]
    PROVE  /\ s \in Running /\ s.at = a /\ s.e = t.e /\ s.phase = t.phase
           /\ s.ofs = t.ofs /\ s.want = t.want /\ s.got = t.got
           /\ s.remaining = t.remaining /\ s.fed = t.fed /\ s.buf = t.buf /\ s.made = t.made
           /\ s.heap = t.heap
    BY DEF Running

(* s is t with a read begun. *)
Begun(s, t, ph, o, w) ==
    /\ s.at = "tell" /\ s.e = t.e /\ s.phase = ph
    /\ s.ofs = o /\ s.want = w /\ Len(s.got) = 0
    /\ s.remaining = t.remaining /\ s.fed = t.fed /\ s.buf = t.buf /\ s.made = t.made
    /\ s.heap = t.heap

LEMMA ReadsBegin ==
    ASSUME NEW t \in Running, NEW ph \in {"header", "stored", "frame", "chunk"},
           NEW o \in Nat, NEW w \in Nat
    PROVE  Reads(t, ph, o, w) \in Running /\ Begun(Reads(t, ph, o, w), t, ph, o, w)
<1> DEFINE none == << >>
           s == Reads(t, ph, o, w)
<1>1. none \in Seq(Seen) /\ Len(none) = 0  OBVIOUS
<1>2. s = [t EXCEPT !.at = "tell", !.phase = ph, !.ofs = o, !.want = w, !.got = none]
    BY DEF Reads
<1> HIDE DEF none, s
<1>3. s \in Running  BY <1>1, <1>2 DEF Running
<1>4. /\ s.at = "tell" /\ s.e = t.e /\ s.phase = ph
      /\ s.ofs = o /\ s.want = w /\ s.got = none
      /\ s.remaining = t.remaining /\ s.fed = t.fed /\ s.buf = t.buf /\ s.made = t.made
      /\ s.heap = t.heap
    BY <1>2 DEF Running
<1>5. Begun(s, t, ph, o, w)  BY <1>1, <1>4 DEF Begun
<1> QED  BY <1>3, <1>5 DEF s
-----------------------------------------------------------------------------
(* mz_zip_file_read_func. *)
LEMMA TellSteps ==
    ASSUME Invariant, NEW p \in Proc, FileTell(p)
    PROVE  Invariant'
<1> DEFINE a == IF Tell(p) = x[p].ofs THEN "read" ELSE "seek"
           s == [x[p] EXCEPT !.at = a]
<1>1. Tidy /\ Lone /\ Types  BY DEF Invariant, Tidy
<1>2. x[p].at = "tell" /\ x' = [x EXCEPT ![p] = s] /\ UNCHANGED <<offset, stdio, desc, ret, calls, apart>>
    BY DEF FileTell, At, Goes
<1>3. /\ desc[p] \in {"self", "closed", "reused"}
      /\ x[p] \in Running /\ stdio[p] \in OpenFile /\ ret[p] \in Answers
      /\ offset \in 0 .. Len(File) /\ calls \in 0 .. MaxCalls
      /\ x[p].e \in Entry /\ InFile(x[p]) /\ Exact(ret[p])
      /\ Len(stdio[p].buf) <= Stdio /\ x[p].heap = HeldFor(x[p].phase)
    BY <1>1, <1>2, Busy
<1>4. a \in {"read", "seek"} /\ (a = "read" => Tell(p) = x[p].ofs)  OBVIOUS
<1> HIDE DEF a
<1>5. /\ s \in Running /\ s.at = a /\ s.e = x[p].e /\ s.phase = x[p].phase
      /\ s.ofs = x[p].ofs /\ s.want = x[p].want /\ s.got = x[p].got
      /\ s.remaining = x[p].remaining /\ s.fed = x[p].fed /\ s.buf = x[p].buf
      /\ s.made = x[p].made /\ s.heap = x[p].heap
    BY <1>3, <1>4, Placed
<1> HIDE DEF s
<1>6. /\ stdio' = [stdio EXCEPT ![p] = stdio[p]] /\ ret' = [ret EXCEPT ![p] = ret[p]]
      /\ apart' = [q \in Proc |-> apart[q] /\ (q = p \/ offset = offset)]
    BY <1>1, <1>2, Same
<1>7. InFile(s) /\ Freed(s, desc[p], ret[p])
    BY <1>2, <1>3, <1>4, <1>5 DEF InFile, Freed
<1>8. Alone(p, s, stdio[p], ret[p], offset) /\ calls' = calls
    BY <1>2, <1>6 DEF Alone
<1>9. ASSUME apart[p], desc[p] = "self"
      PROVE  Undisturbed(offset, stdio[p], s, ret[p])
  <2>1. Undisturbed(offset, stdio[p], x[p], ret[p])  BY <1>1, <1>9 DEF Lone
  <2>2. Follows(offset, stdio[p]) /\ Aimed(s) /\ ret[p].why # "data" /\ Fetched(s)
      BY <1>2, <1>4, <1>5, <2>1 DEF Undisturbed, Aimed, Fetched
  <2>3. Tell(p) = offset - Len(stdio[p].buf)  BY <2>2 DEF Tell, Follows
  <2>4. OnTheSpot(offset, stdio[p], s)  BY <1>4, <1>5, <2>3 DEF OnTheSpot
  <2> QED  BY <2>2, <2>4 DEF Undisturbed
<1>10. desc[p] # "none"  BY <1>3
<1>11. Tidy'
    BY <1>1, <1>3, <1>5, <1>7, <1>8, OwnStepTidy
<1>12. Lone'
    BY <1>1, <1>8, <1>9, <1>10, OwnStepLone
<1> QED  BY <1>11, <1>12 DEF Invariant

LEMMA SeekSteps ==
    ASSUME Invariant, NEW p \in Proc, FileSeek(p)
    PROVE  Invariant'
<1> DEFINE closed == desc[p] = "closed"
           a == IF closed THEN "have" ELSE "read"
           s == [x[p] EXCEPT !.at = a]
           f == IF closed THEN stdio[p] ELSE [end |-> x[p].ofs, buf |-> << >>]
           o == IF desc[p] = "self" THEN x[p].ofs ELSE offset
<1>1. Tidy /\ Lone /\ Types  BY DEF Invariant, Tidy
<1>2. x[p].at = "seek" /\ UNCHANGED <<desc, ret, calls>>  BY DEF FileSeek
<1>3. /\ desc[p] \in {"self", "closed", "reused"}
      /\ x[p] \in Running /\ stdio[p] \in OpenFile /\ ret[p] \in Answers
      /\ offset \in 0 .. Len(File) /\ calls \in 0 .. MaxCalls
      /\ x[p].e \in Entry /\ InFile(x[p]) /\ Exact(ret[p])
      /\ Len(stdio[p].buf) <= Stdio /\ x[p].heap = HeldFor(x[p].phase)
    BY <1>1, <1>2, Busy
<1>4. ret' = [ret EXCEPT ![p] = ret[p]]  BY <1>1, <1>2, Same
<1>5. x' = [x EXCEPT ![p] = s]  BY DEF FileSeek, At, Goes
<1>6. stdio' = [stdio EXCEPT ![p] = f]  BY <1>1, Same DEF FileSeek
<1>7. /\ offset' = o
      /\ apart' = [q \in Proc |-> apart[q] /\ (q = p \/ o = offset)]
  <2>1. CASE desc[p] = "self"
    <3>1. Moves(p, x[p].ofs) /\ o = x[p].ofs  BY <2>1 DEF FileSeek
    <3> QED  BY <3>1 DEF Moves
  <2>2. CASE desc[p] # "self"
    <3>1. Stays /\ o = offset  BY <2>2 DEF FileSeek
    <3> QED  BY <1>1, <3>1, Same DEF Stays
  <2> QED  BY <2>1, <2>2
<1>8. /\ s \in Running /\ s.e = x[p].e /\ s.phase = x[p].phase
      /\ s.at = a /\ a \in {"have", "read"} /\ (desc[p] = "self" => a = "read")
      /\ s.ofs = x[p].ofs /\ s.want = x[p].want /\ s.got = x[p].got
      /\ s.remaining = x[p].remaining /\ s.fed = x[p].fed /\ s.buf = x[p].buf
      /\ s.made = x[p].made /\ s.heap = x[p].heap
  <2>1. a \in {"have", "read"} /\ (desc[p] = "self" => a = "read")  OBVIOUS
  <2> HIDE DEF a
  <2> QED  BY <1>3, <2>1, Placed
<1>9. x[p].ofs \in 0 .. Len(File)
    BY <1>3, FileIsSeen, LenProperties DEF Running, InFile
<1>10. f \in OpenFile /\ Len(f.buf) <= Stdio
  <2> DEFINE none == << >>
  <2>1. none \in Seq(Seen) /\ Len(none) = 0  OBVIOUS
  <2>2. CASE closed  BY <1>3, <2>2
  <2>3. CASE ~closed
    <3>1. f = [end |-> x[p].ofs, buf |-> none]  BY <2>3
    <3> HIDE DEF none, f
    <3>2. x[p].ofs \in Nat  BY <1>3 DEF Running
    <3>3. f.buf = none /\ f \in OpenFile  BY <2>1, <3>1, <3>2 DEF OpenFile
    <3> QED  BY <2>1, <3>3, SelfReadAssumption
  <2> QED  BY <2>2, <2>3
<1>11. InFile(s) /\ Freed(s, desc[p], ret[p])
    BY <1>2, <1>3, <1>8 DEF InFile, Freed
<1>12. o \in 0 .. Len(File)  BY <1>3, <1>9
<1> HIDE DEF s
<1>13. Alone(p, s, f, ret[p], o) /\ calls' = calls
    BY <1>2, <1>4, <1>5, <1>6, <1>7 DEF Alone
<1>14. desc[p] = "self" => o = x[p].ofs /\ f.end = x[p].ofs /\ f.buf = << >> /\ Len(f.buf) = 0
    OBVIOUS
<1>15. desc[p] = "self" => Follows(o, f)  BY <1>9, <1>14 DEF Follows
<1>16. ASSUME apart[p], desc[p] = "self"
       PROVE  Undisturbed(o, f, s, ret[p])
  <2>1. Undisturbed(offset, stdio[p], x[p], ret[p])  BY <1>1, <1>16 DEF Lone
  <2>2. Aimed(s) /\ ret[p].why # "data" /\ Fetched(s) /\ s.at = "read"
      BY <1>2, <1>8, <1>16, <2>1 DEF Undisturbed, Aimed, Fetched
  <2>3. OnTheSpot(o, f, s)  BY <1>8, <1>9, <1>14, <1>16 DEF OnTheSpot
  <2> QED  BY <1>15, <1>16, <2>2, <2>3 DEF Undisturbed
<1> HIDE DEF f, o
<1>17. Tidy'
    BY <1>1, <1>3, <1>8, <1>10, <1>11, <1>12, <1>13, OwnStepTidy
<1>18. Lone'
    BY <1>1, <1>3, <1>13, <1>15, <1>16, OwnStepLone
<1> QED  BY <1>17, <1>18 DEF Invariant

LEMMA ReadSteps ==
    ASSUME Invariant, NEW p \in Proc, FileRead(p)
    PROVE  Invariant'
<1> DEFINE buf == stdio[p].buf
           more == More(p)
           all == buf \o more
           want == x[p].want
           k == MinOf(want, Len(all))
           got == SubSeq(all, 1, k)
           rest == SubSeq(all, k + 1, Len(all))
           s == [x[p] EXCEPT !.at = "have", !.got = got]
           f == [end |-> stdio[p].end + Len(more), buf |-> rest]
           o == IF desc[p] = "self" THEN offset + Len(more) ELSE offset
           n == want - Len(buf)
<1>1. Tidy /\ Lone /\ Types  BY DEF Invariant, Tidy
<1>2. x[p].at = "read" /\ UNCHANGED <<desc, ret, calls>>  BY DEF FileRead
<1>3. /\ desc[p] \in {"self", "closed", "reused"}
      /\ x[p] \in Running /\ stdio[p] \in OpenFile /\ ret[p] \in Answers
      /\ offset \in 0 .. Len(File) /\ calls \in 0 .. MaxCalls
      /\ x[p].e \in Entry /\ InFile(x[p]) /\ Exact(ret[p])
      /\ Len(buf) <= Stdio /\ x[p].heap = HeldFor(x[p].phase)
      /\ x[p].ofs + x[p].want + x[p].remaining <= Len(File)
    BY <1>1, <1>2, Busy
<1>4. ret' = [ret EXCEPT ![p] = ret[p]]  BY <1>1, <1>2, Same
<1>5. x' = [x EXCEPT ![p] = s] /\ stdio' = [stdio EXCEPT ![p] = f]
    BY DEF FileRead, Goes
<1>6. /\ offset' = o
      /\ apart' = [q \in Proc |-> apart[q] /\ (q = p \/ o = offset)]
  <2>1. CASE desc[p] = "self"
    <3>1. Moves(p, offset + Len(more)) /\ o = offset + Len(more)  BY <2>1 DEF FileRead
    <3> QED  BY <3>1 DEF Moves
  <2>2. CASE desc[p] # "self"
    <3>1. Stays /\ o = offset  BY <2>2 DEF FileRead
    <3> QED  BY <1>1, <3>1, Same DEF Stays
  <2> QED  BY <2>1, <2>2
<1>7. Alone(p, s, f, ret[p], o) /\ calls' = calls
    BY <1>2, <1>4, <1>5, <1>6 DEF Alone
<1>8. /\ more \in Seq(Seen)
      /\ n <= 0 => Len(more) = 0
      /\ n > 0 => Len(more) <= n + Stdio
      /\ desc[p] = "self" => offset + Len(more) <= Len(File)
      /\ desc[p] = "self" /\ n > 0 =>
           Len(more) = IF offset + n + Stdio < Len(File) THEN n + Stdio ELSE Len(File) - offset
      /\ desc[p] = "self" => \A i \in 1 .. Len(more) : more[i] = File[offset + i]
  <2>1. desc[p] # "none"  BY <1>3
  <2> HIDE DEF n
  <2>2. n = x[p].want - Len(stdio[p].buf)  BY DEF n
  <2> QED  BY <1>1, <2>1, <2>2, MoreReads
<1>9. /\ buf \in Seq(Seen) /\ Len(buf) \in Nat /\ Len(more) \in Nat
      /\ want \in Nat /\ Len(File) \in Nat /\ stdio[p].end \in Nat /\ Stdio \in Nat
      /\ x[p].ofs \in Nat /\ x[p].remaining \in Nat
    BY <1>3, <1>8, LenProperties, FileIsSeen, SelfReadAssumption DEF Running, OpenFile
<1> HIDE DEF more, buf
<1>10. /\ all \in Seq(Seen) /\ Len(all) = Len(buf) + Len(more)
       /\ \A i \in 1 .. Len(buf) + Len(more) :
            all[i] = IF i <= Len(buf) THEN buf[i] ELSE more[i - Len(buf)]
    BY <1>8, <1>9, ConcatProperties
<1> HIDE DEF all
<1>11. Len(all) \in Nat /\ Len(all) = Len(buf) + Len(more)  BY <1>9, <1>10
<1>12. k \in 0 .. Len(all) /\ k \in Nat /\ k <= want /\ (want <= Len(all) => k = want)
       /\ (want > Len(all) => k = Len(all))
  <2>1. k = IF want < Len(all) THEN want ELSE Len(all)  BY DEF MinOf
  <2> HIDE DEF k, want
  <2> QED  BY <1>9, <1>11, <2>1
<1> HIDE DEF k
<1>13. /\ got \in Seq(Seen) /\ Len(got) = k
       /\ \A i \in 1 .. k : got[i] = all[i]
  <2>1. \A i \in 1 .. k : all[i] \in Seen
    <3>1. \A i \in 1 .. k : i \in 1 .. Len(all)  BY <1>12, <1>11
    <3> QED  BY <1>10, <3>1, ElementOfSeq
  <2>2. /\ got \in Seq(Seen) /\ Len(got) = IF 1 <= k THEN k - 1 + 1 ELSE 0
        /\ \A i \in 1 .. k - 1 + 1 : got[i] = all[1 + i - 1]
      BY <1>12, <2>1, SubSeqProperties
  <2> QED  BY <1>12, <2>2
<1>14. /\ rest \in Seq(Seen) /\ Len(rest) = Len(all) - k
       /\ \A i \in 1 .. Len(all) - k : rest[i] = all[k + i]
  <2>1. \A i \in k + 1 .. Len(all) : all[i] \in Seen
    <3>1. \A i \in k + 1 .. Len(all) : i \in 1 .. Len(all)  BY <1>12, <1>11
    <3> QED  BY <1>10, <3>1, ElementOfSeq
  <2>2. /\ rest \in Seq(Seen)
        /\ Len(rest) = IF k + 1 <= Len(all) THEN Len(all) - (k + 1) + 1 ELSE 0
        /\ \A i \in 1 .. Len(all) - (k + 1) + 1 : rest[i] = all[(k + 1) + i - 1]
      BY <1>12, <1>11, <2>1, SubSeqProperties
  <2>3. \A i \in 1 .. Len(all) - k : rest[i] = all[k + i]
    <3>1. Len(all) - (k + 1) + 1 = Len(all) - k  BY <1>12, <1>11
    <3>2. \A i \in 1 .. Len(all) - k : (k + 1) + i - 1 = k + i  BY <1>12
    <3> QED  BY <2>2, <3>1, <3>2
  <2> QED  BY <1>12, <1>11, <2>2, <2>3
<1> HIDE DEF got, rest
<1>15. Len(rest) <= Stdio
  <2>1. Len(rest) = Len(all) - k  BY <1>14
  <2>2. n = want - Len(buf)  OBVIOUS
  <2>3. Len(rest) = Len(buf) + Len(more) - k /\ n = want - Len(buf)
      BY <1>9, <1>12, <1>11, <2>1, <2>2
  <2>4. Len(buf) <= Stdio  BY <1>3 DEF buf
  <2> HIDE DEF want, n
  <2>5. CASE n <= 0
    <3>1. Len(more) = 0  BY <1>8, <2>5
    <3> QED  BY <1>9, <1>12, <2>3, <2>4, <3>1
  <2>6. CASE n > 0
    <3>1. Len(more) <= n + Stdio  BY <1>8, <2>6
    <3>2. CASE want <= Len(all)
      <4>1. k = want  BY <1>12, <3>2
      <4> QED  BY <1>9, <2>3, <3>1, <4>1
    <3>3. CASE want > Len(all)
      <4>1. k = Len(all)  BY <1>12, <3>3
      <4> QED  BY <1>9, <1>11, <2>3, <4>1
    <3> QED  BY <1>9, <1>11, <3>2, <3>3
  <2>7. n \in Int  BY <1>9, <2>3
  <2> QED  BY <2>5, <2>6, <2>7
<1>16. /\ s \in Running /\ s.at = "have" /\ s.e = x[p].e /\ s.phase = x[p].phase
       /\ s.ofs = x[p].ofs /\ s.want = want /\ s.got = got
       /\ s.remaining = x[p].remaining /\ s.fed = x[p].fed /\ s.buf = x[p].buf
       /\ s.made = x[p].made /\ s.heap = x[p].heap
    BY <1>3, <1>13 DEF Running
<1>17. f \in OpenFile /\ f.buf = rest /\ f.end = stdio[p].end + Len(more)
    BY <1>9, <1>14 DEF OpenFile
<1>18. o \in 0 .. Len(File)  BY <1>3, <1>8, <1>9
<1> HIDE DEF s, f
<1>19. InFile(s) /\ Freed(s, desc[p], ret[p])
    BY <1>2, <1>3, <1>12, <1>13, <1>16 DEF InFile, Freed
<1>20. Tidy'
  <2> HIDE DEF o
  <2>1. Len(f.buf) <= Stdio  BY <1>15, <1>17
  <2> QED  BY <1>1, <1>3, <1>7, <1>16, <1>17, <1>18, <1>19, <2>1, OwnStepTidy
<1>21. ASSUME desc[p] = "self", Follows(offset, stdio[p])
       PROVE  Follows(o, f)
  <2>1. /\ stdio[p].end = offset /\ Len(buf) <= offset
        /\ \A i \in 1 .. Len(buf) : buf[i] = File[offset - Len(buf) + i]
      BY <1>21 DEF Follows, buf
  <2>2. o = offset + Len(more) /\ o \in Nat /\ offset \in Nat  BY <1>3, <1>9, <1>21
  <2>3. f.end = o  BY <1>17, <2>1, <2>2
  <2>4. Len(f.buf) = Len(all) - k /\ Len(f.buf) \in Nat /\ Len(f.buf) <= o
      BY <1>9, <1>10, <1>12, <1>14, <1>17, <2>1, <2>2
  <2>5. ASSUME NEW i \in 1 .. Len(f.buf)
        PROVE  f.buf[i] = File[o - Len(f.buf) + i]
    <3>1. i \in Nat /\ k \in Nat /\ k + i \in 1 .. Len(buf) + Len(more)
        BY <1>9, <1>10, <1>12, <2>4
    <3>2. f.buf[i] = IF k + i <= Len(buf) THEN buf[k + i] ELSE more[k + i - Len(buf)]
        BY <1>10, <1>14, <1>17, <2>4, <3>1
    <3>3. o - Len(f.buf) + i = offset - Len(buf) + (k + i)
      <4> HIDE DEF o
      <4> QED  BY <1>9, <1>12, <1>11, <2>2, <2>4, <3>1
    <3>4. CASE k + i <= Len(buf)
      <4>1. k + i \in 1 .. Len(buf)  BY <1>9, <3>1, <3>4
      <4> QED  BY <2>1, <3>2, <3>3, <3>4, <4>1
    <3>5. CASE k + i > Len(buf)
      <4>1. k + i - Len(buf) \in 1 .. Len(more)  BY <1>9, <3>1, <3>5
      <4>2. more[k + i - Len(buf)] = File[offset + (k + i - Len(buf))]
          BY <1>8, <1>21, <4>1
      <4>3. offset + (k + i - Len(buf)) = offset - Len(buf) + (k + i)  BY <1>9, <2>2, <3>1
      <4> QED  BY <1>9, <3>1, <3>2, <3>3, <3>5, <4>2, <4>3
    <3> QED  BY <1>9, <3>1, <3>4, <3>5
  <2> QED  BY <2>3, <2>4, <2>5 DEF Follows
<1>22. ASSUME apart[p], desc[p] = "self"
       PROVE  Undisturbed(o, f, s, ret[p])
  <2>1. Undisturbed(offset, stdio[p], x[p], ret[p])  BY <1>1, <1>22 DEF Lone
  <2>2. Follows(o, f)  BY <1>21, <1>22, <2>1 DEF Undisturbed
  <2>3. Aimed(s) /\ ret[p].why # "data" /\ OnTheSpot(o, f, s)
      BY <1>2, <1>16, <2>1 DEF Undisturbed, Aimed, OnTheSpot
  <2>4. /\ Len(buf) <= offset /\ offset - Len(buf) = x[p].ofs
        /\ \A i \in 1 .. Len(buf) : buf[i] = File[offset - Len(buf) + i]
      BY <1>2, <2>1 DEF Undisturbed, Follows, OnTheSpot, buf
  <2>5. x[p].ofs + want <= Len(File) /\ offset \in Nat /\ x[p].ofs \in Nat
    <3>1. x[p].ofs + want + x[p].remaining <= Len(File)  BY <1>3
    <3> HIDE DEF want
    <3> QED  BY <1>3, <1>9, <3>1
  <2>6. want <= Len(all)
    <3>1. n = want - Len(buf) /\ n \in Int  BY <1>9
    <3> HIDE DEF n, want
    <3>2. CASE n <= 0  BY <1>9, <1>11, <3>1, <3>2
    <3>3. CASE n > 0
      <4>1. Len(more) >= n  BY <1>8, <1>9, <1>22, <2>4, <2>5, <3>1, <3>3
      <4> QED  BY <1>9, <1>11, <3>1, <4>1
    <3> QED  BY <3>1, <3>2, <3>3
  <2>7. ASSUME NEW i \in 1 .. want
        PROVE  got[i] = File[x[p].ofs + i]
    <3>1. i \in Nat /\ i \in 1 .. Len(buf) + Len(more) /\ i \in 1 .. k
        BY <1>9, <1>10, <1>12, <2>6
    <3>2. got[i] = IF i <= Len(buf) THEN buf[i] ELSE more[i - Len(buf)]
        BY <1>10, <1>13, <3>1
    <3>3. CASE i <= Len(buf)
      <4>1. i \in 1 .. Len(buf)  BY <1>9, <3>1, <3>3
      <4> QED  BY <2>4, <3>2, <3>3, <4>1
    <3>4. CASE i > Len(buf)
      <4>1. i - Len(buf) \in 1 .. Len(more)  BY <1>9, <3>1, <3>4
      <4>2. more[i - Len(buf)] = File[offset + (i - Len(buf))]  BY <1>8, <1>22, <4>1
      <4>3. offset + (i - Len(buf)) = x[p].ofs + i  BY <1>9, <2>4, <2>5, <3>1
      <4> QED  BY <1>9, <3>1, <3>2, <3>4, <4>2, <4>3
    <3> QED  BY <1>9, <3>1, <3>3, <3>4
  <2>8. Fetched(s)  BY <1>12, <1>13, <1>16, <2>6, <2>7 DEF Fetched
  <2> QED  BY <2>2, <2>3, <2>8, <1>16 DEF Undisturbed
<1>23. Lone'
  <2> HIDE DEF o
  <2>1. desc[p] # "none"  BY <1>3
  <2> QED  BY <1>1, <1>7, <1>21, <1>22, <2>1, OwnStepLone
<1> QED  BY <1>20, <1>23 DEF Invariant
-----------------------------------------------------------------------------
(* mz_zip_reader_extract_to_heap: it ends with an answer. *)
LEMMA EmptyIsSeen == << >> \in Seq(Seen) /\ Len(<< >>) = 0
    OBVIOUS

LEMMA IdleRuns ==
    /\ Idle \in Running /\ Idle.at = "idle" /\ Idle.ofs = 0 /\ Idle.want = 0
    /\ Idle.remaining = 0 /\ Len(Idle.got) = 0 /\ Len(Idle.fed) = 0 /\ Idle.made = 0
    /\ Idle.phase = "header" /\ Idle.heap = Held({})
<1> DEFINE none == << >>
<1>1. none \in Seq(Seen) /\ Len(none) = 0  BY EmptyIsSeen
<1>2. Idle = [at |-> "idle", e |-> 1, phase |-> "header", ofs |-> 0, want |-> 0, got |-> none,
              remaining |-> 0, fed |-> none, buf |-> none, made |-> 0, heap |-> Held({})]
    BY DEF Idle
<1>3. Held({}) \in [Block -> Int]  BY HeldType
<1> HIDE DEF none
<1>4. Idle \in Running  BY <1>1, <1>2, <1>3 DEF Running
<1>5. /\ Idle.at = "idle" /\ Idle.ofs = 0 /\ Idle.want = 0
      /\ Idle.remaining = 0 /\ Idle.got = none /\ Idle.fed = none /\ Idle.made = 0
      /\ Idle.phase = "header" /\ Idle.heap = Held({})
    BY <1>2
<1> QED  BY <1>1, <1>4, <1>5

LEMMA IdleFields ==
    ASSUME NEW h \in [Block -> Int], NEW s, s = [Idle EXCEPT !.heap = h]
    PROVE  /\ s \in Running /\ s.at = "idle" /\ s.heap = h /\ InFile(s) /\ Fetched(s)
           /\ \A o, f : OnTheSpot(o, f, s)
<1>1. s \in Running  BY IdleRuns DEF Running
<1>2. /\ s.at = "idle" /\ s.heap = h /\ s.ofs = 0 /\ s.want = 0 /\ s.remaining = 0
      /\ s.got = Idle.got /\ s.phase = "header"
    BY IdleRuns DEF Running
<1>3. Len(File) \in Nat /\ Len(s.got) = 0
    BY <1>2, IdleRuns, FileIsSeen, LenProperties
<1>4. InFile(s)  BY <1>2, <1>3 DEF InFile
<1>5. Fetched(s) /\ \A o, f : OnTheSpot(o, f, s)  BY <1>2 DEF Fetched, OnTheSpot
<1> QED  BY <1>1, <1>2, <1>4, <1>5

LEMMA Rests ==
    ASSUME Tidy, Lone, NEW p \in Proc, NEW r \in Answers, desc[p] # "none",
           NEW h, h = Held(IF r.ok THEN {"pBuf"} ELSE {}), Exact(r),
           apart[p] /\ desc[p] = "self" => r.why # "data",
           x' = [x EXCEPT ![p] = [Idle EXCEPT !.heap = h]], ret' = [ret EXCEPT ![p] = r],
           calls' \in 0 .. MaxCalls, UNCHANGED <<offset, stdio, desc, apart>>
    PROVE  Invariant'
<1> DEFINE s == [Idle EXCEPT !.heap = h]
<1>1. h \in [Block -> Int]  BY HeldType DEF Block
<1>2. /\ s \in Running /\ s.at = "idle" /\ s.heap = h /\ InFile(s) /\ Fetched(s)
      /\ \A o, f : OnTheSpot(o, f, s)
    BY <1>1, IdleFields
<1>3. x' = [x EXCEPT ![p] = s]  OBVIOUS
<1> HIDE DEF s
<1>4. /\ stdio[p] \in OpenFile /\ offset \in 0 .. Len(File) /\ Len(stdio[p].buf) <= Stdio
      /\ Types
    BY DEF Tidy, Types
<1>5. Alone(p, s, stdio[p], r, offset)  BY <1>3, <1>4, Same DEF Alone
<1>6. Freed(s, desc[p], r)  BY <1>2 DEF Freed
<1>7. Tidy'  BY <1>2, <1>4, <1>5, <1>6, OwnStepTidy
<1>8. ASSUME apart[p], desc[p] = "self"
      PROVE  Undisturbed(offset, stdio[p], s, r)
  <2>1. Follows(offset, stdio[p])  BY <1>8 DEF Lone, Undisturbed
  <2> QED  BY <1>2, <1>8, <2>1 DEF Undisturbed
<1>9. Lone'  BY <1>5, <1>8, OwnStepLone
<1> QED  BY <1>7, <1>9 DEF Invariant

(* The caller's end frees the buffer unless it hands it out. *)
LEMMA ReturnSteps ==
    ASSUME Tidy, Lone, NEW p \in Proc, x[p].at # "idle", NEW s,
           s.heap = Held({"pBuf"}), s.e \in Nat, s.buf \in Seq(Seen),
           NEW why \in {"", "memory", "data"},
           why = "" => s.buf = Content(s.e),
           apart[p] /\ desc[p] = "self" => why # "data",
           Returns(p, s, why)
    PROVE  Invariant'
<1> DEFINE none == << >>
           data == IF why = "" THEN s.buf ELSE none
           ok == why = ""
           r == Answer(s.e, ok, data, why)
           h == IF why = "" THEN s.heap ELSE Free(s.heap, "pBuf")
<1>1. none \in Seq(Seen)  BY EmptyIsSeen
<1>2. /\ x' = [x EXCEPT ![p] = [Idle EXCEPT !.heap = h]] /\ ret' = [ret EXCEPT ![p] = r]
      /\ UNCHANGED <<offset, stdio, desc, calls, apart>>
    BY DEF Returns
<1> HIDE DEF none
<1>3. data \in Seq(Seen) /\ ok \in BOOLEAN /\ (ok => data = Content(s.e)) /\ (ok <=> why = "")
    BY <1>1
<1> HIDE DEF data, ok
<1>4. r \in Answers /\ r.ok = ok /\ r.data = data /\ r.e = s.e /\ r.why = why
    BY <1>3 DEF Answer, Answers
<1>5. h = Held(IF r.ok THEN {"pBuf"} ELSE {})
  <2>1. "pBuf" \in Block /\ {} \in SUBSET Block /\ {} \cup {"pBuf"} = {"pBuf"}  BY DEF Block
  <2>2. Free(Held({"pBuf"}), "pBuf") = Held({})  BY <2>1, Allocating
  <2> QED  BY <1>3, <1>4, <2>2
<1> HIDE DEF r, h
<1>6. Exact(r)  BY <1>3, <1>4 DEF Exact
<1>7. desc[p] # "none" /\ calls' \in 0 .. MaxCalls  BY <1>2, Busy
<1> QED  BY <1>2, <1>4, <1>5, <1>6, <1>7, Rests

LEMMA ExtractSteps ==
    ASSUME Invariant, NEW p \in Proc, NEW e \in Entry, Extract(p, e)
    PROVE  Invariant'
<1>1. Tidy /\ Lone /\ Types  BY DEF Invariant, Tidy
<1>2. /\ x[p].at = "idle" /\ desc[p] # "none" /\ calls' = calls + 1 /\ calls < MaxCalls
      /\ UNCHANGED <<offset, stdio, desc, apart>>
    BY DEF Extract
<1>3. calls' \in 0 .. MaxCalls  BY <1>1, <1>2, SelfReadAssumption DEF Types
<1>4. /\ e \in Nat /\ Records[e].header \in Nat /\ Records[e].comp \in Nat
      /\ Records[e].name \in Nat /\ DataOf(e) \in Nat /\ Records[e].uncomp \in Nat
    BY RecordTypes
<1> DEFINE none == << >>
           buf == [k \in 1 .. Records[e].uncomp |-> Other]
<1>5. none \in Seq(Seen) /\ Len(none) = 0  BY EmptyIsSeen
<1>6. buf \in BufferOf(e)  BY OtherIsSeen DEF BufferOf
<1>7. Used(p) = Held({}) /\ Malloc(Used(p), "pBuf") = Held({"pBuf"})
  <2>1. x[p].heap = Held(IF ret[p].ok THEN {"pBuf"} ELSE {})  BY <1>1, <1>2 DEF Tidy, Freed
  <2>2. "pBuf" \in Block /\ {} \in SUBSET Block /\ {} \cup {"pBuf"} = {"pBuf"}  BY DEF Block
  <2>3. Free(Held({"pBuf"}), "pBuf") = Held({}) /\ Malloc(Held({}), "pBuf") = Held({"pBuf"})
      BY <2>2, Allocating
  <2> QED  BY <2>1, <2>3 DEF Used
<1> DEFINE t == [Idle EXCEPT !.e = e, !.buf = buf, !.heap = Held({"pBuf"})]
<1>8. Begins(p, e) = t  BY <1>7 DEF Begins
<1> HIDE DEF none, buf
<1>9. /\ t \in Running /\ t.e = e /\ t.remaining = 0 /\ Len(t.fed) = 0 /\ t.made = 0
      /\ t.heap = Held({"pBuf"}) /\ t.buf = buf
  <2>1. buf \in Seq(Seen)  BY <1>6, BufferProperties
  <2>2. Held({"pBuf"}) \in [Block -> Int]  BY HeldType DEF Block
  <2> QED  BY <1>4, <2>1, <2>2, IdleRuns DEF Running
<1> HIDE DEF t
<1>10. CASE /\ x' = [x EXCEPT ![p] = [Idle EXCEPT !.heap = Used(p)]]
            /\ ret' = [ret EXCEPT ![p] = Answer(e, FALSE, none, "memory")]
  <2> DEFINE r == Answer(e, FALSE, none, "memory")
  <2>1. r \in Answers /\ r.ok = FALSE /\ r.why = "memory"
      BY <1>4, <1>5 DEF Answer, Answers
  <2>2. ret' = [ret EXCEPT ![p] = r]  BY <1>10
  <2> HIDE DEF r
  <2>3. Exact(r) /\ Used(p) = Held(IF r.ok THEN {"pBuf"} ELSE {})
      BY <1>7, <2>1 DEF Exact
  <2> QED  BY <1>1, <1>2, <1>3, <1>10, <2>1, <2>2, <2>3, Rests
<1>11. CASE /\ Records[e].comp = 0
            /\ x' = [x EXCEPT ![p] = [Idle EXCEPT !.heap = Begins(p, e).heap]]
            /\ ret' = [ret EXCEPT ![p] = Answer(e, TRUE, Begins(p, e).buf, "")]
  <2> DEFINE r == Answer(e, TRUE, buf, "")
             h == Held({"pBuf"})
  <2>1. buf \in Seq(Seen)  BY <1>6, BufferProperties
  <2>2. buf = Content(e)
    <3>1. Records[e].uncomp = 0  BY <1>11, ArchiveIsSound
    <3>2. \A k \in 1 .. Records[e].uncomp : FALSE  BY <3>1
    <3> QED  BY <3>2 DEF buf, Content
  <2>3. x' = [x EXCEPT ![p] = [Idle EXCEPT !.heap = h]] /\ ret' = [ret EXCEPT ![p] = r]
      BY <1>8, <1>9, <1>11
  <2>4. r \in Answers /\ r.ok = TRUE /\ r.data = buf /\ r.e = e /\ r.why = ""
      BY <1>4, <2>1 DEF Answer, Answers
  <2> HIDE DEF r
  <2>5. Exact(r) /\ h = Held(IF r.ok THEN {"pBuf"} ELSE {})
      BY <2>2, <2>4 DEF Exact
  <2> HIDE DEF h
  <2> QED  BY <1>1, <1>2, <1>3, <2>3, <2>4, <2>5, Rests
<1>12. CASE /\ Records[e].comp > 0
            /\ Goes(p, Reads(Begins(p, e), "header", Records[e].header, 1))
            /\ ret' = [ret EXCEPT ![p] = Pending]
  <2> DEFINE s == Reads(t, "header", Records[e].header, 1)
  <2>1. Pending = [e |-> 1, ok |-> FALSE, data |-> none, why |-> "none"]
      BY DEF Pending, Answer, none
  <2>2. x' = [x EXCEPT ![p] = s]  BY <1>8, <1>12 DEF Goes
  <2>3. /\ s \in Running /\ s.at = "tell" /\ s.e = e /\ s.phase = "header"
        /\ s.ofs = Records[e].header /\ s.want = 1 /\ s.remaining = 0 /\ s.made = 0
        /\ Len(s.got) = 0 /\ Len(s.fed) = 0 /\ s.buf = buf /\ s.heap = Held({"pBuf"})
    <3>1. s \in Running /\ Begun(s, t, "header", Records[e].header, 1)
        BY <1>4, <1>9, ReadsBegin
    <3> HIDE DEF s
    <3> QED  BY <1>9, <3>1 DEF Begun
  <2> HIDE DEF s
  <2>4. Pending \in Answers /\ Pending.ok = FALSE /\ Pending.why = "none"
      BY <1>5, <2>1 DEF Answers
  <2>5. /\ stdio[p] \in OpenFile /\ offset \in 0 .. Len(File) /\ Len(stdio[p].buf) <= Stdio
      BY <1>1 DEF Tidy, Types
  <2>6. DataOf(e) + Records[e].comp <= Len(File) /\ Len(File) \in Nat
      BY ArchiveIsSound, FileIsSeen, LenProperties
  <2>7. s.ofs + s.want + s.remaining <= Len(File)  BY <1>4, <2>3, <2>6 DEF DataOf
  <2>8. InFile(s)  BY <1>6, <2>3, <2>7 DEF InFile
  <2>9. Held({"pBuf"}) = HeldFor("header")
    <3>1. {"pBuf"} \cup {} = {"pBuf"}  OBVIOUS
    <3> QED  BY <3>1 DEF HeldFor
  <2>10. Exact(Pending) /\ Freed(s, desc[p], Pending)
      BY <1>2, <2>3, <2>4, <2>9 DEF Exact, Freed
  <2>11. Alone(p, s, stdio[p], Pending, offset)
      BY <1>1, <1>2, <1>12, <2>2, Same DEF Alone
  <2>12. Tidy'  BY <1>1, <1>3, <2>3, <2>4, <2>5, <2>8, <2>10, <2>11, OwnStepTidy
  <2>13. ASSUME apart[p], desc[p] = "self"
         PROVE  Undisturbed(offset, stdio[p], s, Pending)
    <3>1. Follows(offset, stdio[p])  BY <1>1, <2>13 DEF Lone, Undisturbed
    <3>2. Aimed(s) /\ Fetched(s) /\ OnTheSpot(offset, stdio[p], s)
        BY <2>3 DEF Aimed, Fetched, OnTheSpot
    <3> QED  BY <2>4, <3>1, <3>2 DEF Undisturbed
  <2>14. Lone'  BY <1>1, <1>2, <2>11, <2>13, OwnStepLone
  <2> QED  BY <2>12, <2>14 DEF Invariant
<1> QED  BY <1>10, <1>11, <1>12 DEF Extract, none
-----------------------------------------------------------------------------
(* mz_zip_reader_extract_to_mem_no_alloc1. *)
(* It gives up before it allocated anything. *)
LEMMA Undone ==
    ASSUME Tidy, Lone, NEW p \in Proc, x[p].at # "idle", x[p].phase \in {"header", "stored"},
           NEW why \in {"memory", "data"},
           apart[p] /\ desc[p] = "self" => why # "data",
           Returns(p, x[p], why)
    PROVE  Invariant'
<1>1. x[p].heap = HeldFor(x[p].phase) /\ x[p] \in Running /\ x[p].e \in Nat  BY Busy DEF Running
<1>2. x[p].heap = Held({"pBuf"})
  <2>1. {"pBuf"} \cup {} = {"pBuf"}  OBVIOUS
  <2> QED  BY <1>1, <2>1 DEF HeldFor
<1>3. x[p].buf \in Seq(Seen)  BY <1>1 DEF Running
<1> QED  BY <1>1, <1>2, <1>3, ReturnSteps

(* It returns what it has in its buffer, if that passes the comparisons. *)
LEMMA Judged ==
    ASSUME Tidy, Lone, NEW p \in Proc, x[p].at # "idle", NEW s, NEW ok,
           s.e = x[p].e, s.buf \in BufferOf(s.e), s.heap = Held({"pBuf"}),
           ok => CrcMatches(s), apart[p] /\ desc[p] = "self" => ok,
           Returns(p, s, Verdict(ok))
    PROVE  Invariant'
<1>1. x[p].e \in Entry /\ x[p].e \in Nat  BY Busy, RecordTypes
<1>2. s.buf \in Seq(Seen)  BY <1>1, BufferProperties
<1>3. CASE ok
  <2>1. s.buf = Content(s.e)  BY <1>1, <1>3, CrcJudges
  <2>2. Verdict(ok) = ""  BY <1>3 DEF Verdict
  <2> QED  BY <1>1, <1>2, <2>1, <2>2, ReturnSteps
<1>4. CASE ~ok
  <2>1. Verdict(ok) = "data"  BY <1>4 DEF Verdict
  <2> QED  BY <1>1, <1>2, <1>4, <2>1, ReturnSteps
<1> QED  BY <1>3, <1>4

LEMMA ReadsOn ==
    ASSUME Tidy, Lone, NEW p \in Proc, x[p].at # "idle",
           NEW t \in Running, NEW ph \in {"stored", "frame", "chunk"},
           NEW o \in Nat, NEW w \in Nat,
           t.e = x[p].e, o + w + t.remaining <= Len(File),
           t.buf \in BufferOf(t.e), t.heap = HeldFor(ph),
           ph = "stored" => w = Records[t.e].uncomp,
           Goes(p, Reads(t, ph, o, w)), GoesOn,
           apart[p] /\ desc[p] = "self" => Aimed(Reads(t, ph, o, w))
    PROVE  Invariant'
<1> DEFINE s == Reads(t, ph, o, w)
<1>1. x' = [x EXCEPT ![p] = s]  BY DEF Goes
<1>2. s \in Running /\ Begun(s, t, ph, o, w)  BY ReadsBegin
<1> HIDE DEF s
<1>3. /\ desc[p] \in {"self", "closed", "reused"}
      /\ stdio[p] \in OpenFile /\ ret[p] \in Answers
      /\ offset \in 0 .. Len(File) /\ calls \in 0 .. MaxCalls
      /\ x[p].e \in Entry /\ Exact(ret[p])
      /\ Len(stdio[p].buf) <= Stdio
    BY Busy
<1>4. Types  BY DEF Tidy
<1>5. Alone(p, s, stdio[p], ret[p], offset) /\ calls' = calls
    BY <1>1, <1>4, Same DEF Alone, GoesOn
<1>6. InFile(s)  BY <1>2, <1>3 DEF InFile, Begun
<1>7. Freed(s, desc[p], ret[p])  BY <1>2, <1>3 DEF Freed, Begun
<1>8. Tidy'  BY <1>2, <1>3, <1>5, <1>6, <1>7, OwnStepTidy
<1>9. ASSUME apart[p], desc[p] = "self"
      PROVE  Undisturbed(offset, stdio[p], s, ret[p])
  <2>1. Follows(offset, stdio[p]) /\ ret[p].why # "data"  BY <1>9 DEF Lone, Undisturbed
  <2>2. Aimed(s)  BY <1>9 DEF s
  <2>3. Fetched(s) /\ OnTheSpot(offset, stdio[p], s)
      BY <1>2 DEF Fetched, OnTheSpot, Begun
  <2> QED  BY <2>1, <2>2, <2>3 DEF Undisturbed
<1>10. Lone'  BY <1>3, <1>5, <1>9, OwnStepLone
<1> QED  BY <1>8, <1>10 DEF Invariant

(* The blocks of the second level: the frame, or the I/O buffer. *)
LEMMA SecondBlock ==
    ASSUME NEW phase \in {"frame", "chunk"}, NEW b, b = (IF phase = "frame" THEN "pTmp" ELSE "pRead_buf")
    PROVE  /\ Malloc(Held({"pBuf"}), b) = HeldFor(phase)
           /\ Free(HeldFor(phase), b) = Held({"pBuf"})
<1>1. {"pBuf"} \in SUBSET Block /\ b \in Block /\ b \notin {"pBuf"}  BY DEF Block
<1>2. HeldFor(phase) = Held({"pBuf"} \cup {b})  BY DEF HeldFor
<1> QED  BY <1>1, <1>2, Allocating

LEMMA FirstBlock == HeldFor("header") = Held({"pBuf"}) /\ HeldFor("stored") = Held({"pBuf"})
<1>1. {"pBuf"} \cup {} = {"pBuf"}  OBVIOUS
<1> QED  BY <1>1 DEF HeldFor

LEMMA WholeEntryRead ==
    ASSUME Tidy, Lone, NEW p \in Proc, x[p].at = "have", x[p].phase \in {"stored", "frame"},
           apart[p], desc[p] = "self"
    PROVE  ~Short(p) /\ x[p].got = Stream(x[p].e)
<1> DEFINE e == x[p].e
           got == x[p].got
<1>1. e \in Entry /\ got \in Seq(Seen)  BY Busy DEF Running
<1>2. Aimed(x[p]) /\ Fetched(x[p])  BY DEF Lone, Undisturbed
<1>3. /\ x[p].ofs = DataOf(e) /\ x[p].want = Records[e].comp
      /\ Len(got) = x[p].want /\ \A i \in 1 .. x[p].want : got[i] = File[x[p].ofs + i]
    BY <1>2 DEF Aimed, Fetched
<1>4. \A k \in 1 .. Records[e].comp : File[DataOf(e) + k] = Data(e, k)  BY <1>1, ArchiveIsSound
<1> HIDE DEF e, got
<1>5. Len(got) = Records[e].comp /\ \A k \in 1 .. Len(got) : got[k] = Data(e, k)
    BY <1>3, <1>4
<1>6. got = Stream(e)  BY <1>1, <1>5, StreamByItsCells
<1> QED  BY <1>3, <1>6 DEF e, got, Short

LEMMA StoredSteps ==
    ASSUME Invariant, NEW p \in Proc, Stored(p)
    PROVE  Invariant'
<1> DEFINE got == x[p].got
           s == [x[p] EXCEPT !.buf = got]
<1>1. Tidy /\ Lone /\ x[p].at = "have" /\ x[p].phase = "stored"  BY DEF Invariant, Stored
<1>2. apart[p] /\ desc[p] = "self" => ~Short(p) /\ got = Stream(x[p].e)
    BY <1>1, WholeEntryRead
<1>3. CASE Short(p)
  <2>1. Returns(p, x[p], "data")  BY <1>3 DEF Stored
  <2> QED  BY <1>1, <1>2, <1>3, <2>1, Undone
<1>4. CASE ~Short(p)
  <2>1. Returns(p, s, Verdict(CrcMatches(s)))  BY <1>4 DEF Stored
  <2>2. /\ x[p] \in Running /\ x[p].e \in Entry /\ got \in Seq(Seen) /\ InFile(x[p])
        /\ x[p].heap = HeldFor(x[p].phase)
      BY <1>1, Busy DEF Running
  <2>3. got \in BufferOf(x[p].e)
    <3>1. Len(got) = Records[x[p].e].uncomp  BY <1>1, <1>4, <2>2 DEF InFile, Short
    <3> QED  BY <2>2, <3>1, FullBuffer
  <2>4. s.e = x[p].e /\ s.buf = got /\ s.heap = Held({"pBuf"})
      BY <1>1, <2>2, FirstBlock DEF Running
  <2> HIDE DEF s
  <2>5. ASSUME apart[p], desc[p] = "self"
        PROVE  CrcMatches(s)
    <3>1. Records[x[p].e].method = "stored"  BY <1>1, <2>5 DEF Lone, Undisturbed, Aimed
    <3>2. s.buf = Content(s.e)  BY <1>2, <2>2, <2>4, <2>5, <3>1, StoredContent
    <3> QED  BY <2>2, <2>3, <2>4, <3>2, CrcJudges
  <2> QED  BY <1>1, <2>1, <2>3, <2>4, <2>5, Judged
<1> QED  BY <1>3, <1>4

LEMMA FrameSteps ==
    ASSUME Invariant, NEW p \in Proc, Frame(p)
    PROVE  Invariant'
<1> DEFINE t == [x[p] EXCEPT !.heap = Free(@, "pTmp")]
<1>1. Tidy /\ Lone /\ x[p].at = "have" /\ x[p].phase = "frame"  BY DEF Invariant, Frame
<1>2. apart[p] /\ desc[p] = "self" => ~Short(p) /\ x[p].got = Stream(x[p].e)
    BY <1>1, WholeEntryRead
<1>3. /\ x[p] \in Running /\ x[p].e \in Entry /\ x[p].e \in Nat
      /\ x[p].heap = HeldFor("frame") /\ x[p].buf \in BufferOf(x[p].e)
    BY <1>1, Busy DEF Running
<1>4. Free(x[p].heap, "pTmp") = Held({"pBuf"})  BY <1>3, SecondBlock
<1>5. t.heap = Held({"pBuf"}) /\ t.e = x[p].e /\ t.buf = x[p].buf
    BY <1>3, <1>4 DEF Running
<1>6. CASE Short(p) /\ Returns(p, t, "data")
  <2>1. t.buf \in Seq(Seen)  BY <1>3, <1>5, BufferProperties
  <2> HIDE DEF t
  <2> QED  BY <1>1, <1>2, <1>3, <1>5, <1>6, <2>1, ReturnSteps
<1>7. ASSUME ~Short(p), NEW d \in Decompressed(x[p].e, x[p].got),
             NEW s, s = [t EXCEPT !.made = d.made, !.buf = d.buf],
             Returns(p, s, Verdict(Whole(s) /\ CrcMatches(s)))
      PROVE  Invariant'
  <2>1. d.buf \in BufferOf(x[p].e)
    <3>1. CASE x[p].got = Stream(x[p].e)
      <4>1. d.buf = Content(x[p].e)  BY <3>1 DEF Decompressed
      <4> QED  BY <1>3, <4>1, ContentIsBuffer
    <3>2. CASE x[p].got # Stream(x[p].e)
      <4>1. d.buf \in Spoilt[x[p].e]  BY <3>2 DEF Decompressed
      <4> QED  BY <1>3, <4>1, DecoderAssumption
    <3> QED  BY <3>1, <3>2
  <2>2. s.e = x[p].e /\ s.buf = d.buf /\ s.heap = Held({"pBuf"}) /\ s.made = d.made
    <3>1. s = [x[p] EXCEPT !.heap = Held({"pBuf"}), !.made = d.made, !.buf = d.buf]
        BY <1>3, <1>4, <1>7 DEF Running
    <3> QED  BY <1>3, <3>1 DEF Running
  <2>3. ASSUME apart[p], desc[p] = "self"
        PROVE  Whole(s) /\ CrcMatches(s)
    <3>1. d = [made |-> Records[x[p].e].uncomp, buf |-> Content(x[p].e)]
        BY <1>2, <2>3 DEF Decompressed
    <3>2. s.made = Records[s.e].uncomp /\ s.buf = Content(s.e)  BY <2>2, <3>1
    <3> QED  BY <1>3, <2>1, <2>2, <3>2, CrcJudges DEF Whole
  <2> DEFINE ok == Whole(s) /\ CrcMatches(s)
  <2>4. (ok => CrcMatches(s)) /\ Returns(p, s, Verdict(ok))
        /\ (apart[p] /\ desc[p] = "self" => ok)
      BY <1>7, <2>3
  <2> HIDE DEF ok
  <2> QED  BY <1>1, <2>1, <2>2, <2>4, Judged
<1> QED  BY <1>6, <1>7 DEF Frame

LEMMA LocalEntrySteps ==
    ASSUME Invariant, NEW p \in Proc, LocalEntry(p)
    PROVE  Invariant'
<1> DEFINE e == x[p].e
           comp == Records[e].comp
           lone == apart[p] /\ desc[p] = "self"
<1>1. Tidy /\ Lone /\ x[p].at = "have" /\ x[p].phase = "header"
    BY DEF Invariant, LocalEntry
<1>2. e \in Entry /\ x[p] \in Running /\ InFile(x[p])  BY <1>1, Busy
<1>3. comp \in Nat /\ DataOf(e) \in Nat /\ Records[e].method \in Method
    BY <1>2, RecordTypes
<1>4. /\ DataOf(e) + comp <= Len(File) /\ File[Records[e].header + 1] = Header(e)
    BY <1>2, ArchiveIsSound
<1>5. ASSUME lone
      PROVE  /\ HasHeader(p) /\ InBounds(p) /\ DataAt(p) = DataOf(e)
             /\ Len(x[p].fed) = 0 /\ x[p].made = 0
  <2>1. Aimed(x[p]) /\ Fetched(x[p])  BY <1>1, <1>5 DEF Lone, Undisturbed
  <2>2. /\ x[p].ofs = Records[e].header /\ Len(x[p].fed) = 0 /\ x[p].made = 0
        /\ Len(x[p].got) = 1 /\ x[p].got[1] = File[x[p].ofs + 1]
    <3>1. x[p].ofs = Records[e].header /\ x[p].want = 1 /\ Len(x[p].fed) = 0 /\ x[p].made = 0
        BY <1>1, <2>1 DEF Aimed
    <3>2. /\ Len(x[p].got) = x[p].want
          /\ \A i \in 1 .. x[p].want : x[p].got[i] = File[x[p].ofs + i]
        BY <1>1, <2>1 DEF Fetched
    <3>3. 1 \in 1 .. x[p].want  BY <3>1
    <3> QED  BY <3>1, <3>2, <3>3
  <2>3. x[p].got[1] = Header(e) /\ x[p].got # << >>
    <3> DEFINE none == << >>
    <3>1. Len(none) = 0  BY EmptyIsSeen
    <3> HIDE DEF none
    <3>2. x[p].got # none  BY <2>2, <3>1
    <3> QED  BY <1>4, <2>2, <3>2 DEF none
  <2>4. HasHeader(p) /\ x[p].got[1].e = e  BY <2>3 DEF HasHeader, Header
  <2>5. DataAt(p) = DataOf(e)  BY <2>2, <2>4 DEF DataAt, DataOf
  <2> QED  BY <1>4, <2>2, <2>4, <2>5 DEF InBounds
<1>6. CASE ~(HasHeader(p) /\ InBounds(p)) /\ Returns(p, x[p], "data")
  <2>1. ~lone  BY <1>5, <1>6
  <2> QED  BY <1>1, <1>6, <2>1, Undone
<1>7. CASE Returns(p, x[p], "memory")  BY <1>1, <1>7, Undone
<1>8. CASE HasHeader(p) /\ InBounds(p) /\ ReadsData(p, comp) /\ GoesOn
  <2>1. DataAt(p) \in Nat /\ DataAt(p) + comp <= Len(File)
    <3>1. x[p].got \in Seq(Seen) /\ x[p].got # << >> /\ x[p].got[1].part = "header"
        BY <1>2, <1>8 DEF HasHeader, Running
    <3>2. 1 \in 1 .. Len(x[p].got)  BY <3>1, EmptySeq, LenProperties
    <3>3. x[p].got[1] \in Seen  BY <3>1, <3>2, ElementOfSeq
    <3>4. x[p].got[1].e \in Entry  BY <3>1, <3>3, SeenIsCell
    <3>5. Records[x[p].got[1].e].name \in Nat  BY <3>4, RecordTypes
    <3>6. x[p].ofs \in Nat  BY <1>2 DEF Running
    <3>7. DataAt(p) \in Nat  BY <3>5, <3>6 DEF DataAt
    <3> QED  BY <1>8, <3>7 DEF InBounds
  <2>2. x[p].remaining = 0  BY <1>1, <1>2 DEF InFile
  <2>3. x[p].buf \in BufferOf(e) /\ x[p].heap = Held({"pBuf"})
      BY <1>1, Busy, FirstBlock
  <2>4. CASE /\ Records[e].method = "stored"
             /\ Goes(p, Reads(x[p], "stored", DataAt(p), Records[e].uncomp))
    <3>1. Records[e].uncomp = comp  BY <1>2, <2>4, ArchiveIsSound
    <3>2. Goes(p, Reads(x[p], "stored", DataAt(p), comp))  BY <2>4, <3>1
    <3>3. Begun(Reads(x[p], "stored", DataAt(p), comp), x[p], "stored", DataAt(p), comp)
        BY <1>2, <1>3, <2>1, ReadsBegin
    <3>4. lone => Aimed(Reads(x[p], "stored", DataAt(p), comp))
        BY <1>5, <2>4, <3>3 DEF Begun, Aimed
    <3>5. DataAt(p) + comp + x[p].remaining <= Len(File)  BY <1>3, <2>1, <2>2
    <3> QED  BY <1>1, <1>2, <1>3, <1>8, <2>1, <2>3, <3>1, <3>2, <3>4, <3>5, FirstBlock, ReadsOn
  <2>5. CASE Goes(p, Reads([x[p] EXCEPT !.heap = Malloc(@, "pTmp")], "frame", DataAt(p), comp))
    <3> DEFINE h == Malloc(x[p].heap, "pTmp")
               t == [x[p] EXCEPT !.heap = h]
    <3>1. h = HeldFor("frame")  BY <2>3, SecondBlock
    <3>2. h \in [Block -> Int]  BY <3>1, HeldType DEF HeldFor, Block
    <3>3. Goes(p, Reads(t, "frame", DataAt(p), comp))  BY <1>2, <2>5 DEF Running
    <3> HIDE DEF h
    <3>4. /\ t \in Running /\ t.e = e /\ t.remaining = 0 /\ t.fed = x[p].fed
          /\ t.buf = x[p].buf /\ t.heap = HeldFor("frame")
        BY <1>2, <2>2, <3>1, <3>2 DEF Running
    <3> HIDE DEF t
    <3>5. Begun(Reads(t, "frame", DataAt(p), comp), t, "frame", DataAt(p), comp)
        BY <1>3, <2>1, <3>4, ReadsBegin
    <3>6. lone => Aimed(Reads(t, "frame", DataAt(p), comp))
        BY <1>5, <3>4, <3>5 DEF Begun, Aimed
    <3>7. DataAt(p) + comp + t.remaining <= Len(File)  BY <1>3, <2>1, <3>4
    <3> QED  BY <1>1, <1>2, <1>3, <1>8, <2>1, <2>3, <3>3, <3>4, <3>6, <3>7, ReadsOn
  <2>6. CASE Goes(p, Reads([x[p] EXCEPT !.heap = Malloc(@, "pRead_buf"),
                                        !.remaining = comp - MinOf(IoBuf, comp)],
                           "chunk", DataAt(p), MinOf(IoBuf, comp)))
    <3> DEFINE w == MinOf(IoBuf, comp)
               h == Malloc(x[p].heap, "pRead_buf")
               t == [x[p] EXCEPT !.heap = h, !.remaining = comp - w]
    <3>1. w \in Nat /\ comp - w \in Nat
      <4>1. w = IF IoBuf < comp THEN IoBuf ELSE comp  BY DEF MinOf
      <4>2. comp \in Nat /\ IoBuf \in Nat  BY <1>3, SelfReadAssumption
      <4> HIDE DEF comp, w
      <4> QED  BY <4>1, <4>2
    <3>2. h = HeldFor("chunk")  BY <2>3, SecondBlock
    <3>3. h \in [Block -> Int]  BY <3>2, HeldType DEF HeldFor, Block
    <3>4. Goes(p, Reads(t, "chunk", DataAt(p), w))  BY <1>2, <2>6 DEF Running
    <3> HIDE DEF w, h
    <3>5. /\ t \in Running /\ t.e = e /\ t.remaining = comp - w /\ t.fed = x[p].fed
          /\ t.buf = x[p].buf /\ t.made = x[p].made /\ t.heap = HeldFor("chunk")
        BY <1>2, <3>1, <3>2, <3>3 DEF Running
    <3> HIDE DEF t
    <3>6. Begun(Reads(t, "chunk", DataAt(p), w), t, "chunk", DataAt(p), w)
        BY <2>1, <3>1, <3>5, ReadsBegin
    <3>7. lone => Aimed(Reads(t, "chunk", DataAt(p), w))
      <4> DEFINE s == Reads(t, "chunk", DataAt(p), w)
      <4>1. /\ s.phase = "chunk" /\ s.e = e /\ s.ofs = DataAt(p) /\ s.want = w
            /\ s.remaining = comp - w /\ s.fed = x[p].fed /\ s.made = x[p].made
          BY <3>5, <3>6 DEF Begun
      <4>2. lone => DataAt(p) = DataOf(e) + Len(s.fed) /\ Len(s.fed) = 0  BY <1>3, <1>5, <4>1
      <4>3. w + (comp - w) = comp  BY <1>3, <3>1
      <4> HIDE DEF s
      <4>4. ASSUME lone
            PROVE  Aimed(s)
        <5>1. s.ofs = DataOf(s.e) + Len(s.fed)  BY <4>1, <4>2, <4>4
        <5>2. Len(s.fed) = 0 /\ s.want + s.remaining = Records[s.e].comp  BY <4>1, <4>2, <4>3, <4>4
        <5>3. Len(s.fed) + s.want + s.remaining = Records[s.e].comp
            BY <1>3, <3>1, <4>1, <5>2
        <5>4. \A i \in 1 .. Len(s.fed) : FALSE  BY <5>2
        <5>5. s.made = 0 /\ Records[s.e].uncomp \in Nat  BY <1>2, <1>5, <4>1, <4>4, RecordTypes
        <5>6. s.made <= Records[s.e].uncomp /\ \A k \in 1 .. s.made : FALSE  BY <5>5
        <5> QED  BY <4>1, <5>1, <5>3, <5>4, <5>6 DEF Aimed
      <4> QED  BY <4>4 DEF s
    <3>8. DataAt(p) + w + t.remaining <= Len(File)  BY <1>3, <2>1, <3>1, <3>5
    <3> QED  BY <1>1, <1>2, <1>8, <2>1, <2>3, <3>1, <3>4, <3>5, <3>7, <3>8, ReadsOn
  <2> QED  BY <1>8, <2>4, <2>5, <2>6 DEF ReadsData
<1> QED  BY <1>6, <1>7, <1>8 DEF LocalEntry

(* What has been read of a long entry is its beginning. *)
LEMMA BeginningRead ==
    ASSUME Tidy, Lone, NEW p \in Proc, x[p].at = "have", x[p].phase = "chunk",
           apart[p], desc[p] = "self",
           NEW out \in Seq(Seen), out = x[p].fed \o x[p].got
    PROVE  /\ ~Short(p) /\ out = SubSeq(Stream(x[p].e), 1, Len(out))
           /\ x[p].ofs + Len(x[p].got) = DataOf(x[p].e) + Len(out)
           /\ Len(out) + x[p].remaining = Records[x[p].e].comp
           /\ \A k \in 1 .. Len(out) : out[k] = Data(x[p].e, k)
           /\ x[p].remaining = 0 <=> out = Stream(x[p].e)
<1> DEFINE e == x[p].e
           got == x[p].got
           old == x[p].fed
           left == x[p].remaining
           comp == Records[e].comp
<1>1. /\ e \in Entry /\ got \in Seq(Seen) /\ old \in Seq(Seen)
      /\ left \in Nat /\ x[p].want \in Nat /\ x[p].ofs \in Nat
    BY Busy DEF Running
<1>2. Aimed(x[p]) /\ Fetched(x[p])  BY DEF Lone, Undisturbed
<1>3. /\ x[p].ofs = DataOf(e) + Len(old) /\ Len(old) + x[p].want + left = comp
      /\ \A i \in 1 .. Len(old) : old[i] = Data(e, i)
    BY <1>2 DEF Aimed
<1>4. Len(got) = x[p].want /\ \A i \in 1 .. x[p].want : got[i] = File[x[p].ofs + i]
    BY <1>2 DEF Fetched
<1>5. \A k \in 1 .. comp : File[DataOf(e) + k] = Data(e, k)  BY <1>1, ArchiveIsSound
<1>6. comp \in Nat /\ DataOf(e) \in Nat  BY <1>1, RecordTypes
<1>7. out = old \o got  OBVIOUS
<1> HIDE DEF e, got, old, left, comp
<1>8. /\ Len(old) \in Nat /\ Len(got) \in Nat /\ Len(out) = Len(old) + Len(got)
      /\ \A i \in 1 .. Len(old) + Len(got) : out[i] = IF i <= Len(old) THEN old[i] ELSE got[i - Len(old)]
    BY <1>1, <1>7, ConcatProperties, LenProperties
<1>9. Len(out) \in Nat /\ Len(out) + left = comp  BY <1>1, <1>3, <1>4, <1>8
<1>10. ASSUME NEW k \in 1 .. Len(out)
       PROVE  out[k] = Data(e, k)
  <2>1. k \in 1 .. Len(old) + Len(got) /\ k \in 1 .. comp /\ k \in Nat
      BY <1>1, <1>8, <1>9
  <2>2. out[k] = IF k <= Len(old) THEN old[k] ELSE got[k - Len(old)]  BY <1>8, <2>1
  <2>3. CASE k <= Len(old)
    <3>1. k \in 1 .. Len(old)  BY <1>8, <2>1, <2>3
    <3> QED  BY <1>3, <2>2, <2>3, <3>1
  <2>4. CASE k > Len(old)
    <3>1. k - Len(old) \in 1 .. x[p].want  BY <1>4, <1>8, <2>1, <2>4
    <3>2. got[k - Len(old)] = File[x[p].ofs + (k - Len(old))]  BY <1>4, <3>1
    <3>3. x[p].ofs + (k - Len(old)) = DataOf(e) + k  BY <1>3, <1>6, <1>8, <2>1
    <3>4. File[DataOf(e) + k] = Data(e, k)  BY <1>5, <2>1
    <3>5. ~(k <= Len(old))  BY <1>8, <2>1, <2>4
    <3> QED  BY <2>2, <3>2, <3>3, <3>4, <3>5
  <2>5. k <= Len(old) \/ k > Len(old)
    <3>1. k \in Nat /\ Len(old) \in Nat  BY <1>8, <2>1
    <3> QED  BY <3>1
  <2> QED  BY <2>3, <2>4, <2>5
<1>11. /\ Stream(e) \in Seq(Seen) /\ Len(Stream(e)) = comp
       /\ \A k \in 1 .. comp : Stream(e)[k] = Data(e, k)
    BY <1>1, StreamIsSeen DEF comp
<1>12. left = 0 => out = Stream(e)
  <2>1. left = 0 => Len(out) = comp
    <3> DEFINE n == Len(out)
    <3>1. n \in Nat /\ n + left = comp  BY <1>9
    <3> HIDE DEF n
    <3>2. left = 0 => n = comp  BY <3>1
    <3> QED  BY <3>2 DEF n
  <2> QED  BY <1>1, <1>10, <2>1, StreamByItsCells DEF comp
<1>13. out = SubSeq(Stream(e), 1, Len(out))
  <2> DEFINE n == Len(out)
             part == SubSeq(Stream(e), 1, n)
  <2>1. n \in Nat /\ n <= comp
    <3>1. n \in Nat /\ n + left = comp /\ comp \in Nat /\ left \in Nat
        BY <1>1, <1>6, <1>9
    <3> HIDE DEF n
    <3> QED  BY <3>1
  <2>2. \A i \in 1 .. n : i \in 1 .. comp
    <3> HIDE DEF n
    <3> QED  BY <1>6, <2>1
  <2>3. \A i \in 1 .. n : Stream(e)[i] \in Seen  BY <1>11, <2>2, ElementOfSeq
  <2> HIDE DEF n
  <2>4. /\ part \in Seq(Seen) /\ Len(part) = IF 1 <= n THEN n - 1 + 1 ELSE 0
        /\ \A i \in 1 .. n - 1 + 1 : part[i] = Stream(e)[1 + i - 1]
      BY <2>1, <2>3, SubSeqProperties
  <2>5. Len(part) = n /\ \A i \in 1 .. n : part[i] = Stream(e)[i]  BY <2>1, <2>4
  <2> HIDE DEF part
  <2>6. \A i \in 1 .. n : out[i] = part[i]  BY <1>10, <1>11, <2>2, <2>5 DEF n
  <2> QED  BY <2>4, <2>5, <2>6, SeqEqual DEF n, part
<1>14. out = Stream(e) => left = 0
  <2> DEFINE n == Len(out)
  <2>1. n \in Nat /\ n + left = comp  BY <1>9
  <2>2. out = Stream(e) => n = comp  BY <1>11
  <2> HIDE DEF n
  <2> QED  BY <1>1, <1>6, <2>1, <2>2
<1>15. ~Short(p)  BY <1>4 DEF Short, got
<1>16. x[p].ofs + Len(got) = DataOf(e) + Len(out)  BY <1>3, <1>6, <1>8
<1> QED  BY <1>9, <1>10, <1>12, <1>13, <1>14, <1>15, <1>16 DEF e, got, left, comp

(* What an inflater may leave: the state it was given, with more of the      *)
(* buffer written.                                                           *)
LEMMA InflatesWrites ==
    ASSUME NEW t \in Running, t.e \in Entry, t.buf \in BufferOf(t.e),
           NEW cells \in BufferOf(t.e), NEW n \in Nat, NEW status,
           NEW d, d = Inflates(t, status, cells, n)
    PROVE  /\ d.status = status /\ d.s \in Running /\ d.s.buf \in BufferOf(t.e) /\ d.s.made = n
           /\ d.s.e = t.e /\ d.s.heap = t.heap /\ d.s.remaining = t.remaining /\ d.s.fed = t.fed
           /\ \A k \in 1 .. Records[t.e].uncomp :
                d.s.buf[k] = IF t.made < k /\ k <= n THEN cells[k] ELSE t.buf[k]
<1> DEFINE w == Written(t, cells, n)
<1>1. w = [k \in 1 .. Records[t.e].uncomp |-> IF t.made < k /\ k <= n THEN cells[k] ELSE t.buf[k]]
    BY DEF Written
<1>2. \A k \in 1 .. Records[t.e].uncomp : cells[k] \in Seen /\ t.buf[k] \in Seen
    BY BufferProperties
<1>3. w \in BufferOf(t.e)  BY <1>1, <1>2 DEF BufferOf
<1>4. w \in Seq(Seen)  BY <1>3, BufferProperties
<1> DEFINE u == [t EXCEPT !.made = n, !.buf = w]
<1>5. d = [status |-> status, s |-> u]  BY DEF Inflates
<1>6. \A k \in 1 .. Records[t.e].uncomp : w[k] = IF t.made < k /\ k <= n THEN cells[k] ELSE t.buf[k]
    BY <1>1
<1> HIDE DEF w
<1>7. /\ u \in Running /\ u.buf = w /\ u.made = n
      /\ u.e = t.e /\ u.heap = t.heap /\ u.remaining = t.remaining /\ u.fed = t.fed
    BY <1>4 DEF Running
<1> HIDE DEF u
<1>8. d.status = status /\ d.s = u  BY <1>5
<1> QED  BY <1>3, <1>6, <1>7, <1>8

LEMMA InflatedFrom ==
    ASSUME NEW t \in Running, t.e \in Entry, NEW d \in Inflated(t)
    PROVE  /\ \E status \in {"done", "failed", "more"}, cells \in BufferOf(t.e), n \in Nat :
                 d = Inflates(t, status, cells, n)
           /\ d.status = "more" => t.remaining > 0
<1> DEFINE e == t.e
           rest == t.made .. Records[e].uncomp
           first == SubSeq(Stream(e), 1, Len(t.fed))
<1>1. Content(e) \in BufferOf(e) /\ \A c \in Spoilt[e] : c \in BufferOf(e)
    BY ContentIsBuffer, DecoderAssumption
<1>2. \A status, cells, n : Inflates(t, status, cells, n).status = status
    BY DEF Inflates
<1>3. Records[e].uncomp \in Nat /\ \A n \in rest : n \in Nat
  <2>1. Records[e].uncomp \in Nat /\ t.made \in Nat  BY RecordTypes DEF Running
  <2> QED  BY <2>1
<1> HIDE DEF rest, first
<1>4. CASE t.fed = Stream(e)
  <2>1. d = Inflates(t, "done", Content(e), Records[e].uncomp)  BY <1>4 DEF Inflated
  <2> QED  BY <1>1, <1>2, <1>3, <2>1
<1>5. CASE t.fed # Stream(e) /\ t.remaining > 0 /\ t.fed = first
  <2>1. PICK n \in rest : d = Inflates(t, "more", Content(e), n)
      BY <1>5 DEF Inflated, rest, first
  <2> QED  BY <1>1, <1>3, <1>5, <2>1
<1>6. CASE t.fed # Stream(e) /\ ~(t.remaining > 0 /\ t.fed = first)
  <2>1. PICK status \in {"done", "failed"} \cup (IF t.remaining > 0 THEN {"more"} ELSE {}),
             cells \in Spoilt[e], n \in rest : d = Inflates(t, status, cells, n)
      BY <1>6 DEF Inflated, rest, first
  <2>2. status \in {"done", "failed", "more"} /\ (status = "more" => t.remaining > 0)
      BY <2>1
  <2>3. cells \in BufferOf(e) /\ n \in Nat  BY <1>1, <1>3
  <2>4. d.status = status  BY <1>2, <2>1
  <2> QED  BY <2>1, <2>2, <2>3, <2>4
<1> QED  BY <1>4, <1>5, <1>6

(* What it leaves of the beginning of a stream is the beginning of the entry, *)
(* and of the whole stream the entry.                                         *)
LEMMA InflatedRight ==
    ASSUME NEW t \in Running, t.e \in Entry, t.buf \in BufferOf(t.e), NEW d \in Inflated(t),
           t.fed = SubSeq(Stream(t.e), 1, Len(t.fed)), t.remaining = 0 <=> t.fed = Stream(t.e),
           t.made <= Records[t.e].uncomp, \A k \in 1 .. t.made : t.buf[k] = Content(t.e)[k]
    PROVE  /\ d.s.made <= Records[t.e].uncomp
           /\ \A k \in 1 .. d.s.made : d.s.buf[k] = Content(t.e)[k]
           /\ d.status # "more" =>
                d.status = "done" /\ d.s.made = Records[t.e].uncomp /\ d.s.buf = Content(t.e)
<1> DEFINE e == t.e
           size == Records[e].uncomp
           made == t.made
<1>1. Content(e) \in BufferOf(e) /\ size \in Nat /\ made \in Nat /\ t.remaining \in Nat
    BY ContentIsBuffer, RecordTypes DEF Running
<1>2. PICK status \in {"done", "more"}, n \in made .. size :
        /\ d = Inflates(t, status, Content(e), n)
        /\ status = "more" \/ (status = "done" /\ n = size)
  <2>1. CASE t.fed = Stream(e)
    <3>1. d = Inflates(t, "done", Content(e), size)  BY <2>1 DEF Inflated
    <3>2. size \in made .. size  BY <1>1
    <3> QED  BY <3>1, <3>2
  <2>2. CASE t.fed # Stream(e)
    <3>1. t.remaining > 0  BY <1>1, <2>2
    <3>2. \E n \in made .. size : d = Inflates(t, "more", Content(e), n)
        BY <2>2, <3>1 DEF Inflated
    <3> QED  BY <3>2
  <2> QED  BY <2>1, <2>2
<1>3. n \in Nat /\ n <= size /\ made <= n
  <2> HIDE DEF size, made
  <2> QED  BY <1>1
<1>4. /\ d.status = status /\ d.s.buf \in BufferOf(e) /\ d.s.made = n
      /\ \A k \in 1 .. size : d.s.buf[k] = IF made < k /\ k <= n THEN Content(e)[k] ELSE t.buf[k]
    BY <1>1, <1>2, <1>3, InflatesWrites
<1>5. \A k \in 1 .. made : t.buf[k] = Content(e)[k]  OBVIOUS
<1>6. ASSUME NEW k \in 1 .. n
      PROVE  d.s.buf[k] = Content(e)[k]
  <2> HIDE DEF size, made
  <2>1. k \in 1 .. size /\ (made < k \/ k \in 1 .. made) /\ k <= n  BY <1>1, <1>3
  <2> QED  BY <1>4, <1>5, <2>1
<1>7. n = size => d.s.buf = Content(e)
  <2>1. /\ d.s.buf \in Seq(Seen) /\ Len(d.s.buf) = size
        /\ Content(e) \in Seq(Seen) /\ Len(Content(e)) = size
      BY <1>1, <1>4, BufferProperties
  <2> HIDE DEF size, made
  <2>2. ASSUME n = size PROVE d.s.buf = Content(e)
    <3>1. \A k \in 1 .. Len(d.s.buf) : d.s.buf[k] = Content(e)[k]  BY <1>6, <2>1, <2>2
    <3> QED  BY <2>1, <3>1, SeqEqual
  <2> QED  BY <2>2
<1> QED  BY <1>2, <1>3, <1>4, <1>6, <1>7

(* Behind the loop. *)
LEMMA LoopEndSteps ==
    ASSUME Tidy, Lone, NEW p \in Proc, x[p].at # "idle", x[p].phase = "chunk",
           NEW s \in Running, s.e = x[p].e, s.buf \in BufferOf(s.e), s.heap = HeldFor("chunk"),
           NEW status,
           apart[p] /\ desc[p] = "self" => status = "done" /\ Whole(s) /\ s.buf = Content(s.e),
           LoopEnds(p, s, status)
    PROVE  Invariant'
<1> DEFINE h == Free(s.heap, "pRead_buf")
           t == [s EXCEPT !.heap = h]
           ok == status = "done" /\ Whole(s) /\ CrcMatches(s)
<1>1. h = Held({"pBuf"})  BY SecondBlock
<1>2. Returns(p, t, Verdict(ok))  BY DEF LoopEnds
<1> HIDE DEF h
<1>3. t.e = x[p].e /\ t.buf = s.buf /\ t.heap = Held({"pBuf"})  BY <1>1 DEF Running
<1> HIDE DEF t
<1>4. CrcMatches(s) <=> CrcMatches(t)  BY <1>3 DEF CrcMatches
<1>5. x[p].e \in Entry  BY Busy
<1>6. (ok => CrcMatches(t)) /\ (apart[p] /\ desc[p] = "self" => ok)
  <2>1. s.buf = Content(s.e) => CrcMatches(s)  BY <1>5, CrcJudges
  <2> QED  BY <1>4, <2>1
<1> HIDE DEF ok
<1> QED  BY <1>2, <1>3, <1>6, Judged

LEMMA ChunkSteps ==
    ASSUME Invariant, NEW p \in Proc, Chunk(p)
    PROVE  Invariant'
<1> DEFINE e == x[p].e
           out == x[p].fed \o x[p].got
           left == x[p].remaining
           next == MinOf(IoBuf, left)
           lone == apart[p] /\ desc[p] = "self"
           t == [x[p] EXCEPT !.fed = out]
<1>1. Tidy /\ Lone /\ x[p].at = "have" /\ x[p].phase = "chunk"  BY DEF Invariant, Chunk
<1>2. /\ x[p] \in Running /\ e \in Entry /\ InFile(x[p])
      /\ x[p].heap = HeldFor("chunk") /\ x[p].buf \in BufferOf(e)
      /\ x[p].got \in Seq(Seen) /\ x[p].fed \in Seq(Seen) /\ x[p].made \in Nat
      /\ left \in Nat /\ x[p].ofs \in Nat /\ x[p].want \in Nat
    BY <1>1, Busy DEF Running
<1>3. out \in Seq(Seen) /\ Len(x[p].got) \in Nat /\ Len(out) \in Nat
    BY <1>2, ConcatProperties, LenProperties
<1>4. lone => /\ ~Short(p) /\ out = SubSeq(Stream(e), 1, Len(out))
              /\ x[p].ofs + Len(x[p].got) = DataOf(e) + Len(out)
              /\ Len(out) + left = Records[e].comp
              /\ \A k \in 1 .. Len(out) : out[k] = Data(e, k)
              /\ left = 0 <=> out = Stream(e)
    BY <1>1, <1>3, BeginningRead
<1>5. lone => /\ x[p].made <= Records[e].uncomp
              /\ \A k \in 1 .. x[p].made : x[p].buf[k] = Content(e)[k]
    BY <1>1 DEF Lone, Undisturbed, Aimed
<1>6. \/ Short(p) /\ LoopEnds(p, x[p], "failed")
      \/ /\ ~Short(p)
         /\ \E d \in Inflated(t) :
              \/ d.status # "more" /\ LoopEnds(p, d.s, d.status)
              \/ /\ d.status = "more"
                 /\ Goes(p, Reads([d.s EXCEPT !.remaining = @ - next],
                                  "chunk", x[p].ofs + Len(x[p].got), next))
                 /\ GoesOn
    BY DEF Chunk
<1> HIDE DEF out
<1>7. /\ t \in Running /\ t.e = e /\ t.fed = out /\ t.remaining = left /\ t.buf = x[p].buf
      /\ t.made = x[p].made /\ t.heap = HeldFor("chunk")
    BY <1>2, <1>3 DEF Running
<1> HIDE DEF t
<1>8. CASE Short(p) /\ LoopEnds(p, x[p], "failed")
    BY <1>1, <1>2, <1>4, <1>8, LoopEndSteps
<1>9. ASSUME ~Short(p), NEW d \in Inflated(t)
      PROVE  /\ d.s \in Running /\ d.s.e = e /\ d.s.buf \in BufferOf(e) /\ d.s.fed = out
             /\ d.s.remaining = left /\ d.s.heap = HeldFor("chunk")
             /\ d.status = "more" => left > 0
  <2>1. /\ \E status \in {"done", "failed", "more"}, cells \in BufferOf(e), n \in Nat :
                 d = Inflates(t, status, cells, n)
        /\ d.status = "more" => left > 0
      BY <1>2, <1>7, <1>9, InflatedFrom
  <2>2. PICK status \in {"done", "failed", "more"}, cells \in BufferOf(e), n \in Nat :
                 d = Inflates(t, status, cells, n)
      BY <2>1
  <2>3. t.e \in Entry /\ t.buf \in BufferOf(t.e) /\ cells \in BufferOf(t.e)  BY <1>2, <1>7
  <2>4. /\ d.s \in Running /\ d.s.buf \in BufferOf(t.e)
        /\ d.s.e = t.e /\ d.s.heap = t.heap /\ d.s.remaining = t.remaining /\ d.s.fed = t.fed
      BY <1>7, <2>2, <2>3, InflatesWrites
  <2> QED  BY <1>7, <2>1, <2>4
<1>10. ASSUME lone, NEW d \in Inflated(t)
       PROVE  /\ d.s.made <= Records[e].uncomp
              /\ \A k \in 1 .. d.s.made : d.s.buf[k] = Content(e)[k]
              /\ d.status # "more" =>
                    d.status = "done" /\ d.s.made = Records[e].uncomp /\ d.s.buf = Content(e)
  <2>1. t.e \in Entry /\ t.buf \in BufferOf(t.e)  BY <1>2, <1>7
  <2>2. t.fed = SubSeq(Stream(t.e), 1, Len(t.fed)) /\ (t.remaining = 0 <=> t.fed = Stream(t.e))
      BY <1>4, <1>7, <1>10
  <2>3. t.made <= Records[t.e].uncomp /\ \A k \in 1 .. t.made : t.buf[k] = Content(t.e)[k]
      BY <1>5, <1>7, <1>10
  <2>4. /\ d.s.made <= Records[t.e].uncomp
        /\ \A k \in 1 .. d.s.made : d.s.buf[k] = Content(t.e)[k]
        /\ d.status # "more" =>
              d.status = "done" /\ d.s.made = Records[t.e].uncomp /\ d.s.buf = Content(t.e)
      BY <1>7, <2>1, <2>2, <2>3, InflatedRight
  <2> QED  BY <1>7, <2>4
<1>11. ASSUME ~Short(p), NEW d \in Inflated(t), d.status # "more", LoopEnds(p, d.s, d.status)
       PROVE  Invariant'
  <2>1. /\ d.s \in Running /\ d.s.e = e /\ d.s.buf \in BufferOf(d.s.e)
        /\ d.s.heap = HeldFor("chunk")
      BY <1>9, <1>11
  <2>2. lone => d.status = "done" /\ Whole(d.s) /\ d.s.buf = Content(d.s.e)
      BY <1>10, <1>11, <2>1 DEF Whole
  <2> QED  BY <1>1, <1>11, <2>1, <2>2, LoopEndSteps
<1>12. ASSUME ~Short(p), NEW d \in Inflated(t), d.status = "more", GoesOn,
              Goes(p, Reads([d.s EXCEPT !.remaining = @ - next],
                            "chunk", x[p].ofs + Len(x[p].got), next))
       PROVE  Invariant'
  <2> DEFINE u == [d.s EXCEPT !.remaining = left - next]
             o == x[p].ofs + Len(x[p].got)
  <2>1. next \in Nat /\ left - next \in Nat
    <3>1. next = IF IoBuf < left THEN IoBuf ELSE left  BY DEF MinOf
    <3>2. left \in Nat /\ IoBuf \in Nat  BY <1>2, SelfReadAssumption
    <3> HIDE DEF left, next
    <3> QED  BY <3>1, <3>2
  <2>2. /\ d.s \in Running /\ d.s.e = e /\ d.s.buf \in BufferOf(e) /\ d.s.fed = out
        /\ d.s.remaining = left /\ d.s.heap = HeldFor("chunk")
      BY <1>9, <1>12
  <2>3. Goes(p, Reads(u, "chunk", o, next)) /\ GoesOn  BY <1>12, <2>2 DEF Running
  <2> HIDE DEF next
  <2>4. /\ u \in Running /\ u.e = e /\ u.remaining = left - next /\ u.fed = out
        /\ u.buf = d.s.buf /\ u.made = d.s.made /\ u.heap = HeldFor("chunk")
      BY <2>1, <2>2 DEF Running
  <2>5. o \in Nat /\ Len(x[p].got) = x[p].want  BY <1>2, <1>3, <1>12 DEF Short
  <2>6. o + next + u.remaining <= Len(File)
    <3>1. x[p].ofs + x[p].want + left <= Len(File)  BY <1>2 DEF InFile
    <3>2. Len(File) \in Nat  BY FileIsSeen, LenProperties
    <3> HIDE DEF u, left
    <3> QED  BY <1>2, <2>1, <2>4, <2>5, <3>1, <3>2
  <2> HIDE DEF u, o
  <2>7. Begun(Reads(u, "chunk", o, next), u, "chunk", o, next)
      BY <2>1, <2>4, <2>5, ReadsBegin
  <2>8. ASSUME lone
        PROVE  Aimed(Reads(u, "chunk", o, next))
    <3> DEFINE s == Reads(u, "chunk", o, next)
    <3>1. /\ s.phase = "chunk" /\ s.e = e /\ s.ofs = o /\ s.want = next
          /\ s.remaining = left - next /\ s.fed = out /\ s.made = d.s.made /\ s.buf = d.s.buf
        BY <2>4, <2>7 DEF Begun
    <3> HIDE DEF s
    <3>2. o = DataOf(e) + Len(out)  BY <1>4, <2>8 DEF o
    <3>3. Len(out) + next + (left - next) = Records[e].comp
        BY <1>2, <1>3, <1>4, <2>1, <2>8
    <3>4. \A k \in 1 .. Len(s.fed) : s.fed[k] = Data(s.e, k)  BY <1>4, <2>8, <3>1
    <3>5. s.made <= Records[s.e].uncomp /\ \A k \in 1 .. s.made : s.buf[k] = Content(s.e)[k]
        BY <1>10, <1>12, <2>8, <3>1
    <3>6. Aimed(s)  BY <3>1, <3>2, <3>3, <3>4, <3>5 DEF Aimed
    <3> QED  BY <3>6 DEF s
  <2> QED  BY <1>1, <2>1, <2>2, <2>3, <2>4, <2>5, <2>6, <2>8, ReadsOn
<1> QED  BY <1>6, <1>8, <1>11, <1>12
-----------------------------------------------------------------------------
(* What the program does. *)
LEMMA ForkSteps ==
    ASSUME Invariant, NEW p \in Proc, Fork(p)
    PROVE  Invariant'
<1>1. Tidy /\ Lone /\ Types /\ Parent \in Proc
    BY SelfReadAssumption DEF Invariant, Tidy
<1>2. /\ desc[Parent] # "none" /\ desc[p] = "none" /\ p # Parent
      /\ desc' = [desc EXCEPT ![p] = desc[Parent]]
      /\ stdio' = [stdio EXCEPT ![p] = stdio[Parent]]
      /\ UNCHANGED <<offset, x, ret, calls, apart>>
    BY DEF Fork
<1>3. x[p].at = "idle" /\ ret[p].why # "data"  BY <1>1, <1>2 DEF Tidy, Freed
<1>4. /\ desc'[p] = desc[Parent] /\ stdio'[p] = stdio[Parent]
      /\ \A q \in Proc : q # p => desc'[q] = desc[q] /\ stdio'[q] = stdio[q]
    BY <1>1, <1>2 DEF Types
<1>5. Types'
  <2>1. desc' \in [Proc -> {"none", "self", "closed", "reused"}]  BY <1>1, <1>2 DEF Types
  <2>2. stdio' \in [Proc -> OpenFile]  BY <1>1, <1>2 DEF Types
  <2> QED  BY <1>1, <1>2, <2>1, <2>2 DEF Types
<1>6. ASSUME NEW q \in Proc
      PROVE  /\ Len(stdio'[q].buf) <= Stdio /\ InFile(x'[q])
             /\ Exact(ret'[q]) /\ Freed(x'[q], desc'[q], ret'[q])
  <2>1. CASE q = p  BY <1>1, <1>2, <1>4, <2>1 DEF Tidy, Freed
  <2>2. CASE q # p  BY <1>1, <1>2, <1>4, <2>2 DEF Tidy
  <2> QED  BY <2>1, <2>2
<1>7. Tidy'  BY <1>5, <1>6 DEF Tidy, InFile, Exact, Freed, Content, BufferOf, HeldFor, Held
<1>8. ASSUME NEW q \in Proc, apart'[q], desc'[q] = "self"
      PROVE  Undisturbed(offset', stdio'[q], x'[q], ret'[q])
  <2>1. CASE q = p
    <3>1. Follows(offset', stdio'[q])  BY <1>1, <1>2, <1>4, <1>8, <2>1 DEF Lone
    <3> QED  BY <1>2, <1>3, <2>1, <3>1 DEF Undisturbed, OnTheSpot, Fetched
  <2>2. CASE q # p  BY <1>1, <1>2, <1>4, <1>8, <2>2 DEF Lone
  <2> QED  BY <2>1, <2>2
<1>9. ASSUME NEW q \in Proc, apart'[q], desc'[q] = "none", desc'[Parent] = "self"
      PROVE  Follows(offset', stdio'[Parent])
  <2>1. q # p  BY <1>2, <1>4, <1>9
  <2> QED  BY <1>1, <1>2, <1>4, <1>9, <2>1 DEF Lone
<1>10. Lone'  BY <1>8, <1>9 DEF Lone, Undisturbed, Follows, Aimed, OnTheSpot, Fetched, Data, DataOf, Content
<1> QED  BY <1>7, <1>10 DEF Invariant

LEMMA CloseSteps ==
    ASSUME Invariant, NEW p \in Proc, ProgramCloses(p)
    PROVE  Invariant'
<1> DEFINE d == IF desc[p] = "self" THEN "closed" ELSE "reused"
<1>1. Tidy /\ Lone /\ Types /\ Parent \in Proc
    BY SelfReadAssumption DEF Invariant, Tidy
<1>2. /\ desc[p] # "none" /\ desc' = [desc EXCEPT ![p] = d] /\ d \in {"closed", "reused"}
      /\ UNCHANGED <<offset, stdio, x, ret, calls, apart>>
    BY DEF ProgramCloses
<1> HIDE DEF d
<1>3. /\ desc'[p] = d
      /\ \A q \in Proc : q # p => desc'[q] = desc[q]
    BY <1>1, <1>2 DEF Types
<1>4. Types'
  <2>1. desc' \in [Proc -> {"none", "self", "closed", "reused"}]  BY <1>1, <1>2 DEF Types
  <2> QED  BY <1>1, <1>2, <2>1 DEF Types
<1>5. ASSUME NEW q \in Proc
      PROVE  /\ Len(stdio'[q].buf) <= Stdio /\ InFile(x'[q])
             /\ Exact(ret'[q]) /\ Freed(x'[q], desc'[q], ret'[q])
  <2>1. Freed(x[q], desc'[q], ret[q])
    <3>1. Freed(x[q], desc[q], ret[q])  BY <1>1 DEF Tidy
    <3>2. desc'[q] = desc[q] \/ desc'[q] # "none"  BY <1>2, <1>3
    <3> QED  BY <3>1, <3>2 DEF Freed
  <2> QED  BY <1>1, <1>2, <2>1 DEF Tidy
<1>6. Tidy'  BY <1>4, <1>5 DEF Tidy, InFile, Exact, Freed, Content, BufferOf, HeldFor, Held
<1>7. ASSUME NEW q \in Proc, apart'[q], desc'[q] = "self"
      PROVE  Undisturbed(offset', stdio'[q], x'[q], ret'[q])
  <2>1. q # p  BY <1>2, <1>3, <1>7
  <2> QED  BY <1>1, <1>2, <1>3, <1>7, <2>1 DEF Lone
<1>8. ASSUME NEW q \in Proc, apart'[q], desc'[q] = "none", desc'[Parent] = "self"
      PROVE  Follows(offset', stdio'[Parent])
  <2>1. q # p /\ Parent # p  BY <1>2, <1>3, <1>8
  <2> QED  BY <1>1, <1>2, <1>3, <1>8, <2>1 DEF Lone
<1>9. Lone'  BY <1>7, <1>8 DEF Lone, Undisturbed, Follows, Aimed, OnTheSpot, Fetched, Data, DataOf, Content
<1> QED  BY <1>6, <1>9 DEF Invariant

LEMMA Beginning == Init => Invariant
<1> SUFFICES ASSUME Init PROVE Invariant  OBVIOUS
<1> DEFINE none == << >>
           f == [end |-> 0, buf |-> none]
           r == Answer(1, FALSE, none, "none")
<1>1. none \in Seq(Seen) /\ Len(none) = 0  BY EmptyIsSeen
<1>2. /\ offset = 0 /\ calls = 0 /\ stdio = [p \in Proc |-> f]
      /\ desc = [p \in Proc |-> IF p = Parent THEN "self" ELSE "none"]
      /\ x = [p \in Proc |-> Idle] /\ ret = [p \in Proc |-> r] /\ apart = [p \in Proc |-> TRUE]
    BY DEF Init, Pending
<1> HIDE DEF none
<1>3. f \in OpenFile /\ f.end = 0 /\ f.buf = none  BY <1>1 DEF OpenFile
<1>4. r \in Answers /\ r.ok = FALSE /\ r.why = "none"  BY <1>1 DEF Answer, Answers
<1> HIDE DEF f, r
<1>5. Len(File) \in Nat /\ Stdio \in Nat /\ MaxCalls \in Nat
    BY FileIsSeen, LenProperties, SelfReadAssumption
<1>6. /\ Idle \in Running /\ Idle.at = "idle" /\ InFile(Idle) /\ Fetched(Idle)
      /\ OnTheSpot(0, f, Idle) /\ Idle.heap = Held({})
  <2>1. InFile(Idle)  BY <1>5, IdleRuns DEF InFile
  <2> QED  BY <2>1, IdleRuns DEF Fetched, OnTheSpot
<1>7. Types
  <2>1. stdio \in [Proc -> OpenFile] /\ x \in [Proc -> Running] /\ ret \in [Proc -> Answers]
      BY <1>2, <1>3, <1>4, <1>6
  <2>2. desc \in [Proc -> {"none", "self", "closed", "reused"}] /\ apart \in [Proc -> BOOLEAN]
      BY <1>2
  <2> QED  BY <1>2, <1>5, <2>1, <2>2 DEF Types
<1>8. ASSUME NEW p \in Proc
      PROVE  stdio[p] = f /\ x[p] = Idle /\ ret[p] = r
    BY <1>2
<1>9. Exact(r) /\ \A d : Freed(Idle, d, r)  BY <1>4, <1>6 DEF Exact, Freed
<1>10. Tidy  BY <1>1, <1>3, <1>5, <1>6, <1>7, <1>8, <1>9 DEF Tidy
<1>11. Follows(0, f)  BY <1>1, <1>3 DEF Follows
<1>12. Undisturbed(0, f, Idle, r)  BY <1>4, <1>6, <1>11 DEF Undisturbed
<1>13. Lone  BY <1>2, <1>8, <1>11, <1>12, SelfReadAssumption DEF Lone
<1> QED  BY <1>10, <1>13 DEF Invariant

LEMMA Idles ==
    ASSUME Invariant, UNCHANGED vars
    PROVE  Invariant'
<1>1. /\ offset' = offset /\ stdio' = stdio /\ desc' = desc /\ x' = x /\ ret' = ret
      /\ calls' = calls /\ apart' = apart
    BY DEF vars
<1>2. Types'  BY <1>1 DEF Invariant, Tidy, Types
<1>3. ASSUME NEW q \in Proc
      PROVE  /\ Len(stdio'[q].buf) <= Stdio /\ InFile(x'[q])
             /\ Exact(ret'[q]) /\ Freed(x'[q], desc'[q], ret'[q])
    BY <1>1 DEF Invariant, Tidy
<1>4. Tidy'  BY <1>2, <1>3 DEF Tidy, InFile, Exact, Freed, Content, BufferOf, HeldFor, Held
<1>5. ASSUME NEW q \in Proc, apart'[q], desc'[q] = "self"
      PROVE  Undisturbed(offset', stdio'[q], x'[q], ret'[q])
    BY <1>1, <1>5 DEF Invariant, Lone
<1>6. ASSUME NEW q \in Proc, apart'[q], desc'[q] = "none", desc'[Parent] = "self"
      PROVE  Follows(offset', stdio'[Parent])
    BY <1>1, <1>6 DEF Invariant, Lone
<1>7. Lone'
    BY <1>5, <1>6 DEF Lone, Undisturbed, Follows, Aimed, OnTheSpot, Fetched, Data, DataOf, Content
<1> QED  BY <1>4, <1>7 DEF Invariant

THEOREM InvariantHolds == Spec => []Invariant
<1>1. Init => Invariant  BY Beginning
<1>2. Invariant /\ [Next]_vars => Invariant'
  <2> SUFFICES ASSUME Invariant, [Next]_vars PROVE Invariant'  OBVIOUS
  <2>1. CASE UNCHANGED vars  BY <2>1, Idles
  <2>2. ASSUME NEW p \in Proc, Fork(p)
        PROVE  Invariant'
      BY <2>2, ForkSteps
  <2>3. ASSUME NEW p \in Proc, ProgramCloses(p)
        PROVE  Invariant'
      BY <2>3, CloseSteps
  <2>4. ASSUME NEW p \in Proc, NEW e \in Entry, Extract(p, e)
        PROVE  Invariant'
      BY <2>4, ExtractSteps
  <2>5. ASSUME NEW p \in Proc, Step(p)
        PROVE  Invariant'
      BY <2>5, TellSteps, SeekSteps, ReadSteps, LocalEntrySteps, StoredSteps, FrameSteps,
         ChunkSteps DEF Step
  <2> QED  BY <2>1, <2>2, <2>3, <2>4, <2>5 DEF Next
<1> QED  BY <1>1, <1>2, PTL DEF Spec
-----------------------------------------------------------------------------
(* An extraction that succeeds hands out the entry, whatever happened to    *)
(* the offset and the descriptor between its reads, and whatever a decoder  *)
(* wrote when it was given other bytes: on each of the three ways nothing   *)
(* is handed out that has not passed its comparison (ExtractIsExact).       *)
THEOREM ExtractionIsExact == Spec => []ExtractIsExact
<1>1. Invariant => ExtractIsExact  BY DEF Invariant, Tidy, Exact, ExtractIsExact
<1> QED  BY <1>1, InvariantHolds, PTL

(* Reads stay in the file; and at every way out of the two functions the    *)
(* counts of the three blocks are back at 0, but for the entry handed out:  *)
(* each exit frees what was allocated on the way to it and nothing else     *)
(* (NothingHeld).                                                           *)
THEOREM BlocksAreFreed == Spec => []NothingHeld
<1>1. ASSUME Invariant
      PROVE  TypeOK
  <2>1. Tidy /\ Types  BY <1>1 DEF Invariant, Tidy
  <2>2. Len(File) \in Nat  BY FileIsSeen, LenProperties
  <2>3. \A s \in Seq(Seen) : s \in Seq(Cell)  BY SeenAreCells
  <2>4. stdio \in [Proc -> [end : Nat, buf : Seq(Cell)]]
    <3>1. \A f \in OpenFile : f \in [end : Nat, buf : Seq(Cell)]  BY <2>3 DEF OpenFile
    <3> QED  BY <2>1, <3>1 DEF Types
  <2>5. x \in [Proc -> Extraction]
    <3>1. ASSUME NEW s \in Running, InFile(s), NEW d, NEW r, Freed(s, d, r)
          PROVE  s \in Extraction
      <4>1. /\ s.ofs \in Nat /\ s.want \in Nat /\ s.remaining \in Nat
            /\ s.got \in Seq(Seen) /\ s.fed \in Seq(Seen) /\ s.buf \in Seq(Seen)
          BY DEF Running
      <4>2. s.ofs + s.want + s.remaining <= Len(File)  BY <3>1 DEF InFile
      <4>3. /\ s.ofs \in 0 .. Len(File) /\ s.want \in 0 .. Len(File)
            /\ s.remaining \in 0 .. Len(File)
          BY <2>2, <4>1, <4>2
      <4>4. s.got \in Seq(Cell) /\ s.fed \in Seq(Cell) /\ s.buf \in Seq(Cell)
          BY <2>3, <4>1
      <4>5. s.heap \in [Block -> {0, 1}]
        <5>1. HeldFor(s.phase) \in [Block -> {0, 1}]  BY HeldType DEF HeldFor, Block
        <5>2. Held(IF r.ok THEN {"pBuf"} ELSE {}) \in [Block -> {0, 1}]
            BY HeldType DEF Block
        <5> QED  BY <3>1, <5>1, <5>2 DEF Freed
      <4> QED  BY <4>3, <4>4, <4>5 DEF Running, Extraction
    <3> QED  BY <2>1, <3>1 DEF Tidy, Types
  <2>6. ret \in [Proc -> [e : Nat, ok : BOOLEAN, data : Seq(Cell), why : {"", "none", "memory", "data"}]]
    <3>1. \A r \in Answers :
            r \in [e : Nat, ok : BOOLEAN, data : Seq(Cell), why : {"", "none", "memory", "data"}]
        BY <2>3 DEF Answers
    <3> QED  BY <2>1, <3>1 DEF Types
  <2>7. \A p \in Proc : Len(stdio[p].buf) <= Stdio /\ Len(x[p].got) <= x[p].want
      BY <2>1 DEF Tidy, InFile
  <2> QED  BY <2>1, <2>4, <2>5, <2>6, <2>7 DEF TypeOK, Types
<1>2. Invariant => NothingHeld
    BY <1>1 DEF NothingHeld, Invariant, Tidy, Freed
<1> QED  BY <1>2, InvariantHolds, PTL

(* A process on its own descriptor whose offset nobody else has moved reads *)
(* every entry: what fails, fails for want of memory (LoneReaderServes).    *)
THEOREM LoneReadersAreServed == Spec => []LoneReaderServes
<1>1. Invariant => LoneReaderServes
    BY DEF Invariant, Lone, Undisturbed, LoneReaderServes
<1> QED  BY <1>1, InvariantHolds, PTL
=============================================================================

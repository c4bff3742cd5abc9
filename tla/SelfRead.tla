------------------------------ MODULE SelfRead ------------------------------
(***************************************************************************)
(* Extraction from the container at the end of the executable: the steps of *)
(* mz_zip_reader_extract_to_heap (src/miniz.c) on the FILE that src/vfs.c   *)
(* opens once and keeps.  A FILE is half in the process, its buffer and what *)
(* it believes of the offset, and half in the kernel, the offset itself,    *)
(* which a forked child shares with its parent.                             *)
(*                                                                          *)
(* A step is a system call or the code between two of them.  The archive is *)
(* sound.  A decoder turns an entry's stream into the entry; what it does   *)
(* with other bytes is anything it may, up to claiming to be done with the  *)
(* right number of wrong ones, so that it is the comparisons of the code    *)
(* that stand between them and the program.                                 *)
(***************************************************************************)
EXTENDS Integers, Sequences

CONSTANTS
    Proc, Parent,   \* the processes; Parent is the one that forks the others
    File,           \* the executable and its archive, a cell for a header or a part of the data
    Records,        \* the central directory
    Crc(_),         \* mz_crc32
    Spoilt,         \* Spoilt[e]: what a decoder may write when it is given other bytes
    IoBuf,          \* cells that MZ_ZIP_MAX_IO_BUF_SIZE holds
    Stdio,          \* cells that a FILE reads ahead
    TellCached,     \* does ftello believe the FILE or ask the kernel?
    MayClose,       \* does a process close descriptors it does not know?
    MaxCalls        \* bound on the calls of all processes

Method == {"stored", "zstd", "deflate"}

(* A cell of the file is a header, a part of an entry's stream, or other     *)
(* bytes; decoding makes cells of the entry.                                *)
Cell == [part : {"header", "data", "plain", "other"}, e : Nat, k : Nat]
Header(e) == [part |-> "header", e |-> e, k |-> 0]
Data(e, k) == [part |-> "data", e |-> e, k |-> k]
Plain(e, k) == [part |-> "plain", e |-> e, k |-> k]
Other == [part |-> "other", e |-> 0, k |-> 0]

Entry == DOMAIN Records
Stream(e) == [k \in 1 .. Records[e].comp |-> Data(e, k)]
Content(e) ==
    [k \in 1 .. Records[e].uncomp |-> IF Records[e].method = "stored" THEN Data(e, k) ELSE Plain(e, k)]
DataOf(e) == Records[e].header + 1 + Records[e].name

(* What can ever be in a buffer, and what can be in the one of an entry. *)
Seen == {File[i] : i \in DOMAIN File} \cup {Other}
            \cup UNION {{Plain(e, k) : k \in 1 .. Records[e].uncomp} : e \in Entry}
BufferOf(e) == [1 .. Records[e].uncomp -> Seen]

ASSUME SelfReadAssumption ==
    /\ Parent \in Proc
    /\ Records \in Seq([method : Method, header : Nat, name : Nat, comp : Nat, uncomp : Nat, crc : Nat])
    /\ IoBuf \in Nat \ {0} /\ Stdio \in Nat /\ MaxCalls \in Nat
    /\ TellCached \in BOOLEAN /\ MayClose \in BOOLEAN

(* Offsets start at 0.  A record's header is where the directory says, and  *)
(* its data behind the header and the name; the record tells the size and   *)
(* the CRC of the entry.                                                    *)
ASSUME ArchiveIsSound ==
    /\ File \in Seq(Cell)
    /\ \A e \in Entry :
        /\ DataOf(e) + Records[e].comp <= Len(File)
        /\ File[Records[e].header + 1] = Header(e)
        /\ \A k \in 1 .. Records[e].comp : File[DataOf(e) + k] = Data(e, k)
        /\ Records[e].comp = 0 => Records[e].uncomp = 0
        /\ Records[e].method = "stored" => Records[e].uncomp = Records[e].comp
        /\ Records[e].crc = Crc(Content(e))
    /\ \A i \in DOMAIN File : File[i].part = "header" => File[i].e \in Entry

(* The sum tells an entry from whatever else fills its buffer. *)
ASSUME CrcTells == \A e \in Entry :
    \A d \in BufferOf(e) : Crc(d) = Records[e].crc => d = Content(e)

ASSUME DecoderAssumption == \A e \in Entry : \A d \in Spoilt[e] : d \in BufferOf(e)

VARIABLES
    offset,     \* the kernel's offset of the open file
    stdio,      \* stdio[p]: the FILE as p has it
    desc,       \* desc[p]: what the reader's descriptor is in p
    x,          \* x[p]: the running extraction
    ret,        \* ret[p]: how the last one ended
    calls,
    apart       \* apart[p]: nobody else has moved the offset, ever

vars == <<offset, stdio, desc, x, ret, calls, apart>>

(* The heap counts the blocks allocated and not freed, by the pointer that  *)
(* the code has to each.                                                    *)
Block == {"pBuf", "pTmp", "pRead_buf"}
Held(B) == [b \in Block |-> IF b \in B THEN 1 ELSE 0]
Malloc(heap, b) == [heap EXCEPT ![b] = @ + 1]
Free(heap, b) == [heap EXCEPT ![b] = @ - 1]

(* fed is what the inflater was given, made what it says it wrote. *)
Idle == [at |-> "idle", e |-> 1, phase |-> "header", ofs |-> 0, want |-> 0, got |-> << >>,
         remaining |-> 0, fed |-> << >>, buf |-> << >>, made |-> 0, heap |-> Held({})]
Answer(e, ok, data, why) == [e |-> e, ok |-> ok, data |-> data, why |-> why]
Pending == Answer(1, FALSE, << >>, "none")

Init ==
    /\ offset = 0
    /\ stdio = [p \in Proc |-> [end |-> 0, buf |-> << >>]]
    /\ desc = [p \in Proc |-> IF p = Parent THEN "self" ELSE "none"]
    /\ x = [p \in Proc |-> Idle]
    /\ ret = [p \in Proc |-> Pending]
    /\ calls = 0
    /\ apart = [p \in Proc |-> TRUE]
-----------------------------------------------------------------------------
(* What the program does between calls. *)
Fork(p) ==
    /\ desc[Parent] # "none" /\ x[Parent].at = "idle" /\ desc[p] = "none"
    /\ desc' = [desc EXCEPT ![p] = desc[Parent]]
    /\ stdio' = [stdio EXCEPT ![p] = stdio[Parent]]
    /\ UNCHANGED <<offset, x, ret, calls, apart>>

ProgramCloses(p) ==
    /\ MayClose /\ x[p].at = "idle" /\ desc[p] \in {"self", "closed"}
    /\ desc' = [desc EXCEPT ![p] = IF desc[p] = "self" THEN "closed" ELSE "reused"]
    /\ UNCHANGED <<offset, stdio, x, ret, calls, apart>>
-----------------------------------------------------------------------------
(* stdio: where the FILE believes it is, fseek, and a read behind fread. *)
Tell(p) == (IF TellCached THEN stdio[p].end ELSE offset) - Len(stdio[p].buf)

Moves(p, to) ==
    /\ offset' = to
    /\ apart' = [q \in Proc |-> apart[q] /\ (q = p \/ to = offset)]
Stays == UNCHANGED <<offset, apart>>

MinOf(a, b) == IF a < b THEN a ELSE b

(* The cells behind the FILE, n of them at most. *)
Behind(n) == SubSeq(File, offset + 1, IF offset + n < Len(File) THEN offset + n ELSE Len(File))

Goes(p, s) == x' = [x EXCEPT ![p] = s]
Reads(s, phase, ofs, want) ==
    [s EXCEPT !.at = "tell", !.phase = phase, !.ofs = ofs, !.want = want, !.got = << >>]
At(p, place) == Goes(p, [x[p] EXCEPT !.at = place])

FileTell_trusting(p) ==     \* mutant: a FILE with bytes left is where it should be
    /\ x[p].at = "tell"
    /\ At(p, IF stdio[p].buf # << >> THEN "read" ELSE "seek")
    /\ UNCHANGED <<offset, stdio, desc, ret, calls, apart>>

(* mz_zip_file_read_func: fseek only where ftello says it is needed. *)
FileTell(p) ==
    /\ x[p].at = "tell"
    /\ At(p, IF Tell(p) = x[p].ofs THEN "read" ELSE "seek")
    /\ UNCHANGED <<offset, stdio, desc, ret, calls, apart>>

FileSeek_retries(p) ==      \* mutant: a seek that fails is tried again
    /\ x[p].at = "seek"
    /\ IF desc[p] = "closed"
       THEN At(p, "tell") /\ Stays /\ UNCHANGED stdio
       ELSE /\ stdio' = [stdio EXCEPT ![p] = [end |-> x[p].ofs, buf |-> << >>]]
            /\ IF desc[p] = "self" THEN Moves(p, x[p].ofs) ELSE Stays
            /\ At(p, "read")
    /\ UNCHANGED <<desc, ret, calls>>

FileSeek(p) ==
    /\ x[p].at = "seek"
    /\ IF desc[p] = "closed"
       THEN At(p, "have") /\ Stays /\ UNCHANGED stdio
       ELSE /\ stdio' = [stdio EXCEPT ![p] = [end |-> x[p].ofs, buf |-> << >>]]
            /\ IF desc[p] = "self" THEN Moves(p, x[p].ofs) ELSE Stays
            /\ At(p, "read")
    /\ UNCHANGED <<desc, ret, calls>>

(* fread: what is buffered, and for the rest one read of it and of some more. *)
More(p) ==
    LET n == x[p].want - Len(stdio[p].buf) IN
    IF n <= 0 THEN << >>
    ELSE CASE desc[p] = "self"   -> Behind(n + Stdio)
           [] desc[p] = "reused" -> [i \in 1 .. n |-> Other]
           [] desc[p] = "closed" -> << >>

FileRead(p) ==
    LET all == stdio[p].buf \o More(p)
        k == MinOf(x[p].want, Len(all)) IN
    /\ x[p].at = "read"
    /\ Goes(p, [x[p] EXCEPT !.at = "have", !.got = SubSeq(all, 1, k)])
    /\ stdio' = [stdio EXCEPT ![p] =
           [end |-> stdio[p].end + Len(More(p)), buf |-> SubSeq(all, k + 1, Len(all))]]
    /\ IF desc[p] = "self" THEN Moves(p, offset + Len(More(p))) ELSE Stays
    /\ UNCHANGED <<desc, ret, calls>>
-----------------------------------------------------------------------------
(* mz_zip_reader_extract_to_heap and the function it calls.  The statistics *)
(* are those of the central directory, which is in memory.                  *)
(*                                                                          *)
(* The caller's end: the function it called returns in state s, with an     *)
(* error or none.                                                           *)
Returns_keeps(p, s, why) ==     \* mutant: the caller does not free the buffer of a failed extraction
    /\ x' = [x EXCEPT ![p] = [Idle EXCEPT !.heap = s.heap]]
    /\ ret' = [ret EXCEPT ![p] = Answer(s.e, why = "", IF why = "" THEN s.buf ELSE << >>, why)]
    /\ UNCHANGED <<offset, stdio, desc, calls, apart>>

Returns(p, s, why) ==
    /\ x' = [x EXCEPT ![p] = [Idle EXCEPT !.heap = IF why = "" THEN s.heap ELSE Free(s.heap, "pBuf")]]
    /\ ret' = [ret EXCEPT ![p] = Answer(s.e, why = "", IF why = "" THEN s.buf ELSE << >>, why)]
    /\ UNCHANGED <<offset, stdio, desc, calls, apart>>

(* The caller's beginning.  The program has freed what the last extraction  *)
(* gave it; nothing is written to the new buffer yet.                       *)
Used(p) == IF ret[p].ok THEN Free(x[p].heap, "pBuf") ELSE x[p].heap

Begins(p, e) == [Idle EXCEPT !.e = e, !.buf = [k \in 1 .. Records[e].uncomp |-> Other],
                             !.heap = Malloc(Used(p), "pBuf")]

Extract(p, e) ==
    /\ x[p].at = "idle" /\ desc[p] # "none" /\ calls < MaxCalls
    /\ calls' = calls + 1
    /\ \/ /\ x' = [x EXCEPT ![p] = [Idle EXCEPT !.heap = Used(p)]]
          /\ ret' = [ret EXCEPT ![p] = Answer(e, FALSE, << >>, "memory")]
       \/ /\ Records[e].comp = 0
          /\ x' = [x EXCEPT ![p] = [Idle EXCEPT !.heap = Begins(p, e).heap]]
          /\ ret' = [ret EXCEPT ![p] = Answer(e, TRUE, Begins(p, e).buf, "")]
       \/ /\ Records[e].comp > 0
          /\ Goes(p, Reads(Begins(p, e), "header", Records[e].header, 1))
          /\ ret' = [ret EXCEPT ![p] = Pending]
    /\ UNCHANGED <<offset, stdio, desc, apart>>

GoesOn == UNCHANGED <<offset, stdio, desc, ret, calls, apart>>

(* The local header: the signature, and the way to the data.  What another  *)
(* record's header says is believed.                                        *)
HasHeader(p) == x[p].got # << >> /\ x[p].got[1].part = "header"
DataAt(p) == x[p].ofs + 1 + Records[x[p].got[1].e].name
InBounds(p) == DataAt(p) + Records[x[p].e].comp <= Len(File)

ReadsData(p, comp) ==
    \/ /\ Records[x[p].e].method = "stored"
       /\ Goes(p, Reads(x[p], "stored", DataAt(p), Records[x[p].e].uncomp))
    \/ /\ Records[x[p].e].method = "zstd"
       /\ Goes(p, Reads([x[p] EXCEPT !.heap = Malloc(@, "pTmp")], "frame", DataAt(p), comp))
    \/ /\ Records[x[p].e].method = "deflate"
       /\ Goes(p, Reads([x[p] EXCEPT !.heap = Malloc(@, "pRead_buf"),
                                     !.remaining = comp - MinOf(IoBuf, comp)],
                        "chunk", DataAt(p), MinOf(IoBuf, comp)))

LocalEntry(p) ==
    /\ x[p].at = "have" /\ x[p].phase = "header"
    /\ \/ ~(HasHeader(p) /\ InBounds(p)) /\ Returns(p, x[p], "data")
       \/ HasHeader(p) /\ InBounds(p) /\ ReadsData(p, Records[x[p].e].comp) /\ GoesOn
       \/ HasHeader(p) /\ InBounds(p) /\ Records[x[p].e].method # "stored" /\ Returns(p, x[p], "memory")

Short(p) == Len(x[p].got) # x[p].want

(* The CRC is taken of the whole buffer, whatever was written of it. *)
CrcMatches(s) == Crc(s.buf) = Records[s.e].crc
Whole(s) == s.made = Records[s.e].uncomp
Verdict(ok) == IF ok THEN "" ELSE "data"

(* A stored entry is read into the buffer handed out. *)
Stored_unchecked(p) ==      \* mutant: the CRC of a stored entry is not compared
    /\ x[p].at = "have" /\ x[p].phase = "stored"
    /\ IF Short(p) THEN Returns(p, x[p], "data")
       ELSE Returns(p, [x[p] EXCEPT !.buf = x[p].got], "")

Stored(p) ==
    /\ x[p].at = "have" /\ x[p].phase = "stored"
    /\ IF Short(p) THEN Returns(p, x[p], "data")
       ELSE LET s == [x[p] EXCEPT !.buf = x[p].got] IN Returns(p, s, Verdict(CrcMatches(s)))

(* A zstd frame is read into a block of its own, which goes once the frame  *)
(* is decoded, or could not be read.                                        *)
Decompressed(e, frame) ==
    IF frame = Stream(e)
    THEN {[made |-> Records[e].uncomp, buf |-> Content(e)]}
    ELSE [made : 0 .. Records[e].uncomp, buf : Spoilt[e]]

Frame_unchecked(p) ==       \* mutant: the CRC of a zstd entry is not compared
    LET t == [x[p] EXCEPT !.heap = Free(@, "pTmp")] IN
    /\ x[p].at = "have" /\ x[p].phase = "frame"
    /\ \/ Short(p) /\ Returns(p, t, "data")
       \/ /\ ~Short(p)
          /\ \E d \in Decompressed(x[p].e, x[p].got) :
                LET s == [t EXCEPT !.made = d.made, !.buf = d.buf] IN
                Returns(p, s, Verdict(Whole(s)))

Frame_leaks(p) ==           \* mutant: a frame that cannot be read is not freed
    LET t == [x[p] EXCEPT !.heap = Free(@, "pTmp")] IN
    /\ x[p].at = "have" /\ x[p].phase = "frame"
    /\ \/ Short(p) /\ Returns(p, x[p], "data")
       \/ /\ ~Short(p)
          /\ \E d \in Decompressed(x[p].e, x[p].got) :
                LET s == [t EXCEPT !.made = d.made, !.buf = d.buf] IN
                Returns(p, s, Verdict(Whole(s) /\ CrcMatches(s)))

Frame(p) ==
    LET t == [x[p] EXCEPT !.heap = Free(@, "pTmp")] IN
    /\ x[p].at = "have" /\ x[p].phase = "frame"
    /\ \/ Short(p) /\ Returns(p, t, "data")
       \/ /\ ~Short(p)
          /\ \E d \in Decompressed(x[p].e, x[p].got) :
                LET s == [t EXCEPT !.made = d.made, !.buf = d.buf] IN
                Returns(p, s, Verdict(Whole(s) /\ CrcMatches(s)))

(* tinfl_decompress writes behind what it has made.  It wants more for as   *)
(* long as the stream goes on.                                              *)
Written(s, cells, n) ==
    [k \in 1 .. Records[s.e].uncomp |-> IF s.made < k /\ k <= n THEN cells[k] ELSE s.buf[k]]
Inflates(s, status, cells, n) ==
    [status |-> status, s |-> [s EXCEPT !.made = n, !.buf = Written(s, cells, n)]]

Inflated(s) ==
    LET e == s.e
        rest == s.made .. Records[e].uncomp IN
    IF s.fed = Stream(e)
    THEN {Inflates(s, "done", Content(e), Records[e].uncomp)}
    ELSE IF s.remaining > 0 /\ s.fed = SubSeq(Stream(e), 1, Len(s.fed))
    THEN {Inflates(s, "more", Content(e), n) : n \in rest}
    ELSE {Inflates(s, status, cells, n) :
            status \in {"done", "failed"} \cup (IF s.remaining > 0 THEN {"more"} ELSE {}),
            cells \in Spoilt[e], n \in rest}

(* Behind the loop: the size and the CRC when the inflater was done, and    *)
(* the one place that frees the I/O buffer.                                 *)
LoopEnds_unchecked(p, s, status) ==     \* mutant: the CRC of a deflated entry is not compared
    Returns(p, [s EXCEPT !.heap = Free(@, "pRead_buf")], Verdict(status = "done" /\ Whole(s)))
LoopEnds_early(p, s, status) ==         \* mutant: an inflater that fails returns before the buffer is freed
    Returns(p, [s EXCEPT !.heap = IF status = "done" THEN Free(@, "pRead_buf") ELSE @],
            Verdict(status = "done" /\ Whole(s) /\ CrcMatches(s)))

LoopEnds(p, s, status) ==
    Returns(p, [s EXCEPT !.heap = Free(@, "pRead_buf")],
            Verdict(status = "done" /\ Whole(s) /\ CrcMatches(s)))

Chunk(p) ==
    LET next == MinOf(IoBuf, x[p].remaining)
        t == [x[p] EXCEPT !.fed = @ \o x[p].got] IN
    /\ x[p].at = "have" /\ x[p].phase = "chunk"
    /\ \/ Short(p) /\ LoopEnds(p, x[p], "failed")
       \/ /\ ~Short(p)
          /\ \E d \in Inflated(t) :
                \/ d.status # "more" /\ LoopEnds(p, d.s, d.status)
                \/ /\ d.status = "more"
                   /\ Goes(p, Reads([d.s EXCEPT !.remaining = @ - next],
                                    "chunk", x[p].ofs + Len(x[p].got), next))
                   /\ GoesOn

Step(p) ==
    \/ FileTell(p) \/ FileSeek(p) \/ FileRead(p)
    \/ LocalEntry(p) \/ Stored(p) \/ Frame(p) \/ Chunk(p)

Next == \E p \in Proc :
    \/ Fork(p)
    \/ ProgramCloses(p)
    \/ \E e \in Entry : Extract(p, e)
    \/ Step(p)

(* A call that runs is not left standing: a process is scheduled again. *)
Fairness == \A p \in Proc : WF_vars(Step(p))

Spec == Init /\ [][Next]_vars /\ Fairness
-----------------------------------------------------------------------------
(* Types: offsets stay in the file, and what a process waits for is one of *)
(* the reads that mz_zip_reader_extract_to_mem_no_alloc1 makes.            *)
Extraction ==
    [at : {"idle", "tell", "seek", "read", "have"}, e : Nat,
     phase : {"header", "stored", "frame", "chunk"}, ofs : 0 .. Len(File), want : 0 .. Len(File),
     got : Seq(Cell), remaining : 0 .. Len(File), fed : Seq(Cell), buf : Seq(Cell),
     made : Nat, heap : [Block -> {0, 1}]]

TypeOK ==
    /\ offset \in 0 .. Len(File) /\ calls \in 0 .. MaxCalls
    /\ stdio \in [Proc -> [end : Nat, buf : Seq(Cell)]]
    /\ desc \in [Proc -> {"none", "self", "closed", "reused"}]
    /\ x \in [Proc -> Extraction]
    /\ ret \in [Proc -> [e : Nat, ok : BOOLEAN, data : Seq(Cell), why : {"", "none", "memory", "data"}]]
    /\ apart \in [Proc -> BOOLEAN]
    /\ \A p \in Proc : Len(stdio[p].buf) <= Stdio /\ Len(x[p].got) <= x[p].want

(* Whatever other processes do to the offset, the program to the           *)
(* descriptor, and a decoder with what it is then given, an extraction     *)
(* that succeeds hands out the entry: each of the three ways through       *)
(* mz_zip_reader_extract_to_mem_no_alloc1 compares the CRC of what it      *)
(* hands out.                                                              *)
ExtractIsExact == \A p \in Proc : ret[p].ok => ret[p].data = Content(ret[p].e)

(* A process that shares the offset with nobody who moved it, on the       *)
(* descriptor the reader opened, reads every entry there is memory for:    *)
(* ftello, fseeko and the chunks of a long entry agree about where they are. *)
LoneReaderServes == \A p \in Proc :
    apart[p] /\ desc[p] = "self" => ret[p].why # "data"

(* Between calls a process holds no block but the entry it was handed, and *)
(* no block is freed twice: each way out of the two functions frees what   *)
(* was allocated on the way to it, and the caller the rest.                *)
NothingHeld == TypeOK /\ \A p \in Proc :
    x[p].at = "idle" => x[p].heap = Held(IF ret[p].ok THEN {"pBuf"} ELSE {})

(* Every extraction ends, with chunks cut short by another process too.    *)
ExtractEnds == \A p \in Proc : x[p].at # "idle" ~> x[p].at = "idle"

(* src/vfs.c:40: the file handle stays open for the process lifetime,      *)
(* extraction seeks and reads it on demand.  A process that has its        *)
(* descriptor can read an entry whenever it wants to.                      *)
ServesOnDemand == \A p \in Proc : desc[p] = "self" => ret[p].why # "data"
=============================================================================

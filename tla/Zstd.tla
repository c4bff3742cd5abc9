-------------------------------- MODULE Zstd --------------------------------
(***************************************************************************)
(* Entries compressed with Zstandard: src/unpin_zstd.c, and the part of     *)
(* the vendored decoder (src/zstddeclib.c) it runs.  One context serves all *)
(* entries of a process.  It is made ready anew for each frame, but its     *)
(* tables, its flags and its buffer are those the last entry left, which    *)
(* may have failed anywhere.                                                *)
(*                                                                          *)
(* An entry is a sequence of bytes: frames, a frame of blocks, a block of   *)
(* literals and sequences.  What a step that fails has written is left out: *)
(* no later step reads it.                                                  *)
(***************************************************************************)
EXTENDS ZstdCopy, ZstdHead, ZstdXxh

CONSTANTS
    ZSTD_LITBUFFEREXTRASIZE,
    LongHistory,        \* 2^24: so much history makes far offsets likely,
    LongCode,           \* 22: if codes of more bits are common
    Sessions,           \* processes, and
    Requests(_)         \* what each of them asks for, in this order

ASSUME ZstdAssumption == ZSTD_LITBUFFEREXTRASIZE >= 2 * WILDCOPY_OVERLENGTH

VARIABLES
    todo,       \* the requests to come
    g_dict,     \* the shared dictionary; NoDict for a null pointer
    dctx,       \* the context, apart from litExtraBuffer
    mem,        \* the areas, litExtraBuffer among them
    pc,         \* where the running call is
    call,       \* its entry, and how far it is in it and in its output
    blk,        \* the block it is in
    answer      \* of the last call: [bytes, size, dict, got]

vars == <<todo, g_dict, dctx, mem, pc, call, blk, answer>>

(* What is in memory before a table is made there. *)
NoTables == [x \in Field |-> ZSTD_buildSeqTable_rle(x, 0)]
NoHufTable == [type |-> "X1", log |-> 0, entries |-> {}]
NoDict == << >>

(* A sequence as an area. *)
Bytes(s) == [i \in 0 .. Len(s) - 1 |-> s[i + 1]]
Fresh(n) == [i \in 0 .. n - 1 |-> Unknown]

NoBlock == [ip |-> 0]
NoCall == [bytes |-> << >>]
NoAnswer == [bytes |-> << >>, size |-> 0, dict |-> NoDict, got |-> 0]

(* ZSTD_createDCtx: nothing in the context is used before Begin sets it,    *)
(* but bmi2: whether this processor, or this build, takes the fast loops.   *)
Init ==
    /\ \E s \in Sessions : todo = Requests(s)
    /\ g_dict = NoDict
    /\ \E bmi2 \in BOOLEAN :
           dctx = [bmi2 |-> bmi2, litEntropy |-> FALSE, fseEntropy |-> FALSE, hufTable |-> NoHufTable,
                   space |-> NoTables, used |-> [x \in Field |-> "space"], rep |-> <<1, 4, 8>>, dictID |-> NoID,
                   prefixStart |-> NULL, previousDstEnd |-> NULL, dictEnd |-> NULL, virtualStart |-> NULL,
                   xxhState |-> XXH64_reset]
    /\ mem = [null |-> << >>, dst |-> << >>, src |-> << >>, dict |-> << >>, stray |-> FALSE,
              extra |-> Fresh(ZSTD_LITBUFFEREXTRASIZE + WILDCOPY_OVERLENGTH)]
    /\ pc = "idle" /\ call = NoCall /\ blk = NoBlock /\ answer = NoAnswer

-----------------------------------------------------------------------------
unpin_zstd_set_dict ==
    /\ pc = "idle" /\ todo # << >> /\ Head(todo).op = "set_dict"
    /\ g_dict' = Head(todo).dict
    /\ todo' = Tail(todo)
    /\ mem' = [mem EXCEPT !.dict = Bytes(Head(todo).dict)]
    /\ UNCHANGED <<dctx, pc, call, blk, answer>>

(* The output is as large as the record says, and fresh from the heap. *)
unpin_zstd_decompress ==
    /\ pc = "idle" /\ todo # << >> /\ Head(todo).op = "decompress"
    /\ todo' = Tail(todo)
    /\ mem' = [mem EXCEPT !.dst = Fresh(Head(todo).size), !.src = Bytes(Head(todo).bytes)]
    /\ call' = [bytes |-> Head(todo).bytes, ip |-> 0, size |-> Head(todo).size,
                start |-> 0, op |-> 0, head |-> Refused]
    /\ pc' = "frames" /\ answer' = NoAnswer
    /\ UNCHANGED <<g_dict, dctx, blk>>

(* Every error is 0 for the caller. *)
Return(got) ==
    /\ pc' = "idle" /\ call' = NoCall /\ blk' = NoBlock
    /\ answer' = [bytes |-> call.bytes, size |-> call.size, dict |-> g_dict, got |-> got]

Fail == Return(0) /\ UNCHANGED <<todo, g_dict, mem>>

-----------------------------------------------------------------------------
(* ZSTD_decompressBegin: the flags go, the tables stay where they are. *)
ZSTD_decompressBegin(d) ==
    [d EXCEPT !.previousDstEnd = NULL, !.prefixStart = NULL, !.virtualStart = NULL, !.dictEnd = NULL,
              !.litEntropy = FALSE, !.fseEntropy = FALSE, !.dictID = NoID, !.rep = <<1, 4, 8>>,
              !.used = [x \in Field |-> "space"]]

(* The dictionary from its byte n on is the history before the output. *)
ZSTD_refDictContent(d, n) ==
    [d EXCEPT !.dictEnd = d.previousDstEnd,
              !.virtualStart = At("dict", n - Diff(d.previousDstEnd, d.prefixStart)),
              !.prefixStart = At("dict", n),
              !.previousDstEnd = At("dict", Len(g_dict))]

(* A formatted dictionary brings tables and offsets; anything else is       *)
(* content only.  The tables of sequences are scratch space for the tree.   *)
Inserted(d, e) ==
    LET d1 == [d EXCEPT !.dictID = SubSeq(g_dict, 5, 8), !.hufTable = IF e.made THEN e.hufTable ELSE @] IN
    IF ~e.ok THEN [ok |-> FALSE, d |-> [d1 EXCEPT !.space = NoTables]]
    ELSE [ok |-> TRUE,
          d |-> ZSTD_refDictContent([d1 EXCEPT !.litEntropy = TRUE, !.fseEntropy = TRUE,
                                               !.space = e.tables, !.rep = e.rep], e.size)]

ZSTD_decompress_insertDictionary(d) ==
    IF Len(g_dict) < 8 \/ SubSeq(g_dict, 1, 4) # ZSTD_MAGIC_DICTIONARY
    THEN [ok |-> TRUE, d |-> ZSTD_refDictContent(d, 0)]
    ELSE CHOOSE r \in {Inserted(d, e) : e \in {ZSTD_loadDEntropy(g_dict)}} : TRUE

ZSTD_decompressBegin_usingDict(d) ==
    IF g_dict = NoDict THEN [ok |-> TRUE, d |-> ZSTD_decompressBegin(d)]
    ELSE ZSTD_decompress_insertDictionary(ZSTD_decompressBegin(d))

(* A new place to write to: what came before is the history behind it. *)
ZSTD_checkContinuity(d, dst, n) ==
    IF dst = d.previousDstEnd \/ n = 0 THEN d
    ELSE [d EXCEPT !.dictEnd = d.previousDstEnd,
                   !.virtualStart = Plus(dst, -Diff(d.previousDstEnd, d.prefixStart)),
                   !.prefixStart = dst, !.previousDstEnd = dst]

-----------------------------------------------------------------------------
src == call.bytes
remaining == Len(src) - call.ip
room == call.size - call.op
frame == call.head

(* ZSTD_decompressMultiFrame: another frame follows if 5 bytes do. *)
ZSTD_startingInputLength == 5
More == pc = "frames" /\ remaining >= ZSTD_startingInputLength

AllFrames ==
    /\ pc = "frames" /\ ~More
    /\ Return(IF remaining = 0 THEN call.op ELSE 0)
    /\ UNCHANGED <<todo, g_dict, dctx, mem>>

SkipFrame ==
    LET skipped == readSkippableFrameSize(src, call.ip) IN
    /\ More /\ Skippable(src, call.ip)
    /\ IF ~skipped.ok THEN Fail
       ELSE /\ call' = [call EXCEPT !.ip = @ + skipped.size]
            /\ UNCHANGED <<todo, g_dict, mem, pc, blk, answer>>
    /\ UNCHANGED dctx

(* The header of a frame of which at least a block's header follows. *)
ZSTD_decodeFrameHeader(d) ==
    LET head == ZSTD_getFrameHeader_advanced(src, call.ip) IN
    IF remaining < 6 + ZSTD_blockHeaderSize THEN Refused
    ELSE IF remaining < ZSTD_frameHeaderSize_internal(src, call.ip) + ZSTD_blockHeaderSize THEN Refused
    ELSE IF ~head.ok THEN Refused
    ELSE IF head.dictID \notin {NoID, d.dictID} THEN Refused
    ELSE head

(* The context is made ready, whether or not it is for a frame. *)
BeginFrame ==
    /\ More /\ ~Skippable(src, call.ip)
    /\ \E begun \in {ZSTD_decompressBegin_usingDict(dctx)} :
       \E d \in {ZSTD_checkContinuity(begun.d, At("dst", call.op), room)} :
       \E head \in {ZSTD_decodeFrameHeader(d)} :
          IF ~begun.ok THEN Fail /\ dctx' = begun.d
          ELSE IF ~head.ok THEN Fail /\ dctx' = d
          ELSE /\ dctx' = IF head.checksumFlag THEN [d EXCEPT !.xxhState = XXH64_reset] ELSE d
               /\ pc' = "block"
               /\ call' = [call EXCEPT !.start = call.op, !.ip = @ + head.headerSize, !.head = head]
               /\ UNCHANGED <<todo, g_dict, mem, blk, answer>>

EndFrame_unsized ==     \* mutant: the size in the header is not compared
    LET n == IF frame.checksumFlag THEN 4 ELSE 0 IN
    /\ pc = "end"
    /\ IF \/ remaining < n
          \/ frame.checksumFlag /\ SubSeq(src, call.ip + 1, call.ip + 4) # SubSeq(XXH64_digest(dctx.xxhState), 1, 4)
       THEN Fail
       ELSE /\ pc' = "frames"
            /\ call' = [call EXCEPT !.ip = @ + n]
            /\ UNCHANGED <<todo, g_dict, mem, blk, answer>>
    /\ UNCHANGED dctx

(* The last block is done: size and checksum must fit. *)
EndFrame ==
    LET n == IF frame.checksumFlag THEN 4 ELSE 0 IN
    /\ pc = "end"
    /\ IF \/ frame.frameContentSize \notin {ZSTD_CONTENTSIZE_UNKNOWN, call.op - call.start}
          \/ remaining < n
          \/ frame.checksumFlag /\ SubSeq(src, call.ip + 1, call.ip + 4) # SubSeq(XXH64_digest(dctx.xxhState), 1, 4)
       THEN Fail
       ELSE /\ pc' = "frames"
            /\ call' = [call EXCEPT !.ip = @ + n]
            /\ UNCHANGED <<todo, g_dict, mem, blk, answer>>
    /\ UNCHANGED dctx

(* The block at hand, and where its content begins and ends. *)
b == ZSTD_getcBlockSize(src, call.ip)
bStart == call.ip + ZSTD_blockHeaderSize
bEnd == bStart + b.cSize
IsBlock(type) == pc = "block" /\ b.ok /\ b.type = type /\ bEnd <= Len(src)

BadBlock ==
    /\ pc = "block"
    /\ b.ok => bEnd > Len(src)
    /\ Fail /\ UNCHANGED dctx

(* A block of n bytes is in the output. *)
Decoded(m, d, n) ==
    /\ mem' = m
    /\ dctx' = IF frame.checksumFlag
               THEN [d EXCEPT !.xxhState =
                        XXH64_update(@, [i \in 1 .. n |-> Load(m, At("dst", call.op + i - 1))])]
               ELSE d
    /\ pc' = (IF b.last THEN "end" ELSE "block") /\ blk' = NoBlock
    /\ call' = [call EXCEPT !.op = @ + n, !.ip = bEnd]
    /\ UNCHANGED <<todo, g_dict, answer>>

ZSTD_copyRawBlock ==
    /\ IsBlock(bt_raw)
    /\ IF b.cSize > room THEN Fail /\ UNCHANGED dctx
       ELSE Decoded(memmove(mem, At("dst", call.op), At("src", bStart), b.cSize), dctx, b.cSize)

Filled(m, op, n, byte) == Stored(m, op, op, n, LAMBDA k : byte)

ZSTD_setRleBlock ==
    /\ IsBlock(bt_rle)
    /\ IF b.origSize > room THEN Fail /\ UNCHANGED dctx
       ELSE Decoded(Filled(mem, At("dst", call.op), b.origSize, src[bStart + 1]), dctx, b.origSize)

-----------------------------------------------------------------------------
lit == LiteralsHeader(src, bStart, b.cSize)

(* ZSTD_allocateLiteralsBuffer: behind the block if the output has room     *)
(* there, else in litExtraBuffer, else in both: the tail in the buffer, the *)
(* rest where the block will end.                                           *)
expectedWriteSize == Least(frame.blockSizeMax, room)

NoSlack(litSize, splitImmediately) ==      \* mutant: no room to run over behind the literals
    LET dst == At("dst", call.op)
        Buffer(p, n, loc) == [litBuffer |-> p, litBufferEnd |-> Plus(p, n), loc |-> loc]
    IN
    IF room > frame.blockSizeMax + WILDCOPY_OVERLENGTH + litSize
    THEN Buffer(Plus(dst, frame.blockSizeMax + WILDCOPY_OVERLENGTH), litSize, "in_dst")
    ELSE IF litSize <= ZSTD_LITBUFFEREXTRASIZE THEN Buffer(At("extra", 0), litSize, "not_in_dst")
    ELSE IF splitImmediately
    THEN Buffer(Plus(dst, expectedWriteSize - litSize + ZSTD_LITBUFFEREXTRASIZE - WILDCOPY_OVERLENGTH),
                litSize - ZSTD_LITBUFFEREXTRASIZE, "split")
    ELSE Buffer(Plus(dst, expectedWriteSize - litSize), litSize, "split")

ZSTD_allocateLiteralsBuffer(litSize, splitImmediately) ==
    LET dst == At("dst", call.op)
        Buffer(p, n, loc) == [litBuffer |-> p, litBufferEnd |-> Plus(p, n), loc |-> loc]
    IN
    IF room > frame.blockSizeMax + WILDCOPY_OVERLENGTH + litSize + WILDCOPY_OVERLENGTH
    THEN Buffer(Plus(dst, frame.blockSizeMax + WILDCOPY_OVERLENGTH), litSize, "in_dst")
    ELSE IF litSize <= ZSTD_LITBUFFEREXTRASIZE THEN Buffer(At("extra", 0), litSize, "not_in_dst")
    ELSE IF splitImmediately
    THEN Buffer(Plus(dst, expectedWriteSize - litSize + ZSTD_LITBUFFEREXTRASIZE - WILDCOPY_OVERLENGTH),
                litSize - ZSTD_LITBUFFEREXTRASIZE, "split")
    ELSE Buffer(Plus(dst, expectedWriteSize - litSize), litSize, "split")

(* Literals come to lie in the place allocated for them. *)
Placed(m, place, bytes) ==
    LET n == Len(bytes)
        first == IF place.loc = "split" THEN n - ZSTD_LITBUFFEREXTRASIZE ELSE n
        put(m1, p, k, off) == Stored(m1, p, p, k, LAMBDA i : bytes[off + i + 1]) IN
    IF place.loc # "split" THEN put(m, place.litBuffer, n, 0)
    ELSE put(put(m, place.litBuffer, first, 0), At("extra", 0), ZSTD_LITBUFFEREXTRASIZE, first)

(* Decoded literals that are to be split: all of them to the output first,  *)
(* then their tail to the buffer, and the rest up to give it room.          *)
HufPlaced(m, place, bytes) ==
    LET n == Len(bytes)
        whole == Stored(m, place.litBuffer, place.litBuffer, n, LAMBDA i : bytes[i + 1])
        tail == memcpy(whole, At("extra", 0), Plus(place.litBufferEnd, -ZSTD_LITBUFFEREXTRASIZE), ZSTD_LITBUFFEREXTRASIZE)
    IN  IF place.loc # "split" THEN whole
        ELSE memmove(tail, Plus(place.litBuffer, ZSTD_LITBUFFEREXTRASIZE - WILDCOPY_OVERLENGTH),
                     place.litBuffer, n - ZSTD_LITBUFFEREXTRASIZE)
HufPlace(place) ==
    IF place.loc # "split" THEN place
    ELSE [place EXCEPT !.litBuffer = Plus(@, ZSTD_LITBUFFEREXTRASIZE - WILDCOPY_OVERLENGTH),
                       !.litBufferEnd = Plus(@, -WILDCOPY_OVERLENGTH)]

(* The literals are there: litPtr, and where the output must stop. *)
Ready(m, d, place) ==
    /\ mem' = m /\ dctx' = d
    /\ pc' = "headers"
    /\ blk' = [ip |-> bStart + lit.lhSize + lit.litCSize,
               op |-> At("dst", call.op), loc |-> place.loc, litPtr |-> place.litBuffer,
               litBufferEnd |-> IF place.loc = "split" THEN place.litBufferEnd ELSE Plus(place.litBuffer, lit.litSize),
               oend |-> IF place.loc = "in_dst" THEN place.litBuffer ELSE At("dst", call.size)]
    /\ UNCHANGED <<todo, g_dict, call, answer>>

(* A block whose literals are of these types, and can be there.             *)
Literals(types) ==
    /\ IsBlock(bt_compressed) /\ b.cSize <= frame.blockSizeMax
    /\ lit.ok /\ lit.type \in types /\ lit.litSize <= expectedWriteSize

BadLiterals ==
    /\ IsBlock(bt_compressed)
    /\ \/ b.cSize > frame.blockSizeMax
       \/ ~lit.ok
       \/ lit.ok /\ lit.litSize > expectedWriteSize
       \/ lit.ok /\ lit.type = set_repeat /\ ~dctx.litEntropy
    /\ Fail /\ UNCHANGED dctx

(* A stream, or four, with the tree it brings or with the last one. *)
Decompressed ==
    LET at == bStart + lit.lhSize IN
    IF lit.type = set_repeat
    THEN IF lit.single THEN HUF_decompress1X_usingDTable(src, at, lit.litCSize, lit.litSize, dctx.hufTable)
         ELSE HUF_decompress4X_usingDTable(src, at, lit.litCSize, lit.litSize, dctx.hufTable, dctx.bmi2)
    ELSE IF lit.single THEN HUF_decompress1X1_DCtx(src, at, lit.litCSize, lit.litSize)
         ELSE HUF_decompress4X_hufOnly(src, at, lit.litCSize, lit.litSize, dctx.bmi2)

HuffmanLiterals ==
    LET place == ZSTD_allocateLiteralsBuffer(lit.litSize, FALSE) IN
    /\ Literals({set_compressed, set_repeat})
    /\ lit.type = set_repeat => dctx.litEntropy
    /\ \E text \in {Decompressed} :
       \E d \in {IF lit.type = set_compressed /\ text.made THEN [dctx EXCEPT !.hufTable = text.table] ELSE dctx} :
          IF ~text.ok THEN Fail /\ dctx' = d
          ELSE Ready(HufPlaced(mem, place, text.out), [d EXCEPT !.litEntropy = TRUE], HufPlace(place))

(* Raw literals are used where they were read, if enough follows them in    *)
(* the block to be run over.                                                *)
RawLiterals ==
    LET place == ZSTD_allocateLiteralsBuffer(lit.litSize, TRUE)
        at == bStart + lit.lhSize
        direct == [litBuffer |-> At("src", at), litBufferEnd |-> At("src", at + lit.litSize), loc |-> "not_in_dst"]
    IN
    /\ Literals({set_basic})
    /\ IF at + lit.litSize + WILDCOPY_OVERLENGTH > bEnd
       THEN Ready(Placed(mem, place, SubSeq(src, at + 1, at + lit.litSize)), dctx, place)
       ELSE Ready(mem, dctx, direct)

RleLiterals ==
    LET place == ZSTD_allocateLiteralsBuffer(lit.litSize, TRUE) IN
    /\ Literals({set_rle})
    /\ Ready(Placed(mem, place, [i \in 1 .. lit.litSize |-> src[bStart + lit.lhSize + 1]]), dctx, place)

-----------------------------------------------------------------------------
(* The tables in their order.  A new one overwrites the one in the context; *)
(* a predefined one is only pointed to.  The first that is refused ends the *)
(* frame, and leaves those before it in the context.                        *)
NextTable(r, x, type) ==
    LET With(t) ==
            CASE t.kind = "refused" -> [r EXCEPT !.ok = FALSE]
              [] t.kind = "space" -> [r EXCEPT !.ip = @ + t.size, !.d.space[x] = t.table, !.d.used[x] = "space"]
              [] t.kind = "default" -> [r EXCEPT !.d.used[x] = "default"]
              [] t.kind = "same" -> r
    IN  IF ~r.ok THEN r ELSE With(ZSTD_buildSeqTable(x, type, SubSeq(src, r.ip + 1, bEnd), dctx.fseEntropy))

Tables(d, head) ==
    NextTable(NextTable(NextTable([ok |-> TRUE, ip |-> blk.ip + head.size, d |-> d],
                                  "ll", head.type.ll), "of", head.type.of), "ml", head.type.ml)

TablesOf(d) == [x \in Field |-> IF d.used[x] = "default" THEN DefaultDTable[x] ELSE d.space[x]]

(* ZSTD_decompressBlock_internal: blocks with many far offsets get the      *)
(* decoder that reads ahead.                                                *)
minShare == 7
STORED_SEQS == 8

UsePrefetchDecoder(d, nbSeq) ==
    /\ Diff(Plus(At("dst", call.op), expectedWriteSize), d.virtualStart) > LongHistory
    /\ nbSeq > 8
    /\ ZSTD_getOffsetInfo(TablesOf(d).of, LongCode) >= minShare

ZSTD_decodeSeqHeaders ==
    /\ pc = "headers"
    /\ \E head \in {SequencesHeader(SubSeq(src, blk.ip + 1, bEnd))} :
          IF ~head.ok THEN Fail /\ UNCHANGED dctx
          ELSE IF head.nbSeq = 0
          THEN pc' = "last" /\ UNCHANGED <<todo, g_dict, dctx, mem, call, blk, answer>>
          ELSE \E r \in {Tables(dctx, head)} :
               \E stream \in {BIT_initDStream(src, r.ip, bEnd - r.ip)} :
                  IF ~r.ok \/ room = 0 THEN Fail /\ dctx' = r.d
                  ELSE /\ dctx' = [r.d EXCEPT !.fseEntropy = TRUE]
                       /\ IF ~stream.ok THEN Fail
                          ELSE /\ pc' = IF UsePrefetchDecoder(r.d, head.nbSeq) THEN "long" ELSE "sequences"
                               /\ blk' = [ip |-> blk.ip, op |-> blk.op, loc |-> blk.loc, litPtr |-> blk.litPtr,
                                          litBufferEnd |-> blk.litBufferEnd, oend |-> blk.oend,
                                          nbSeq |-> head.nbSeq, ready |-> << >>,
                                          q |-> ZSTD_initSeqState(src, stream, TablesOf(r.d), r.d.rep)]
                               /\ UNCHANGED <<todo, g_dict, mem, call, answer>>

(* Fast copies of matches: those that overlap themselves begin with a       *)
(* spread of their offset.                                                  *)
CopyFast(m, to, match, n, offset) ==
    LET m1 == ZSTD_overlapCopy8(m, to, match)
        to1 == Plus(to, Unit) IN
    IF offset >= WILDCOPY_VECLEN THEN ZSTD_wildcopy(m, to, match, n, FALSE)
    ELSE IF n <= Unit THEN m1
    ELSE ZSTD_wildcopy(m1, to1, Plus(to1, -Spread(offset)), n - Unit, TRUE)

(* The match behind the literals at op; what of it is before the frame is   *)
(* in the dictionary.                                                       *)
CopyMatch(m, op, oend_w, seq, slow) ==
    LET beyond == seq.offset - Diff(op, dctx.prefixStart)
        length1 == Least(beyond, seq.ml)
        m1 == memmove(m, op, Plus(dctx.dictEnd, -beyond), length1)
        copy(m2, to, match, n) == IF slow THEN ZSTD_safecopy(m2, to, oend_w, match, n, TRUE)
                                          ELSE CopyFast(m2, to, match, n, seq.offset) IN
    IF beyond <= 0 THEN copy(m, op, Plus(op, -seq.offset), seq.ml)
    ELSE IF beyond >= seq.ml THEN m1
    ELSE copy(m1, Plus(op, length1), dctx.prefixStart, seq.ml - length1)

CopyLiterals(m, op, litPtr, n) ==
    LET m1 == memcpy(m, op, litPtr, WILDCOPY_VECLEN) IN
    IF n <= WILDCOPY_VECLEN THEN m1
    ELSE ZSTD_wildcopy(m1, Plus(op, WILDCOPY_VECLEN), Plus(litPtr, WILDCOPY_VECLEN), n - WILDCOPY_VECLEN, FALSE)

CopyLiteralsAtEnd(m, op, oend_w, litPtr, n, split) ==
    IF split THEN ZSTD_safecopyDstBeforeSrc(m, op, litPtr, n)
             ELSE ZSTD_safecopy(m, op, oend_w, litPtr, n, FALSE)

OffsetBad(op, seq) == seq.offset > Diff(op, dctx.virtualStart)

(* ZSTD_execSequenceEnd and its twin for split literals, near the end of    *)
(* the output or of the literals.                                           *)
ZSTD_execSequenceEnd(m, op, oend, oend_w, litPtr, litLimit, seq, split) ==
    IF \/ seq.ll + seq.ml > Diff(oend, op)
       \/ seq.ll > Diff(litLimit, litPtr)
       \/ split /\ Diff(op, litPtr) > 0 /\ Diff(op, Plus(litPtr, seq.ll)) < 0
       \/ OffsetBad(Plus(op, seq.ll), seq)
    THEN [ok |-> FALSE]
    ELSE [ok |-> TRUE,
          mem |-> CopyMatch(CopyLiteralsAtEnd(m, op, oend_w, litPtr, seq.ll, split),
                            Plus(op, seq.ll), oend_w, seq, TRUE)]

ZSTD_execSequence(m, op, oend, oend_w, litPtr, litLimit, seq, split) ==
    IF Diff(Plus(litPtr, seq.ll), litLimit) > 0 \/ Diff(Plus(op, seq.ll + seq.ml), oend_w) > 0
    THEN ZSTD_execSequenceEnd(m, op, oend, oend_w, litPtr, litLimit, seq, split)
    ELSE IF OffsetBad(Plus(op, seq.ll), seq) THEN [ok |-> FALSE]
    ELSE [ok |-> TRUE,
          mem |-> CopyMatch(CopyLiterals(m, op, litPtr, seq.ll), Plus(op, seq.ll), oend_w, seq, FALSE)]

ToLitExtra(m, op, litPtr, n) == ZSTD_safecopyDstBeforeSrc(m, op, litPtr, n)

(* One sequence is executed.  While the literals are split the output must  *)
(* not reach them; the sequence that needs more than there are gets the     *)
(* rest of them, and goes on with those in litExtraBuffer.                  *)
Executed(seq) ==
    LET leftover == Diff(blk.litBufferEnd, blk.litPtr)
        turns == blk.loc = "split" /\ seq.ll > leftover
        seq1 == IF turns THEN [seq EXCEPT !.ll = @ - leftover] ELSE seq
        op == IF turns THEN Plus(blk.op, leftover) ELSE blk.op
        litPtr == IF turns THEN At("extra", 0) ELSE blk.litPtr
        litEnd == IF turns THEN At("extra", ZSTD_LITBUFFEREXTRASIZE) ELSE blk.litBufferEnd
        m == IF turns /\ leftover # 0 THEN ToLitExtra(mem, blk.op, blk.litPtr, leftover) ELSE mem
        split == blk.loc = "split" /\ ~turns
        limit == Plus(IF split THEN Plus(litPtr, seq1.ll) ELSE blk.oend, -WILDCOPY_OVERLENGTH)
        done == ZSTD_execSequence(m, op, blk.oend, limit, litPtr, litEnd, seq1, split)
    IN  IF turns /\ leftover > Diff(blk.oend, blk.op) THEN [ok |-> FALSE]
        ELSE IF ~done.ok THEN [ok |-> FALSE]
        ELSE [ok |-> TRUE, mem |-> done.mem,
              blk |-> [blk EXCEPT !.op = Plus(op, seq1.ll + seq1.ml), !.litPtr = Plus(litPtr, seq1.ll),
                                  !.litBufferEnd = litEnd, !.loc = IF turns THEN "not_in_dst" ELSE @]]

NextSequence == ZSTD_decodeSequence(src, blk.q, TablesOf(dctx), blk.nbSeq = 1)

(* A round of the loops over the sequences: decode one, execute it. *)
Sequence ==
    /\ pc = "sequences" /\ blk.nbSeq > 0
    /\ UNCHANGED dctx
    /\ \E seq \in {NextSequence} : \E done \in {Executed(seq)} :
          IF ~done.ok THEN Fail
          ELSE /\ mem' = done.mem
               /\ blk' = [done.blk EXCEPT !.nbSeq = @ - 1, !.q = seq.next]
               /\ UNCHANGED <<todo, g_dict, pc, call, answer>>

(* The bits must be used up; the offsets are kept for the next block. *)
EndSequences ==
    /\ pc = "sequences" /\ blk.nbSeq = 0
    /\ IF ~BIT_endOfDStream(blk.q.d) THEN Fail /\ UNCHANGED dctx
       ELSE /\ dctx' = [dctx EXCEPT !.rep = blk.q.prev]
            /\ pc' = "last"
            /\ UNCHANGED <<todo, g_dict, mem, call, blk, answer>>

(* ZSTD_decompressSequencesLong: eight are decoded ahead of the one that is *)
(* executed, so that their matches are fetched in time.                     *)
PrepareSequence ==
    /\ pc = "long" /\ Len(blk.ready) < STORED_SEQS
    /\ \E seq \in {NextSequence} :
          blk' = [blk EXCEPT !.nbSeq = @ - 1, !.q = seq.next,
                             !.ready = Append(@, [ll |-> seq.ll, ml |-> seq.ml, offset |-> seq.offset])]
    /\ UNCHANGED <<todo, g_dict, dctx, mem, pc, call, answer>>

SequenceLong ==
    /\ pc = "long" /\ Len(blk.ready) = STORED_SEQS /\ blk.nbSeq > 0
    /\ UNCHANGED dctx
    /\ \E seq \in {NextSequence} : \E done \in {Executed(Head(blk.ready))} :
          IF ~done.ok THEN Fail
          ELSE /\ mem' = done.mem
               /\ blk' = [done.blk EXCEPT !.nbSeq = @ - 1, !.q = seq.next,
                            !.ready = Append(Tail(@), [ll |-> seq.ll, ml |-> seq.ml, offset |-> seq.offset])]
               /\ UNCHANGED <<todo, g_dict, pc, call, answer>>

(* The bits must be used up before the last eight are executed. *)
EndOfStreamLong ==
    /\ pc = "long" /\ Len(blk.ready) = STORED_SEQS /\ blk.nbSeq = 0
    /\ UNCHANGED dctx
    /\ IF ~BIT_endOfDStream(blk.q.d) THEN Fail
       ELSE pc' = "queue" /\ UNCHANGED <<todo, g_dict, mem, call, blk, answer>>

FinishQueue ==
    /\ pc = "queue" /\ blk.ready # << >>
    /\ UNCHANGED dctx
    /\ \E done \in {Executed(Head(blk.ready))} :
          IF ~done.ok THEN Fail
          ELSE /\ mem' = done.mem
               /\ blk' = [done.blk EXCEPT !.ready = Tail(@)]
               /\ UNCHANGED <<todo, g_dict, pc, call, answer>>

EndQueue ==
    /\ pc = "queue" /\ blk.ready = << >>
    /\ dctx' = [dctx EXCEPT !.rep = blk.q.prev]
    /\ pc' = "last"
    /\ UNCHANGED <<todo, g_dict, mem, call, blk, answer>>

(* The literals no sequence took. *)
LastLiterals ==
    LET n == Diff(blk.litBufferEnd, blk.litPtr)
        op1 == Plus(blk.op, n)
        split == blk.loc = "split"
        total == IF split THEN n + ZSTD_LITBUFFEREXTRASIZE ELSE n
        m == IF split THEN memcpy(memmove(mem, blk.op, blk.litPtr, n), op1, At("extra", 0), ZSTD_LITBUFFEREXTRASIZE)
             ELSE memcpy(mem, blk.op, blk.litPtr, n)
    IN
    /\ pc = "last"
    /\ IF total > Diff(blk.oend, blk.op) THEN Fail /\ UNCHANGED dctx
       ELSE Decoded(m, dctx, Diff(blk.op, At("dst", call.op)) + total)

Done == pc = "idle" /\ todo = << >> /\ UNCHANGED vars

Next ==
    \/ unpin_zstd_set_dict \/ unpin_zstd_decompress
    \/ AllFrames \/ SkipFrame \/ BeginFrame \/ EndFrame
    \/ BadBlock \/ ZSTD_copyRawBlock \/ ZSTD_setRleBlock
    \/ BadLiterals \/ HuffmanLiterals \/ RawLiterals \/ RleLiterals
    \/ ZSTD_decodeSeqHeaders \/ Sequence \/ EndSequences
    \/ PrepareSequence \/ SequenceLong \/ EndOfStreamLong \/ FinishQueue \/ EndQueue
    \/ LastLiterals \/ Done

Spec == Init /\ [][Next]_vars
=============================================================================

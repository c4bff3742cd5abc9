------------------------------ MODULE ZstdHead ------------------------------
(***************************************************************************)
(* What the zstd decoder (src/zstddeclib.c) reads before it decodes, and    *)
(* how it reads a sequence: the tables of sequences, of fields ll for the   *)
(* length of literals, of for offsets, ml for the length of matches; the    *)
(* headers of frames, of blocks, of their literals and of their sequences;  *)
(* the tables of a dictionary.  s is the entry, ip how many bytes of it are *)
(* behind.                                                                  *)
(***************************************************************************)
EXTENDS ZstdHuf

CONSTANTS
    ZSTD_BLOCKSIZE_MAX,
    ZSTD_WINDOWLOG_ABSOLUTEMIN

ASSUME HeadAssumption == ZSTD_WINDOWLOG_ABSOLUTEMIN \in 3 .. 31

-----------------------------------------------------------------------------
(* The sequences of a block. *)

Field == {"ll", "of", "ml"}

MaxSymbol == [ll |-> 35, of |-> 31, ml |-> 52]
FSELog == [ll |-> 9, of |-> 8, ml |-> 9]

(* The bits that follow a symbol, and the least value it stands for. *)
LL_bits == <<0, 0, 0, 0, 0, 0, 0, 0, 0, 0, 0, 0, 0, 0, 0, 0,
             1, 1, 1, 1, 2, 2, 3, 3, 4, 6, 7, 8, 9, 10, 11, 12, 13, 14, 15, 16>>
ML_bits == <<0, 0, 0, 0, 0, 0, 0, 0, 0, 0, 0, 0, 0, 0, 0, 0, 0, 0, 0, 0, 0, 0, 0, 0, 0, 0, 0, 0, 0, 0, 0, 0,
             1, 1, 1, 1, 2, 2, 3, 3, 4, 4, 5, 7, 8, 9, 10, 11, 12, 13, 14, 15, 16>>
nbAdditionalBits == [ll |-> LL_bits, of |-> [k \in 1 .. 32 |-> k - 1], ml |-> ML_bits]

Following(first, bits) ==
    LET f[k \in 1 .. Len(bits)] == IF k = 1 THEN first ELSE f[k - 1] + 2 ^ bits[k - 1] IN f
baseValue ==
    [ll |-> Following(0, LL_bits), ml |-> Following(3, ML_bits),
     of |-> [k \in 1 .. 32 |-> IF k <= 2 THEN k - 1 ELSE IF k < 32 THEN 2 ^ (k - 1) - 3 ELSE 0]]

Cell(x, symbol, nbBits, nextState) ==
    [base |-> baseValue[x][symbol + 1], extra |-> nbAdditionalBits[x][symbol + 1],
     nbBits |-> nbBits, nextState |-> nextState]

ZSTD_buildFSETable(x, norm, log) ==
    LET t == FSE_buildDTable(norm, log) IN
    [log |-> log, cells |-> [u \in DOMAIN t |-> Cell(x, t[u].symbol, t[u].nbBits, t[u].newState)]]

ZSTD_buildSeqTable_rle(x, symbol) == [log |-> 0, cells |-> [u \in {0} |-> Cell(x, symbol, 0, 0)]]

(* The tables of blocks that bring none of their own. *)
defaultNorm ==
    [ll |-> <<4, 3, 2, 2, 2, 2, 2, 2, 2, 2, 2, 2, 2, 1, 1, 1,
              2, 2, 2, 2, 2, 2, 2, 2, 2, 3, 2, 1, 1, 1, 1, 1, -1, -1, -1, -1>>,
     of |-> <<1, 1, 1, 1, 1, 1, 2, 2, 2, 1, 1, 1, 1, 1, 1, 1,
              1, 1, 1, 1, 1, 1, 1, 1, -1, -1, -1, -1, -1>>,
     ml |-> <<1, 4, 3, 2, 2, 2, 2, 2, 2, 1, 1, 1, 1, 1, 1, 1, 1, 1, 1, 1, 1, 1, 1, 1, 1, 1, 1, 1, 1, 1, 1, 1,
              1, 1, 1, 1, 1, 1, 1, 1, 1, 1, 1, 1, 1, 1, -1, -1, -1, -1, -1, -1, -1>>]
defaultLog == [ll |-> 6, of |-> 5, ml |-> 6]
DefaultDTable == [x \in Field |-> ZSTD_buildFSETable(x, defaultNorm[x], defaultLog[x])]

(* What the header h makes of the table of field x: the one that is used,   *)
(* a new one in the context's space, and how many bytes it took.            *)
set_basic == 0
set_rle == 1
set_compressed == 2
set_repeat == 3

ZSTD_buildSeqTable(x, type, h, flagRepeatTable) ==
    LET own(table, n) == [kind |-> "space", table |-> table, size |-> n]
        refused == [kind |-> "refused"]
        described(c) == IF ~c.ok THEN refused
                        ELSE IF c.log > FSELog[x] THEN refused
                        ELSE own(ZSTD_buildFSETable(x, c.norm, c.log), c.size)
    IN
    CASE type = set_rle -> IF h = << >> THEN refused
                           ELSE IF h[1] > MaxSymbol[x] THEN refused
                           ELSE own(ZSTD_buildSeqTable_rle(x, h[1]), 1)
      [] type = set_basic -> [kind |-> "default", size |-> 0]
      [] type = set_repeat -> IF flagRepeatTable THEN [kind |-> "same", size |-> 0] ELSE refused
      [] type = set_compressed -> described(FSE_readNCount(h, MaxSymbol[x] + 1))

-----------------------------------------------------------------------------
(* q: the bit stream, the state of each field, the last three offsets. *)
ZSTD_initFseState(s, q, x, log) ==
    [q EXCEPT !.state[x] = BIT_lookBits(s, q.d, log), !.d = BIT_reloadDStream(BIT_skipBits(@, log))]

ZSTD_initSeqState(s, d, tables, rep) ==
    LET q1 == ZSTD_initFseState(s, [d |-> d, state |-> [x \in Field |-> 0], prev |-> rep], "ll", tables.ll.log)
        q2 == ZSTD_initFseState(s, q1, "of", tables.of.log)
    IN  ZSTD_initFseState(s, q2, "ml", tables.ml.log)

ZSTD_updateFseState(s, q, x, cell) ==
    [q EXCEPT !.state[x] = cell.nextState + BIT_lookBits(s, q.d, cell.nbBits), !.d = BIT_skipBits(@, cell.nbBits)]

(* A value and the stream behind its bits; none are read for 0 bits. *)
Valued(s, d, cell) ==
    IF cell.extra = 0 THEN [value |-> cell.base, d |-> d]
    ELSE [value |-> cell.base + BIT_lookBitsFast(s, d, cell.extra), d |-> BIT_skipBits(d, cell.extra)]

(* An offset of 0 is made one no history reaches.  Those of the last code,  *)
(* which TLC cannot count up to, are such offsets anyway.                   *)
Unreachable == 2 ^ 30

(* The offset, by its value or as one of the last three, which move up. *)
Offset(cell, value, ll0, prev) ==
    LET k == value + (IF ll0 THEN 1 ELSE 0)     \* of a code of one bit: 1 to 3
        temp == IF k = 3 THEN prev[1] - 1 ELSE prev[k + 1]
        given == IF temp = 0 THEN Unreachable ELSE temp
    IN
    IF cell.extra = MaxSymbol.of THEN <<Unreachable, prev[1], prev[2]>>
    ELSE IF cell.extra > 1 THEN <<value, prev[1], prev[2]>>
    ELSE IF cell.extra = 0 THEN IF ll0 THEN <<prev[2], prev[1], prev[3]>> ELSE prev
    ELSE <<given, prev[1], IF k # 1 THEN prev[2] ELSE prev[3]>>

(* Offset, match and literals are read in this order, the states in         *)
(* another; behind the last sequence there are none.                        *)
ZSTD_decodeSequence(s, q, tables, isLastSeq) ==
    LET cell(x) == tables[x].cells[q.state[x]]
        off == Valued(s, q.d, cell("of"))
        prev == Offset(cell("of"), off.value, cell("ll").base = 0, q.prev)
        ml == Valued(s, off.d, cell("ml"))
        totalBits == cell("ll").extra + cell("ml").extra + cell("of").extra
        ll == Valued(s, IF totalBits >= 57 - 26 THEN BIT_reloadDStream(ml.d) ELSE ml.d, cell("ll"))
        q1 == ZSTD_updateFseState(s, [q EXCEPT !.d = ll.d, !.prev = prev], "ll", cell("ll"))
        q2 == ZSTD_updateFseState(s, q1, "ml", cell("ml"))
        q3 == ZSTD_updateFseState(s, q2, "of", cell("of"))
    IN  [ll |-> ll.value, ml |-> ml.value, offset |-> prev[1],
         next |-> IF isLastSeq THEN [q EXCEPT !.d = ll.d, !.prev = prev]
                  ELSE [q3 EXCEPT !.d = BIT_reloadDStream(@)]]

(* Far offsets: a table where many codes are of more than LongCode bits. *)
ZSTD_getOffsetInfo(table, LongCode) ==
    LET long == {u \in DOMAIN table.cells : table.cells[u].extra > LongCode}
        n[k \in 0 .. 2 ^ table.log] ==
            IF k = 0 THEN 0 ELSE n[k - 1] + (IF k - 1 \in long THEN 1 ELSE 0)
    IN  n[2 ^ table.log] * 2 ^ (FSELog.of - table.log)

-----------------------------------------------------------------------------
(* The headers. *)

Refused == [ok |-> FALSE]

(* A number of n bytes.  Of those that are larger than any size here it     *)
(* does not matter which it is.                                             *)
Huge == 2 ^ 30
LE(s, ip, n) ==
    LET byte(k) == IF k <= n THEN s[ip + k] ELSE 0 IN
    IF byte(4) >= 64 \/ (\E k \in 5 .. n : byte(k) # 0) THEN Huge
    ELSE byte(1) + 2 ^ 8 * byte(2) + 2 ^ 16 * byte(3) + 2 ^ 24 * byte(4)

-----------------------------------------------------------------------------
ZSTD_MAGICNUMBER == <<40, 181, 47, 253>>
ZSTD_MAGIC_DICTIONARY == <<55, 164, 48, 236>>
ZSTD_SKIPPABLEHEADERSIZE == 8
ZSTD_blockHeaderSize == 3

Skippable(s, ip) == s[ip + 1] \div 16 = 5 /\ SubSeq(s, ip + 2, ip + 4) = <<42, 77, 24>>

readSkippableFrameSize(s, ip) ==
    LET left == Len(s) - ip
        size == ZSTD_SKIPPABLEHEADERSIZE + LE(s, ip + 4, 4) IN
    IF left < ZSTD_SKIPPABLEHEADERSIZE THEN Refused
    ELSE IF size > left THEN Refused
    ELSE [ok |-> TRUE, size |-> size]

ZSTD_did_fieldSize == <<0, 1, 2, 4>>
ZSTD_fcs_fieldSize == <<0, 2, 4, 8>>

SingleSegment(fhd) == (fhd \div 32) % 2 = 1

ZSTD_frameHeaderSize_internal(s, ip) ==
    LET fhd == s[ip + 5] IN
    5 + ZSTD_did_fieldSize[(fhd % 4) + 1] + ZSTD_fcs_fieldSize[fhd \div 64 + 1]
      + (IF ~SingleSegment(fhd) \/ fhd \div 64 = 0 THEN 1 ELSE 0)

ZSTD_CONTENTSIZE_UNKNOWN == -1
ZSTD_WINDOWLOG_MAX == 31
NoID == <<0, 0, 0, 0>>

(* A window is only asked whether it is smaller than a block may be. *)
WindowSize(wlByte) ==
    LET log == Least(wlByte \div 8 + ZSTD_WINDOWLOG_ABSOLUTEMIN, 20) IN
    2 ^ log + (2 ^ log \div 8) * (wlByte % 8)

(* The frame's header is there as a whole. *)
ZSTD_getFrameHeader_advanced(s, ip) ==
    LET fhd == s[ip + 5]
        did == ip + 5 + (IF SingleSegment(fhd) THEN 0 ELSE 1)
        didSize == ZSTD_did_fieldSize[(fhd % 4) + 1]
        fcs == did + didSize
        fcsID == fhd \div 64
        contentSize == CASE fcsID = 0 -> IF SingleSegment(fhd) THEN s[fcs + 1] ELSE ZSTD_CONTENTSIZE_UNKNOWN
                         [] fcsID = 1 -> LE(s, fcs, 2) + 256
                         [] fcsID \in {2, 3} -> LE(s, fcs, ZSTD_fcs_fieldSize[fcsID + 1])
        window == IF SingleSegment(fhd) THEN contentSize ELSE WindowSize(s[ip + 6])
    IN  IF SubSeq(s, ip + 1, ip + 4) # ZSTD_MAGICNUMBER \/ (fhd \div 8) % 2 = 1 THEN Refused
        ELSE IF ~SingleSegment(fhd) /\ s[ip + 6] \div 8 + ZSTD_WINDOWLOG_ABSOLUTEMIN > ZSTD_WINDOWLOG_MAX
        THEN Refused
        ELSE [ok |-> TRUE, frameContentSize |-> contentSize,
              blockSizeMax |-> Least(window, ZSTD_BLOCKSIZE_MAX),
              dictID |-> [k \in 1 .. 4 |-> IF k <= didSize THEN s[did + k] ELSE 0],
              checksumFlag |-> (fhd \div 4) % 2 = 1, headerSize |-> ZSTD_frameHeaderSize_internal(s, ip)]

-----------------------------------------------------------------------------
bt_raw == 0
bt_rle == 1
bt_compressed == 2

ZSTD_getcBlockSize(s, ip) ==
    LET header == LE(s, ip, 3)
        type == (header \div 2) % 4
        block(cSize) == [ok |-> TRUE, last |-> header % 2 = 1, type |-> type, cSize |-> cSize,
                         origSize |-> header \div 8]
    IN  IF Len(s) - ip < ZSTD_blockHeaderSize THEN Refused
        ELSE CASE type = bt_rle -> block(1)
               [] type \in {bt_raw, bt_compressed} -> block(header \div 8)
               [] type = 3 -> Refused

-----------------------------------------------------------------------------
(* The literals of a block of srcSize bytes: how many there are, and of how *)
(* many bytes they are made.                                                *)
MIN_CBLOCK_SIZE == 2
MIN_LITERALS_FOR_4_STREAMS == 6

HuffmanHeader(s, ip, srcSize, type) ==
    LET lhlCode == (s[ip + 1] \div 4) % 4
        width == <<10, 10, 14, 18>>[lhlCode + 1]
        lhSize == <<3, 3, 4, 5>>[lhlCode + 1]
        litSize == Bits(s, Len(s), 8 * ip + 4, width)
        litCSize == Bits(s, Len(s), 8 * ip + 4 + width, width)
    IN  IF srcSize < 5 THEN Refused
        ELSE [ok |-> (lhlCode # 0 => litSize >= MIN_LITERALS_FOR_4_STREAMS) /\ litCSize + lhSize <= srcSize,
              type |-> type, single |-> lhlCode = 0, lhSize |-> lhSize, litSize |-> litSize, litCSize |-> litCSize]

PlainHeader(s, ip, srcSize, type) ==
    LET lhlCode == (s[ip + 1] \div 4) % 4
        lhSize == <<1, 2, 1, 3>>[lhlCode + 1]
        litSize == IF lhSize = 1 THEN s[ip + 1] \div 8 ELSE LE(s, ip, lhSize) \div 16
        litCSize == IF type = set_rle THEN 1 ELSE litSize
    IN  IF srcSize < lhSize + (IF type = set_rle THEN 1 ELSE 0) THEN Refused
        ELSE [ok |-> lhSize + litCSize <= srcSize,
              type |-> type, lhSize |-> lhSize, litSize |-> litSize, litCSize |-> litCSize]

LiteralsHeader(s, ip, srcSize) ==
    LET type == s[ip + 1] % 4 IN
    IF srcSize < MIN_CBLOCK_SIZE THEN Refused
    ELSE IF type \in {set_compressed, set_repeat} THEN HuffmanHeader(s, ip, srcSize, type)
    ELSE PlainHeader(s, ip, srcSize, type)

(* h: what is left of the block.  The number of sequences, and the types of *)
(* their tables.                                                            *)
LONGNBSEQ == 32512

NbSeq(h) ==
    LET n(value, size) == [ok |-> TRUE, nbSeq |-> value, size |-> size] IN
    IF h = << >> THEN Refused
    ELSE IF h[1] < 128 THEN n(h[1], 1)
    ELSE IF Len(h) < (IF h[1] = 255 THEN 3 ELSE 2) THEN Refused
    ELSE IF h[1] = 255 THEN n(LE16(h, 1) + LONGNBSEQ, 3)
    ELSE n((h[1] - 128) * 2 ^ 8 + h[2], 2)

SequencesHeader(h) ==
    LET n == NbSeq(h)
        modes == h[n.size + 1] IN
    IF ~n.ok THEN Refused
    ELSE IF n.nbSeq = 0 THEN [n EXCEPT !.ok = Len(h) = n.size]
    ELSE IF Len(h) <= n.size THEN Refused
    ELSE [ok |-> modes % 4 = 0, nbSeq |-> n.nbSeq, size |-> n.size + 1,
          type |-> [ll |-> modes \div 64, of |-> (modes \div 16) % 4, ml |-> (modes \div 4) % 4]]

-----------------------------------------------------------------------------
(* The tables and offsets of a dictionary; what is behind them is history.  *)
(* The tree of one that fails later on has taken the place of the last.     *)
TreeOf(dict, stats) ==
    IF ~stats.ok THEN [ok |-> FALSE, made |-> FALSE]
    ELSE [ok |-> TRUE, made |-> TRUE, hufTable |-> HUF_readDTableX2(stats), size |-> 8 + stats.size,
          tables |-> [x \in Field |-> << >>]]

WithTable(dict, e, x) ==
    LET Of(c) == IF ~c.ok THEN [e EXCEPT !.ok = FALSE]
                 ELSE IF c.log > FSELog[x] THEN [e EXCEPT !.ok = FALSE]
                 ELSE [e EXCEPT !.size = @ + c.size, !.tables[x] = ZSTD_buildFSETable(x, c.norm, c.log)]
    IN  IF ~e.ok THEN e ELSE Of(FSE_readNCount(SubSeq(dict, e.size + 1, Len(dict)), MaxSymbol[x] + 1))

WithOffsets(dict, e) ==
    LET content == Len(dict) - e.size - 12
        Of(rep) == [ok |-> \A k \in 1 .. 3 : rep[k] \in 1 .. content, made |-> TRUE, hufTable |-> e.hufTable,
                    tables |-> e.tables, rep |-> rep, size |-> e.size + 12]
    IN  IF ~e.ok THEN e
        ELSE IF content < 0 THEN [e EXCEPT !.ok = FALSE]
        ELSE Of([k \in 1 .. 3 |-> LE(dict, e.size + 4 * (k - 1), 4)])

ZSTD_loadDEntropy(dict) ==
    IF Len(dict) <= 8 THEN [ok |-> FALSE, made |-> FALSE]
    ELSE WithOffsets(dict, WithTable(dict, WithTable(dict, WithTable(dict,
             TreeOf(dict, HUF_readStats(dict, 8, Len(dict) - 8)), "of"), "ml"), "ll"))
=============================================================================

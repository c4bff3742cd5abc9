------------------------------- MODULE ZstdFse ------------------------------
(***************************************************************************)
(* Bit streams and finite state entropy in the zstd decoder                 *)
(* (src/zstddeclib.c).  A stream is read from its last byte on, through a   *)
(* register of 64 bits: it is the place of its bytes in a sequence s, where *)
(* its register was loaded, and how many bits of the register are used up.  *)
(* What is asked for beyond the register comes out as the shifts of the     *)
(* processor have it.  On streams rest the headers that say how often each  *)
(* symbol is, the tables made of them, and the weights of a Huffman tree,   *)
(* that are decoded with two states in turn.                                *)
(***************************************************************************)
EXTENDS Integers, Sequences

Register == 64      \* bits of bitContainer; the decoder of 64-bit builds

Least(x, y) == IF x < y THEN x ELSE y

ZSTD_highbit32(v) == CHOOSE k \in 0 .. 17 : 2 ^ k <= v /\ v < 2 ^ (k + 1)

ByteAt(s, end, j) == IF j < end THEN s[j + 1] ELSE 0

(* n bits from bit k on, for as many as three bytes hold, and for more. *)
Window(s, end, k, n) ==
    LET j == k \div 8 IN
    ((ByteAt(s, end, j) + 2 ^ 8 * ByteAt(s, end, j + 1) + 2 ^ 16 * ByteAt(s, end, j + 2)) \div 2 ^ (k % 8)) % 2 ^ n
Bits(s, end, k, n) ==
    IF n <= 16 THEN Window(s, end, k, n)
    ELSE Window(s, end, k, 16) + 2 ^ 16 * Window(s, end, k + 16, n - 16)

LE16(s, j) == s[j + 1] + 2 ^ 8 * s[j + 2]

(* size bytes of s from start on.  The last of them holds the end mark. *)
NoStream == [ok |-> FALSE]
BIT_initDStream(s, start, size) ==
    IF size < 1 THEN NoStream
    ELSE IF s[start + size] = 0 THEN NoStream
    ELSE [ok |-> TRUE, start |-> start, end |-> start + size, status |-> "unfinished",
          at |-> IF size >= 8 THEN start + size - 8 ELSE start,
          consumed |-> 8 - ZSTD_highbit32(s[start + size]) + (IF size >= 8 THEN 0 ELSE 8 * (8 - size))]

InRegister(s, d, i, n) == Bits(s, d.end, 8 * d.at + i, n)

BIT_lookBits(s, d, n) ==
    LET i == (Register - d.consumed - n) % Register IN
    InRegister(s, d, i, Least(n, Register - i))
BIT_lookBitsFast(s, d, n) ==
    LET left == Register - (d.consumed % Register) IN
    IF left >= n THEN InRegister(s, d, left - n, n)
    ELSE InRegister(s, d, 0, left) * 2 ^ (n - left)

BIT_skipBits(d, n) == [d EXCEPT !.consumed = @ + n]

BIT_reloadDStream_internal(d) ==
    [d EXCEPT !.at = @ - d.consumed \div 8, !.consumed = @ % 8, !.status = "unfinished"]
BIT_reloadDStreamFast(d) ==
    IF d.at < d.start + 8 THEN [d EXCEPT !.status = "overflow"] ELSE BIT_reloadDStream_internal(d)
BIT_reloadDStream(d) ==
    LET bytes == Least(d.consumed \div 8, d.at - d.start)
        cautious == [d EXCEPT !.at = @ - bytes, !.consumed = @ - 8 * bytes,
                              !.status = IF bytes < d.consumed \div 8 THEN "endOfBuffer" ELSE "unfinished"]
    IN
    IF d.consumed > Register THEN [d EXCEPT !.status = "overflow"]
    ELSE IF d.at >= d.start + 8 THEN BIT_reloadDStream_internal(d)
    ELSE IF d.at > d.start THEN cautious
    ELSE [d EXCEPT !.status = IF d.consumed < Register THEN "endOfBuffer" ELSE "completed"]

BIT_endOfDStream(d) == d.at = d.start /\ d.consumed = Register

-----------------------------------------------------------------------------
FSE_MIN_TABLELOG == 5

NoCounts == [ok |-> FALSE, log |-> 0]

(* The header is read in words of 32 bits.  The last word is never passed:  *)
(* near the end it is the bits in it that move on.                          *)
Word(h, c, n) == IF c.bit >= 32 THEN 0 ELSE Window(h, Len(h), 8 * c.ip + c.bit, Least(n, 32 - c.bit))

Onward(c, iend) ==
    IF c.ip <= iend - 7 \/ c.ip + c.bit \div 8 <= iend - 4
    THEN [c EXCEPT !.ip = @ + c.bit \div 8, !.bit = @ % 8]
    ELSE [c EXCEPT !.ip = iend - 4, !.bit = (@ - 8 * (iend - 4 - c.ip)) % 32]

(* A symbol that never occurs is followed by how many more do not. *)
ZerosHere(h, c) ==
    LET all(r) == Word(h, [c EXCEPT !.bit = @ + 2 * r], 2) = 3 IN
    CHOOSE r \in 0 .. 15 : (r = 15 \/ ~all(r)) /\ \A q \in 0 .. r - 1 : all(q)

RECURSIVE ZeroRun(_, _, _)
ZeroRun(h, c, iend) ==
    LET far == [c EXCEPT !.charnum = @ + 36,
                         !.ip = IF c.ip <= iend - 7 THEN @ + 3 ELSE iend - 4,
                         !.bit = IF c.ip <= iend - 7 THEN @ ELSE (@ - 8 * (iend - 7 - c.ip)) % 32]
        Upto(r, last) == [last EXCEPT !.bit = @ + 2, !.charnum = @ + 3 * r + Word(h, last, 2)]
        Run(r) == IF r >= 12 THEN ZeroRun(h, far, iend) ELSE Upto(r, [c EXCEPT !.bit = @ + 2 * r])
    IN  Run(ZerosHere(h, c))

(* The count of one symbol; -1 is less than one.  Values that cannot occur  *)
(* any more make the frequent ones shorter by a bit.                        *)
Narrowed(c) ==
    LET bits == ZSTD_highbit32(c.remaining) + 1 IN
    IF c.remaining < c.threshold /\ c.remaining > 1
    THEN [c EXCEPT !.nbBits = bits, !.threshold = 2 ^ (bits - 1)] ELSE c

OneCount(h, c) ==
    LET max == 2 * c.threshold - 1 - c.remaining
        Counted(count, nbBits) ==
            Narrowed([c EXCEPT !.bit = @ + nbBits,
                               !.remaining = @ - (IF count >= 0 THEN count ELSE 1),
                               !.norm = [i \in 1 .. c.charnum + 1 |->
                                   IF i <= Len(@) THEN @[i] ELSE IF i = c.charnum + 1 THEN count ELSE 0],
                               !.charnum = @ + 1, !.zero = count = 0])
        Read(short, long) ==
            IF short < max THEN Counted(short - 1, c.nbBits - 1)
            ELSE Counted((IF long >= c.threshold THEN long - max ELSE long) - 1, c.nbBits)
    IN  Read(Word(h, c, c.nbBits - 1), Word(h, c, c.nbBits))

(* One round of the loop; the count it may end with is still to be read. *)
RECURSIVE Counts(_, _, _, _)
Counts(h, c, iend, maxSV1) ==
    LET After(next) ==
            IF next.remaining <= 1 \/ next.charnum >= maxSV1 THEN next
            ELSE Counts(h, Onward(next, iend), iend, maxSV1)
        From(run) ==
            IF run.charnum >= maxSV1 THEN run
            ELSE After(OneCount(h, IF c.zero THEN Onward(run, iend) ELSE c))
    IN  From(IF c.zero THEN ZeroRun(h, c, iend) ELSE c)

(* The counts of at most maxSV1 symbols in the header h, a sequence of      *)
(* bytes; one of fewer than 8 bytes is read as if zeros followed.           *)
FSE_readNCount(h, maxSV1) ==
    LET Checked(log, c, size) ==
            IF c.remaining # 1 \/ c.charnum > maxSV1 \/ c.bit > 32 \/ size > Len(h) THEN NoCounts
            ELSE [ok |-> TRUE, log |-> log, norm |-> c.norm, size |-> size]
        Read(log, c) == IF log > 15 THEN NoCounts ELSE Checked(log, c, c.ip + ((c.bit + 7) \div 8))
        Of(padded, log) ==
            Read(log, Counts(padded, [ip |-> 0, bit |-> 4, remaining |-> 2 ^ log + 1, threshold |-> 2 ^ log,
                                      nbBits |-> log + 1, charnum |-> 0, zero |-> FALSE, norm |-> << >>],
                             Len(padded), maxSV1))
        Padded(p) == Of(p, (p[1] % 16) + FSE_MIN_TABLELOG)
    IN  Padded(IF Len(h) >= 8 THEN h ELSE [i \in 1 .. 8 |-> IF i <= Len(h) THEN h[i] ELSE 0])

-----------------------------------------------------------------------------
(* A table of states.  Symbols that occur less than once have a state each  *)
(* at its end; the states of the others are spread by steps over the rest.  *)
FSE_TABLESTEP(size) == size \div 2 + size \div 8 + 3

Symbols(norm) == [k \in 1 .. Len(norm) |-> k - 1]
Low(norm) == SelectSeq(Symbols(norm), LAMBDA s : norm[s + 1] = -1)

RECURSIVE LaidDown(_, _)
LaidDown(norm, k) ==
    IF k > Len(norm) THEN << >>
    ELSE (IF norm[k] > 0 THEN [i \in 1 .. norm[k] |-> k - 1] ELSE << >>) \o LaidDown(norm, k + 1)

(* The symbols by state, from state 0 on. *)
SymbolsSpread(norm, log) ==
    LET size == 2 ^ log
        low == Low(norm)
        highThreshold == size - 1 - Len(low)
        laid == LaidDown(norm, 1)
        visited == SelectSeq([i \in 1 .. size |-> ((i - 1) * FSE_TABLESTEP(size)) % size],
                             LAMBDA p : p <= highThreshold)
    IN  [u \in 0 .. size - 1 |->
            IF u > highThreshold THEN low[size - u]
            ELSE laid[CHOOSE i \in 1 .. Len(visited) : visited[i] = u]]

(* The states of a symbol share out all the states by how many bits they    *)
(* add to their base.                                                       *)
States(norm, log, symbols) ==
    LET occurs(s) == IF norm[s + 1] = -1 THEN 1 ELSE norm[s + 1]
        before(u) == Len(SelectSeq([i \in 1 .. u |-> symbols[i - 1]], LAMBDA s : s = symbols[u]))
        state(u, next) ==
            LET nbBits == log - ZSTD_highbit32(next) IN
            [symbol |-> symbols[u], nbBits |-> nbBits, newState |-> next * 2 ^ nbBits - 2 ^ log]
    IN  [u \in DOMAIN symbols |-> state(u, occurs(symbols[u]) + before(u))]

FSE_buildDTable(norm, log) ==
    CHOOSE t \in {States(norm, log, symbols) : symbols \in {SymbolsSpread(norm, log)}} : TRUE

(* No symbol takes half the table: every state reads a bit at least. *)
FastMode(norm, log) == \A k \in DOMAIN norm : norm[k] < 2 ^ (log - 1)

-----------------------------------------------------------------------------
(* x: the stream, the two states, and what is decoded. *)
FSE_decodeSymbol(s, x, k, t, fast) ==
    LET e == t[x.state[k]]
        low == IF fast THEN BIT_lookBitsFast(s, x.d, e.nbBits) ELSE BIT_lookBits(s, x.d, e.nbBits)
    IN  [x EXCEPT !.out = Append(@, e.symbol), !.state[k] = e.newState + low, !.d.consumed = @ + e.nbBits]

FSE_initDState(s, x, k, log) ==
    [x EXCEPT !.state[k] = BIT_lookBits(s, x.d, log), !.d = BIT_reloadDStream(BIT_skipBits(@, log))]

FourSymbols(s, x, t, fast) ==
    FSE_decodeSymbol(s, FSE_decodeSymbol(s, FSE_decodeSymbol(s, FSE_decodeSymbol(s, x, 1, t, fast), 2, t, fast),
                     1, t, fast), 2, t, fast)

(* The end of the stream shows when a state asks for more bits than there   *)
(* are: then the other state holds the last symbol.                         *)
RECURSIVE WeightsTail(_, _, _, _, _, _)
WeightsTail(s, x, k, t, fast, max) ==
    LET one == FSE_decodeSymbol(s, x, k, t, fast)
        next == [one EXCEPT !.d = BIT_reloadDStream(@)]
    IN  IF Len(x.out) > max - 2 THEN [ok |-> FALSE]
        ELSE IF next.d.status = "overflow"
        THEN [ok |-> TRUE, out |-> FSE_decodeSymbol(s, next, 3 - k, t, fast).out]
        ELSE WeightsTail(s, next, 3 - k, t, fast, max)

RECURSIVE WeightsLoop(_, _, _, _, _)
WeightsLoop(s, x, t, fast, max) ==
    LET loaded == [x EXCEPT !.d = BIT_reloadDStream(@)] IN
    IF loaded.d.status = "unfinished" /\ Len(x.out) < max - 3
    THEN WeightsLoop(s, FourSymbols(s, loaded, t, fast), t, fast, max)
    ELSE WeightsTail(s, loaded, 1, t, fast, max)

FSE_decompress_usingDTable(s, start, size, t, log, fast, max) ==
    LET d == BIT_initDStream(s, start, size)
        x1 == FSE_initDState(s, [d |-> d, state |-> <<0, 0>>, out |-> << >>], 1, log)
        x2 == FSE_initDState(s, x1, 2, log)
    IN  IF ~d.ok THEN [ok |-> FALSE]
        ELSE IF BIT_reloadDStream(x2.d).status = "overflow" THEN [ok |-> FALSE]
        ELSE WeightsLoop(s, x2, t, fast, max)

(* The words of 32 bits a table and what it takes to make it need.  There   *)
(* is room for one of the weights 0 to 11.                                  *)
FSE_DECOMPRESS_WKSP_SIZE(log, symbols) ==
    (1 + 2 ^ log) + 1 + ((2 * symbols + 2 ^ log + 11) \div 4) + 128 + 1

(* The bytes s: a header, and symbols of the table it describes. *)
FSE_decompress(s, max, maxLog) ==
    LET Of(c) ==
            IF ~c.ok THEN [ok |-> FALSE]
            ELSE IF \/ c.log > maxLog
                    \/ FSE_DECOMPRESS_WKSP_SIZE(c.log, Len(c.norm)) > FSE_DECOMPRESS_WKSP_SIZE(6, 12)
                 THEN [ok |-> FALSE]
            ELSE FSE_decompress_usingDTable(s, c.size, Len(s) - c.size, FSE_buildDTable(c.norm, c.log), c.log,
                                            FastMode(c.norm, c.log), max)
    IN  Of(FSE_readNCount(s, 256))
=============================================================================

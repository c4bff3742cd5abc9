------------------------------ MODULE ZstdHuf -------------------------------
(***************************************************************************)
(* Huffman codes in the zstd decoder (src/zstddeclib.c): the weights of a   *)
(* tree, the two kinds of tables made of them, and how one stream or four   *)
(* are decoded with them.  A table is the set of its entries, each for      *)
(* `size` cells from `from` on; s is the source and streams lie in it.      *)
(***************************************************************************)
EXTENDS ZstdFse, FiniteSetsExt, TLC

CONSTANTS Step256   \* 256, the bytes HUF_selectDecoder has its timings for

ASSUME HufAssumption == Step256 \in Nat \ {0}

HUF_TABLELOG_MAX == 12
HUF_DECODER_FAST_TABLELOG == 11
HUF_SYMBOLVALUE_MAX == 255

NoStats == [ok |-> FALSE]
NoText == [ok |-> FALSE, out |-> << >>]

(* The last weight is not sent: it fills the code up to a power of two. *)
WithLastWeight(weights, size) ==
    LET total == FoldFunction(LAMBDA w, sum : sum + (2 ^ w \div 2), 0, weights)
        log == ZSTD_highbit32(total) + 1
        rest == 2 ^ log - total
        all == Append(weights, ZSTD_highbit32(rest) + 1)
        ones == Cardinality({k \in DOMAIN all : all[k] = 1})
    IN  IF (\E k \in DOMAIN weights : weights[k] > HUF_TABLELOG_MAX) \/ total = 0 THEN NoStats
        ELSE IF log > HUF_TABLELOG_MAX \/ rest # 2 ^ ZSTD_highbit32(rest) THEN NoStats
        ELSE IF ones < 2 \/ ones % 2 = 1 THEN NoStats
        ELSE [ok |-> TRUE, weights |-> all, log |-> log, size |-> size]

(* Two weights a byte. *)
DirectWeights(s, start, n) ==
    [k \in 1 .. n |-> LET both == s[start + 2 + ((k - 1) \div 2)] IN IF k % 2 = 1 THEN both \div 16 ELSE both % 16]

HUF_readStats(s, start, size) ==
    LET iSize == s[start + 1]
        direct == iSize >= 128
        length == IF direct THEN (iSize - 126) \div 2 ELSE iSize
        weights == IF direct THEN [ok |-> TRUE, out |-> DirectWeights(s, start, iSize - 127)]
                   ELSE FSE_decompress(SubSeq(s, start + 2, start + 1 + iSize), HUF_SYMBOLVALUE_MAX, 6)
        Of(coded) == IF coded.ok THEN WithLastWeight(coded.out, length + 1) ELSE NoStats
    IN  IF size = 0 THEN NoStats
        ELSE IF length + 1 > size THEN NoStats
        ELSE Of(weights)

(* Symbols by weight take their cells of a table of 2^target. *)
FirstLevel(stats, target) ==
    LET w == stats.weights
        cells(k) == 2 ^ (w[k] - 1 + target - stats.log)
        before(k) == {j \in DOMAIN w : w[j] > 0 /\ (w[j] < w[k] \/ (w[j] = w[k] /\ j < k))}
    IN  {[from |-> MapThenSumSet(cells, before(k)), size |-> cells(k),
          symbols |-> <<k - 1>>, nbBits |-> stats.log + 1 - w[k]] : k \in {j \in DOMAIN w : w[j] > 0}}

(* As long as codes that are short enough, a table is for 11 bits. *)
TargetLog(stats) == IF stats.log < HUF_DECODER_FAST_TABLELOG THEN HUF_DECODER_FAST_TABLELOG ELSE stats.log

HUF_readDTableX1(stats) ==
    [type |-> "X1", log |-> TargetLog(stats), entries |-> FirstLevel(stats, TargetLog(stats))]

(* The cells of one symbol, by the symbols that fit behind it.  What is too *)
(* long to fit comes first.                                                 *)
HUF_fillDTableX2Level2(first, e, targetLog) ==
    LET fitting == {f \in first : f.nbBits + e.nbBits <= targetLog}
        skipSize == (CHOOSE f \in fitting : \A g \in fitting : f.from <= g.from).from \div 2 ^ e.nbBits
    IN  IF fitting = {} THEN {e}
        ELSE {[e EXCEPT !.size = skipSize]}
             \cup {[from |-> e.from + f.from \div 2 ^ e.nbBits, size |-> 2 ^ (targetLog - e.nbBits - f.nbBits),
                    symbols |-> e.symbols \o f.symbols, nbBits |-> e.nbBits + f.nbBits] : f \in fitting}

HUF_readDTableX2(stats) ==
    LET first == FirstLevel(stats, TargetLog(stats)) IN
    [type |-> "X2", log |-> TargetLog(stats),
     entries |-> UNION {HUF_fillDTableX2Level2(first, e, TargetLog(stats)) : e \in first}]

EntryAt(table, v) == CHOOSE e \in table.entries : e.from <= v /\ v < e.from + e.size

-----------------------------------------------------------------------------
(* x: a stream and what is decoded of it; end: how much that will be. *)
HUF_decodeSymbol(s, x, table) ==
    LET e == EntryAt(table, BIT_lookBitsFast(s, x.d, table.log)) IN
    [d |-> BIT_skipBits(x.d, e.nbBits), out |-> x.out \o e.symbols]

RECURSIVE HUF_decodeSymbols(_, _, _, _)
HUF_decodeSymbols(s, x, table, n) ==
    IF n = 0 THEN x
    ELSE HUF_decodeSymbols(s, CHOOSE y \in {HUF_decodeSymbol(s, x, table)} : TRUE, table, n - 1)

Reloaded(x) == [x EXCEPT !.d = BIT_reloadDStream(@)]

(* n entries at a time, while there is more to load and room for them. *)
RECURSIVE WhileUnfinished(_, _, _, _, _, _)
WhileUnfinished(s, x, table, end, n, room) ==
    LET From(y) == IF y.d.status = "unfinished" /\ Len(y.out) < end - room
                   THEN WhileUnfinished(s, HUF_decodeSymbols(s, y, table, n), table, end, n, room)
                   ELSE y
    IN  From(Reloaded(x))

RECURSIVE WithoutReload(_, _, _, _)
WithoutReload(s, x, table, end) ==
    IF Len(x.out) < end
    THEN WithoutReload(s, CHOOSE y \in {HUF_decodeSymbol(s, x, table)} : TRUE, table, end)
    ELSE x

HUF_decodeStreamX1(s, x, table, end) ==
    WithoutReload(s, IF end - Len(x.out) > 3 THEN WhileUnfinished(s, x, table, end, 4, 3) ELSE Reloaded(x),
                  table, end)

(* One byte, though the entry may have two: its bits are taken as read. *)
HUF_decodeLastSymbolX2(s, x, table) ==
    LET e == EntryAt(table, BIT_lookBitsFast(s, x.d, table.log))
        used == x.d.consumed + e.nbBits
    IN  [out |-> Append(x.out, e.symbols[1]),
         d |-> [x.d EXCEPT !.consumed =
                   IF Len(e.symbols) = 1 THEN used
                   ELSE IF @ < Register THEN Least(used, Register) ELSE @]]

HUF_decodeStreamX2(s, x, table, end) ==
    LET Last(y) == IF Len(y.out) < end THEN HUF_decodeLastSymbolX2(s, y, table) ELSE y
        Near(y) == IF end - Len(y.out) < 2 THEN y
                   ELSE WithoutReload(s, WhileUnfinished(s, y, table, end, 1, 1), table, end - 1)
        Far(n, room) == WhileUnfinished(s, x, table, end, n, room)
    IN  Last(Near(IF end - Len(x.out) < 8 THEN Reloaded(x)
                  ELSE IF table.log <= 11 THEN Far(5, 9) ELSE Far(4, 7)))

HUF_decodeStream(s, x, table, end) ==
    IF table.type = "X1" THEN HUF_decodeStreamX1(s, x, table, end) ELSE HUF_decodeStreamX2(s, x, table, end)

(* One stream of size bytes from start on. *)
HUF_decompress1X_usingDTable(s, start, size, dstSize, table) ==
    LET Ended(x) == [ok |-> BIT_endOfDStream(x.d), out |-> x.out]
        On(d) == IF ~d.ok THEN NoText ELSE Ended(HUF_decodeStream(s, [d |-> d, out |-> << >>], table, dstSize))
    IN  On(BIT_initDStream(s, start, size))

-----------------------------------------------------------------------------
(* Four streams side by side: the general loop, the fast loop, which a      *)
(* build for x86-64 takes where the processor has BMI2 and others take      *)
(* always, and which tables are made for whom.                              *)

(* The jump table: where the four begin and end, from start on. *)
Jumps(s, start, size) ==
    LET n1 == LE16(s, start)
        n2 == LE16(s, start + 2)
        n3 == LE16(s, start + 4)
        i1 == start + 6
    IN  <<i1, i1 + n1, i1 + n1 + n2, i1 + n1 + n2 + n3, start + size>>

LengthOf(jumps, k) == jumps[k + 1] - jumps[k]

(* What each has to give: the last one has what is left. *)
Segments(dstSize) ==
    LET n == (dstSize + 3) \div 4 IN <<n, n, n, dstSize - 3 * n>>

Joined4(xs) == xs[1].out \o xs[2].out \o xs[3].out \o xs[4].out

(* Rounds of four entries for each stream, until the fourth is near its end *)
(* or one has no whole register left.                                       *)
RECURSIVE LockStep(_, _, _, _)
LockStep(s, xs, table, limit) ==
    LET Round(x) == [HUF_decodeSymbols(s, x, table, 4) EXCEPT !.d = BIT_reloadDStreamFast(@)]
        On(next) == IF \A k \in 1 .. 4 : next[k].d.status = "unfinished" THEN LockStep(s, next, table, limit)
                    ELSE next
    IN  IF Len(xs[4].out) >= limit THEN xs ELSE On([k \in 1 .. 4 |-> Round(xs[k])])

HUF_decompress4X_body(s, start, size, dstSize, table) ==
    LET segment == Segments(dstSize)
        Ended(xs) == [ok |-> \A k \in 1 .. 4 : BIT_endOfDStream(xs[k].d), out |-> Joined4(xs)]
        Finished(xs) ==
            IF \E k \in 1 .. 3 : Len(xs[k].out) > segment[k] THEN NoText
            ELSE Ended([k \in 1 .. 4 |-> HUF_decodeStream(s, xs[k], table, segment[k])])
        Begun(xs) ==
            IF \E k \in 1 .. 4 : ~xs[k].d.ok THEN NoText
            ELSE Finished(IF segment[4] < 8 THEN xs
                          ELSE LockStep(s, xs, table, segment[4] - (IF table.type = "X1" THEN 3 ELSE 7)))
        On(jumps) ==
            IF LengthOf(jumps, 4) < 0 \/ segment[4] < 0 THEN NoText
            ELSE Begun([k \in 1 .. 4 |-> [d |-> BIT_initDStream(s, jumps[k], LengthOf(jumps, k)), out |-> << >>]])
    IN  IF size < 10 \/ dstSize < 6 THEN NoText ELSE On(Jumps(s, start, size))

-----------------------------------------------------------------------------
(* The fast loop: for each stream the place of its register, how many bits  *)
(* of it are used up, and what is decoded.  A last byte without an end mark *)
(* counts as one that is all data.                                          *)
HUF_initFastDStream(s, ip) ==
    [ip |-> ip, out |-> << >>,
     consumed |-> IF s[ip + 8] = 0 THEN 0 ELSE 8 - ZSTD_highbit32(s[ip + 8])]

HUF_DecompressFastArgs_init(s, start, size, dstSize, table) ==
    LET On(jumps) ==
            IF \/ table.log # HUF_DECODER_FAST_TABLELOG
               \/ \E k \in 1 .. 3 : LengthOf(jumps, k) < 8
               \/ LengthOf(jumps, 4) \in 0 .. 7
            THEN [kind |-> "fallback"]
            ELSE IF LengthOf(jumps, 4) < 0 THEN [kind |-> "error"]
            ELSE IF Segments(dstSize)[4] <= 0 THEN [kind |-> "fallback"]
            ELSE [kind |-> "fast", ys |-> [k \in 1 .. 4 |-> HUF_initFastDStream(s, jumps[k + 1] - 8)]]
    IN
    IF dstSize = 0 THEN [kind |-> "fallback"]
    ELSE IF size < 10 THEN [kind |-> "error"]
    ELSE On(Jumps(s, start, size))

RECURSIVE FastSymbols(_, _, _, _)
FastSymbols(s, y, table, n) ==
    LET e == EntryAt(table, Bits(s, Len(s), 8 * y.ip + Register - y.consumed - 11, 11))
        z == [y EXCEPT !.consumed = @ + e.nbBits, !.out = @ \o e.symbols]
    IN  IF n = 0 THEN y ELSE FastSymbols(s, CHOOSE w \in {z} : TRUE, table, n - 1)

FastReloaded(y) == [y EXCEPT !.ip = @ - y.consumed \div 8, !.consumed = @ % 8]

(* A round: five entries for each. *)
FastRound(s, ys, table) == [k \in 1 .. 4 |-> FastReloaded(FastSymbols(s, ys[k], table, 5))]

RECURSIVE FastRounds(_, _, _, _)
FastRounds(s, ys, table, olimit) ==
    LET next == FastRound(s, ys, table) IN
    IF Len(next[4].out) < olimit THEN FastRounds(s, next, table, olimit) ELSE next

(* As many rounds as cannot run out of input or output; then again. *)
RECURSIVE HUF_fast_c_loop(_, _, _, _, _)
HUF_fast_c_loop(s, ys, table, ilowest, segment) ==
    LET left(k) == segment[k] - Len(ys[k].out)
        iiters == (ys[1].ip - ilowest) \div 7
        oiters == IF table.type = "X1" THEN left(4) \div 5 ELSE Min({left(k) \div 10 : k \in 1 .. 4})
        iters == Least(iiters, oiters)
        crossed == \E k \in 2 .. 4 : ys[k].ip < ys[k - 1].ip
    IN  IF iters = 0 \/ crossed THEN ys
        ELSE HUF_fast_c_loop(s, FastRounds(s, ys, table, Len(ys[4].out) + 5 * iters), table, ilowest, segment)

(* The rest of each stream.  Nobody asks whether its bits are used up, nor  *)
(* does its start bound what is read.                                       *)
HUF_initRemainingDStream(y, ilowest) ==
    [ok |-> TRUE, start |-> ilowest, end |-> y.ip + 8, at |-> y.ip, consumed |-> y.consumed, status |-> "unfinished"]

HUF_decompress4X_fast(s, start, size, dstSize, table, ys) ==
    LET jumps == Jumps(s, start, size)
        segment == Segments(dstSize)
        rest(y, end) == HUF_decodeStream(s, [d |-> HUF_initRemainingDStream(y, start), out |-> y.out], table, end)
        Finished(met) ==
            IF \E k \in 1 .. 4 : Len(met[k].out) > segment[k] \/ met[k].ip < jumps[k] - 8 THEN NoText
            ELSE [ok |-> TRUE, out |-> Joined4([k \in 1 .. 4 |-> rest(met[k], segment[k])])]
    IN  Finished(HUF_fast_c_loop(s, ys, table, start, segment))

HUF_decompress4X_usingDTable(s, start, size, dstSize, table, bmi2) ==
    LET With(args) ==
            CASE args.kind = "fallback" -> HUF_decompress4X_body(s, start, size, dstSize, table)
              [] args.kind = "error" -> NoText
              [] args.kind = "fast" -> HUF_decompress4X_fast(s, start, size, dstSize, table, args.ys)
    IN  With(IF bmi2 THEN HUF_DecompressFastArgs_init(s, start, size, dstSize, table) ELSE [kind |-> "fallback"])

-----------------------------------------------------------------------------
(* Sixteenths of the size that is left: how long it takes to make a table   *)
(* and to decode Step256 bytes, with tables of one symbol and of two.       *)
algoTime == <<
    <<<<150, 216>>, <<381, 119>>>>, <<<<170, 205>>, <<514, 112>>>>, <<<<177, 199>>, <<539, 110>>>>,
    <<<<197, 194>>, <<644, 107>>>>, <<<<221, 192>>, <<735, 107>>>>, <<<<256, 189>>, <<881, 106>>>>,
    <<<<359, 188>>, <<1167, 109>>>>, <<<<582, 187>>, <<1570, 114>>>>, <<<<688, 187>>, <<1712, 122>>>>,
    <<<<825, 186>>, <<1965, 136>>>>, <<<<976, 185>>, <<2131, 150>>>>, <<<<1180, 186>>, <<2070, 175>>>>,
    <<<<1377, 185>>, <<1731, 202>>>>, <<<<1412, 185>>, <<1695, 202>>>> >>

HUF_selectDecoder(dstSize, cSrcSize) ==
    LET Q == IF cSrcSize >= dstSize THEN 15 ELSE (16 * cSrcSize) \div dstSize
        time(k) == algoTime[Q - 1][k][1] + algoTime[Q - 1][k][2] * (dstSize \div Step256)
    IN  IF Q > 1 /\ time(2) + time(2) \div 32 < time(1) THEN "X2" ELSE "X1"

(* The tree comes first.  A table that was made stays, whatever follows. *)
WithTree(s, start, size, type, decode(_, _, _)) ==
    LET Made(text, table) == [ok |-> text.ok, out |-> text.out, made |-> TRUE, table |-> table]
        With(stats, table) ==
            Made(IF stats.size >= size THEN NoText ELSE decode(start + stats.size, size - stats.size, table), table)
        Of(stats) ==
            IF ~stats.ok THEN [ok |-> FALSE, made |-> FALSE]
            ELSE With(stats, IF type = "X1" THEN HUF_readDTableX1(stats) ELSE HUF_readDTableX2(stats))
    IN  Of(HUF_readStats(s, start, size))

HUF_decompress1X1_DCtx(s, start, size, dstSize) ==
    WithTree(s, start, size, "X1", LAMBDA i, n, table : HUF_decompress1X_usingDTable(s, i, n, dstSize, table))

HUF_decompress4X_hufOnly(s, start, size, dstSize, bmi2) ==
    IF dstSize = 0 \/ size = 0 THEN [ok |-> FALSE, made |-> FALSE]
    ELSE WithTree(s, start, size, HUF_selectDecoder(dstSize, size),
                  LAMBDA i, n, table : HUF_decompress4X_usingDTable(s, i, n, dstSize, table, bmi2))
=============================================================================

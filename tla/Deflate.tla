------------------------------ MODULE Deflate ------------------------------
(***************************************************************************)
(* tdefl_compress as the packer uses it: a whole buffer, to be finished in  *)
(* one call, level 9, so lazy parsing and hash chains, the output going to  *)
(* a callback that writes it.  (Loads are not unaligned, as miniz.h has it.)*)
(*                                                                          *)
(* The window is what is behind and ahead of lookahead_pos; its copy of the *)
(* first bytes behind the last, for matches over the edge, is the index     *)
(* modulo its size.                                                         *)
(***************************************************************************)
EXTENDS HuffTable

CONSTANTS
    Contents,           \* what is compressed
    LZ_DICT_SIZE,       \* 32768
    MAX_MATCH_LEN,      \* 258
    PosRange,           \* 2^16: positions in m_hash and m_next
    HashSize, HashOf(_, _, _),
    MaxProbes,          \* m_max_probes, of which the second from a match of GoodMatch on
    GoodMatch,          \* 32
    LongMatch,          \* 128: recorded at once
    TooFar,             \* 8K: too far for the shortest match
    LZ_CODE_BUF_SIZE, OUT_BUF_SIZE,
    BigBlock,           \* 31K: from there on a block that does not shrink is flushed
    StaticBelow,        \* 48: smaller blocks take the fixed codes
    HeaderLimit         \* 7: longest code of a code length

MIN_MATCH_LEN == 3

ASSUME DeflateAssumption ==
    /\ MAX_MATCH_LEN < LZ_DICT_SIZE /\ PosRange % LZ_DICT_SIZE = 0
    /\ \A c \in Contents : c \in Seq(0 .. EOB - 1) /\ Len(c) > 3   \* shorter files are stored

VARIABLES
    content,
    src,            \* how much of it m_pSrc has passed
    lookahead_pos, lookahead_size, dict_size,
    dict, hash, chain,      \* m_dict, m_hash, m_next
    saved,          \* m_saved_match_len, _dist and m_saved_lit
    lz,             \* the codes of the block: <<literal>> or <<length, distance>>
    dict_pos,       \* m_lz_code_buf_dict_pos
    written,        \* the bits of the blocks so far
    dpc

window == <<lookahead_pos, lookahead_size, dict_size, dict, hash, chain>>
deflate_vars == <<content, src, window, saved, lz, dict_pos, written, dpc>>

NoMatch == [len |-> 0, dist |-> 0, lit |-> 0]

DeflateReset ==
    /\ src = 0 /\ lookahead_pos = 0 /\ lookahead_size = 0 /\ dict_size = 0
    /\ dict = [i \in 0 .. LZ_DICT_SIZE - 1 |-> 0]
    /\ hash = [h \in 0 .. HashSize - 1 |-> 0]
    /\ chain = [i \in 0 .. LZ_DICT_SIZE - 1 |-> 0]
    /\ saved = NoMatch /\ lz = << >> /\ dict_pos = 0 /\ written = << >>

-----------------------------------------------------------------------------
(* tdefl_calculate_minimum_redundancy on the frequencies in rising order:   *)
(* two queues, of leaves and of inner nodes, and of equals the leaf first.  *)
Pick(q, freq) ==
    IF q.leaf > Len(freq) \/ (q.inner # << >> /\ Head(q.inner).w < freq[q.leaf])
    THEN [q EXCEPT !.inner = Tail(@), !.picked = Head(q.inner)]
    ELSE [q EXCEPT !.leaf = @ + 1, !.picked = [w |-> freq[q.leaf], of |-> {q.leaf}]]

minimum_redundancy(freq) ==
    LET merge(q, k) ==
            LET a == Pick(q, freq)
                b == Pick(a, freq)
                of == a.picked.of \cup b.picked.of IN
            [b EXCEPT !.inner = Append(@, [w |-> a.picked.w + b.picked.w, of |-> of]),
                      !.depth = [i \in DOMAIN @ |-> IF i \in of THEN @[i] + 1 ELSE @[i]]]
        start == [leaf |-> 1, inner |-> << >>, picked |-> << >>, depth |-> [i \in DOMAIN freq |-> 0]]
    IN  IF Len(freq) <= 1 THEN [i \in DOMAIN freq |-> 1]
        ELSE FoldLeft(merge, start, [k \in 1 .. Len(freq) - 1 |-> k]).depth

(* tdefl_huffman_enforce_max_code_size: longer codes count as the longest,  *)
(* and for what that is too much, the next shorter code becomes two.        *)
enforce_max_code_size_none(depth, limit) ==     \* mutant: only that
    [l \in 1 .. limit |-> Cardinality({i \in DOMAIN depth : Min({depth[i], limit}) = l})]

enforce_max_code_size(depth, limit) ==
    LET num == [l \in 1 .. limit |-> Cardinality({i \in DOMAIN depth : Min({depth[i], limit}) = l})]
        total == FoldLeft(LAMBDA t, l : t + num[l] * 2 ^ (limit - l), 0, [l \in 1 .. limit |-> l])
        split(n, k) ==
            LET one == [n EXCEPT ![limit] = @ - 1]
                from == {l \in 1 .. limit - 1 : n[l] > 0} IN
            IF from = {} THEN one
            ELSE [one EXCEPT ![Max(from)] = @ - 1, ![Max(from) + 1] = @ + 2]
    IN  IF Len(depth) <= 1 THEN num
        ELSE FoldLeft(split, num, [k \in 1 .. total - 2 ^ limit |-> k])

(* tdefl_optimize_huffman_table: code lengths for the counts, the shortest  *)
(* for what is most frequent.                                               *)
optimize_huffman_table(count, limit) ==
    LET used == {s \in DOMAIN count : count[s] > 0}
        n == Cardinality(used)
        rank == [s \in used |-> Cardinality({t \in used :
                    count[t] < count[s] \/ (count[t] = count[s] /\ t <= s)})]
        freq == [i \in 1 .. n |-> count[CHOOSE s \in used : rank[s] = i]]
        num == enforce_max_code_size(minimum_redundancy(freq), limit)
        lengths == FoldLeft(LAMBDA q, l : q \o [k \in 1 .. num[l] |-> l], << >>,
                            [l \in 1 .. limit |-> l])
    IN  [s \in DOMAIN count |-> IF s \in used THEN lengths[n + 1 - rank[s]] ELSE 0]

(* The code of a symbol, to be put out from its first bit on. *)
HuffCode(lens, s) ==
    LET code == Total(lens)[lens[s] - 1] + Cardinality({t \in DOMAIN lens : t < s /\ lens[t] = lens[s]})
    IN  Bits(Reversed(code, lens[s]), lens[s])

-----------------------------------------------------------------------------
(* s_tdefl_len_sym, s_tdefl_small_dist_sym, s_tdefl_large_dist_sym. *)
SymOf(base, v) ==
    CHOOSE i \in DOMAIN base : /\ base[i] \in 1 .. v
                               /\ \A j \in DOMAIN base : base[j] \in 1 .. v => base[j] <= base[i]

IsMatch(code) == Len(code) = 2
LitSym(code) == IF IsMatch(code) THEN EOB + SymOf(LenBase, code[1]) ELSE code[1]
DistSym(code) == SymOf(DistBase, code[2]) - 1

LitCount(codes) ==      \* m_huff_count[0], the end of the block counted once
    [s \in 0 .. MaxSymbols[1] - 1 |->
        (IF s = EOB THEN 1 ELSE 0) + Cardinality({i \in DOMAIN codes : LitSym(codes[i]) = s})]
DistCount(codes) ==
    [s \in 0 .. MaxSymbols[2] - 1 |->
        Cardinality({i \in DOMAIN codes : IsMatch(codes[i]) /\ DistSym(codes[i]) = s})]

total_lz_bytes(codes) ==
    FoldLeft(LAMBDA n, c : n + (IF IsMatch(c) THEN c[1] ELSE 1), 0, codes)

(* m_pLZ_code_buf - m_lz_code_buf: a byte or three for a code, and a byte   *)
(* of flags in front of every eight, the next of them as soon as one is full. *)
LzUsed(codes) ==
    1 + Len(codes) \div 8 + FoldLeft(LAMBDA n, c : n + (IF IsMatch(c) THEN 3 ELSE 1), 0, codes)

(* tdefl_compress_lz_codes *)
LzBits(codes, lit, dst) ==
    FoldLeft(LAMBDA b, c :
        IF ~IsMatch(c) THEN b \o HuffCode(lit, c[1])
        ELSE LET l == SymOf(LenBase, c[1])
                 d == SymOf(DistBase, c[2]) IN
             b \o HuffCode(lit, EOB + l) \o Bits(c[1] - LenBase[l], LenExtra[l])
               \o HuffCode(dst, d - 1) \o Bits(c[2] - DistBase[d], DistExtra[d]),
        << >>, codes) \o HuffCode(lit, EOB)

(* The code lengths of a header, runs of them as repetitions: r is [packed, *)
(* zeros, repeats, prev], packed of <<length>> and <<repeat code, extra>>.  *)
MostOf(k) == RepeatBase[k] + 2 ^ RepeatBits[k] - 1

RLE_PREV_CODE_SIZE(r) ==
    [r EXCEPT !.repeats = 0, !.packed = @ \o
        (IF r.repeats < RepeatBase[1] THEN [k \in 1 .. r.repeats |-> <<r.prev>>]
         ELSE << <<Repeat, r.repeats - RepeatBase[1]>> >>)]

RLE_ZERO_CODE_SIZE(r) ==
    [r EXCEPT !.zeros = 0, !.packed = @ \o
        (IF r.zeros < RepeatBase[2] THEN [k \in 1 .. r.zeros |-> <<0>>]
         ELSE IF r.zeros <= MostOf(2) THEN << <<Repeat + 1, r.zeros - RepeatBase[2]>> >>
         ELSE << <<Repeat + 2, r.zeros - RepeatBase[3]>> >>)]

PackOne(r, size) ==
    LET z == RLE_ZERO_CODE_SIZE(r)
        p == RLE_PREV_CODE_SIZE(IF size = 0 THEN r ELSE z)
        zero == [p EXCEPT !.zeros = @ + 1]
        again == [z EXCEPT !.repeats = @ + 1]
        step == IF size = 0 THEN IF zero.zeros = MostOf(3) THEN RLE_ZERO_CODE_SIZE(zero) ELSE zero
                ELSE IF size # r.prev THEN [p EXCEPT !.packed = Append(@, <<size>>)]
                ELSE IF again.repeats = MostOf(1) THEN RLE_PREV_CODE_SIZE(again) ELSE again
    IN  [step EXCEPT !.prev = size]

Packed(sizes_to_pack) ==
    LET r == FoldLeft(PackOne, [packed |-> << >>, zeros |-> 0, repeats |-> 0, prev |-> -1],
                      sizes_to_pack)
    IN  (IF r.repeats > 0 THEN RLE_PREV_CODE_SIZE(r) ELSE RLE_ZERO_CODE_SIZE(r)).packed

(* tdefl_start_dynamic_block *)
Sized(lens, least) == Max({least} \cup {s + 1 : s \in {s \in DOMAIN lens : lens[s] # 0}})
Dense(lens, n) == [i \in 1 .. n |-> lens[i - 1]]
PackedCounts(packed) ==
    [s \in 0 .. MaxSymbols[3] - 1 |-> Cardinality({i \in DOMAIN packed : packed[i][1] = s})]

PackedBits(packed, lens) ==
    LET lengths(num_lens) ==
            Bits(num_lens - MinSizes[3], HeaderBits[3])
                \o FoldLeft(LAMBDA b, s : b \o Bits(lens[s], 3), << >>, SubSeq(Dezigzag, 1, num_lens))
    IN  lengths(Max({MinSizes[3]} \cup {i \in DOMAIN Dezigzag : lens[Dezigzag[i]] # 0}))
        \o FoldLeft(LAMBDA b, p : b \o HuffCode(lens, p[1])
                       \o (IF Len(p) = 1 THEN << >> ELSE Bits(p[2], RepeatBits[p[1] - MaxBits])),
                    << >>, packed)

DynamicHeader(lit, dst) ==
    LET coded(packed) == PackedBits(packed, optimize_huffman_table(PackedCounts(packed), HeaderLimit))
        sized(num_lit, num_dist) ==
            Bits(num_lit - MinSizes[1], HeaderBits[1]) \o Bits(num_dist - MinSizes[2], HeaderBits[2])
                \o coded(Packed(Dense(lit, num_lit) \o Dense(dst, num_dist)))
    IN  sized(Sized(lit, MinSizes[1]), Sized(dst, MinSizes[2]))

(* tdefl_compress_block *)
DynamicBlock(codes, lit, dst) == Bits(2, 2) \o DynamicHeader(lit, dst) \o LzBits(codes, lit, dst)
StaticBlock(codes) == Bits(1, 2) \o LzBits(codes, FixedSizes[1], FixedSizes[2])

CompressBlock(codes, static) ==
    IF static THEN StaticBlock(codes)
    ELSE DynamicBlock(codes, optimize_huffman_table(LitCount(codes), MaxBits),
                      optimize_huffman_table(DistCount(codes), MaxBits))

-----------------------------------------------------------------------------
(* tdefl_flush_block: what the bits are with this block.  One that would    *)
(* not be shorter goes out as it is, as long as the window still has it.    *)
Aligned(b) == b \o Bits(0, (ByteBits - (Len(b) % ByteBits)) % ByteBits)
BytesPut(from, b) == Len(b) \div ByteBits - Len(from) \div ByteBits

InWindow == lookahead_pos - dict_pos <= dict_size

RawBlock(start, n) ==
    Aligned(start \o Bits(0, 2)) \o Bits(n, 2 * ByteBits) \o Bits(2 ^ (2 * ByteBits) - 1 - n, 2 * ByteBits)
        \o BitsOf([i \in 1 .. n |-> dict[(dict_pos + i - 1) % LZ_DICT_SIZE]])

Smallest(start, block, n) ==
    IF n > 0 /\ BytesPut(start, block) + 1 >= n /\ InWindow THEN RawBlock(start, n)
    ELSE IF BytesPut(written, block) >= OUT_BUF_SIZE - 16 THEN start \o StaticBlock(lz)
    ELSE block

WithBlock(last) ==
    LET of(start, n) == Smallest(start, start \o CompressBlock(lz, n < StaticBelow), n)
    IN  of(Append(written, last), total_lz_bytes(lz))

Put(whole, to) ==
    /\ written' = whole
    /\ lz' = << >> /\ dict_pos' = dict_pos + total_lz_bytes(lz)
    /\ dpc' \in {to} \cup (IF BytesPut(written, whole) > 0 THEN {"put_buf_failed"} ELSE {})

-----------------------------------------------------------------------------
(* tdefl_compress_normal, once around its loop: the lookahead is filled and *)
(* what comes in is entered in the hash chains, *)
Window(i) == dict[i % LZ_DICT_SIZE]

Insert(w, c) ==
    LET at == lookahead_pos + w.size
        d == [w.dict EXCEPT ![at % LZ_DICT_SIZE] = c]
        ins == at - 2
        h == HashOf(d[ins % LZ_DICT_SIZE], d[(ins + 1) % LZ_DICT_SIZE], c) IN
    IF w.size + dict_size < MIN_MATCH_LEN - 1 THEN [w EXCEPT !.dict = d, !.size = @ + 1]
    ELSE [dict |-> d, size |-> w.size + 1,
          chain |-> [w.chain EXCEPT ![ins % LZ_DICT_SIZE] = w.hash[h]],
          hash |-> [w.hash EXCEPT ![h] = ins % PosRange]]

More == src < Len(content) \/ lookahead_size > 0

FillLookahead ==
    LET n == Min({Len(content) - src, MAX_MATCH_LEN - lookahead_size})
        w == FoldLeft(Insert, [dict |-> dict, size |-> lookahead_size, chain |-> chain, hash |-> hash],
                      SubSeq(content, src + 1, src + n)) IN
    /\ dpc = "fill" /\ More
    /\ src' = src + n
    /\ dict' = w.dict /\ chain' = w.chain /\ hash' = w.hash /\ lookahead_size' = w.size
    /\ dict_size' = Min({LZ_DICT_SIZE - w.size, dict_size})
    /\ dpc' = "parse"
    /\ UNCHANGED <<content, lookahead_pos, saved, lz, dict_pos, written>>

(* a match is looked for along the chain, three probes to a count,          *)
Agree(p) == Max({n \in 0 .. lookahead_size :
                    \A i \in 0 .. n - 1 : Window(p + i) = Window(lookahead_pos + i)})

Probe(w) ==
    LET left == IF w.phase = 0 THEN w.left - 1 ELSE w.left
        pos == chain[w.at]
        d == (lookahead_pos - pos) % PosRange
        p == pos % LZ_DICT_SIZE
        here == [w EXCEPT !.at = p, !.left = left, !.phase = 0] IN
    IF left = 0 \/ pos = 0 \/ d > dict_size THEN [w EXCEPT !.on = FALSE]
    ELSE IF \E i \in {w.len - 1, w.len} : Window(p + i) # Window(lookahead_pos + i)
    THEN [here EXCEPT !.phase = (w.phase + 1) % 3]
    ELSE IF d = 0 THEN [w EXCEPT !.on = FALSE]
    ELSE IF Agree(p) <= w.len THEN here
    ELSE [here EXCEPT !.len = Agree(p), !.dist = d, !.on = Agree(p) < lookahead_size]

find_match(len) ==
    LET left == MaxProbes[IF len >= GoodMatch THEN 2 ELSE 1] IN
    FoldLeft(LAMBDA w, k : IF w.on THEN Probe(w) ELSE w,
             [at |-> lookahead_pos % LZ_DICT_SIZE, left |-> left, phase |-> 0,
              len |-> len, dist |-> 0, on |-> len < lookahead_size],
             [k \in 1 .. 3 * left |-> k])

(* and taken or left: a match waits for the next byte, in case that begins  *)
(* a longer one.                                                            *)
Lit(c) == <<c>>
TooDear(m) ==
    (m.len = MIN_MATCH_LEN /\ m.dist >= TooFar) \/ lookahead_pos % LZ_DICT_SIZE = m.dist

CurMatch ==
    LET unless(m) == IF TooDear(m) THEN [len |-> 0, dist |-> 0] ELSE m
    IN  unless(find_match(IF saved.len # 0 THEN saved.len ELSE MIN_MATCH_LEN - 1))

Take(codes, kept, move) ==
    /\ lz' = lz \o codes /\ saved' = kept
    /\ lookahead_pos' = lookahead_pos + move /\ lookahead_size' = lookahead_size - move
    /\ dict_size' = Min({dict_size + move, LZ_DICT_SIZE})
    /\ dpc' = "check"
    /\ UNCHANGED <<content, src, dict, hash, chain, dict_pos, written>>

Record(m) ==
    LET lit == Window(lookahead_pos)
        keep == [len |-> m.len, dist |-> m.dist, lit |-> lit]
        match == <<m.len, m.dist>> IN
    \/ /\ saved.len # 0 /\ m.len > saved.len
       /\ IF m.len >= LongMatch THEN Take(<<Lit(saved.lit), match>>, [saved EXCEPT !.len = 0], m.len)
          ELSE Take(<<Lit(saved.lit)>>, keep, 1)
    \/ /\ saved.len # 0 /\ m.len <= saved.len
       /\ Take(<<<<saved.len, saved.dist>>>>, [saved EXCEPT !.len = 0], saved.len - 1)
    \/ /\ saved.len = 0 /\ m.dist = 0
       /\ Take(<<Lit(lit)>>, saved, 1)
    \/ /\ saved.len = 0 /\ m.dist # 0
       /\ IF m.len >= LongMatch THEN Take(<<match>>, saved, m.len)
          ELSE Take(<< >>, keep, 1)

Parse == dpc = "parse" /\ Record(CurMatch)

(* A block ends when its codes fill their buffer, or when it is big and     *)
(* does not shrink.                                                         *)
BlockFull ==
    \/ LzUsed(lz) > LZ_CODE_BUF_SIZE - 8
    \/ /\ total_lz_bytes(lz) > BigBlock
       /\ (LzUsed(lz) * 115) \div 128 >= total_lz_bytes(lz)

BlockDone == (dpc = "check" /\ BlockFull) \/ (dpc = "fill" /\ ~More)

FlushBlock ==
    LET whole(b, last) == IF last = 1 THEN Aligned(b) ELSE b
        flush(last, to) == Put(whole(WithBlock(last), last), to) IN
    /\ BlockDone
    /\ flush(IF dpc = "fill" THEN 1 ELSE 0, IF dpc = "fill" THEN "deflated" ELSE "fill")
    /\ UNCHANGED <<content, src, window, saved>>

Continue ==
    /\ dpc = "check" /\ ~BlockFull
    /\ dpc' = "fill"
    /\ UNCHANGED <<content, src, window, saved, lz, dict_pos, written>>

DeflateNext == FillLookahead \/ Parse \/ FlushBlock \/ Continue
=============================================================================

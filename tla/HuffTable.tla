----------------------------- MODULE HuffTable -----------------------------
(***************************************************************************)
(* What the compressor and the decompressor of miniz share, the alphabets   *)
(* of deflate, and the tables of tinfl_decompress: how they are built from  *)
(* the code lengths and how a symbol is read with them.  A code of up to    *)
(* FastBits bits is looked up at once; a longer one goes on in a binary     *)
(* tree whose nodes are pairs of cells, a negative cell pointing to the     *)
(* next pair.  Bits are sequences of 0 and 1, the first to be read in front.*)
(***************************************************************************)
EXTENDS Integers, FiniteSets, SequencesExt

CONSTANTS
    MaxBits,    \* longest code: 15
    FastBits,   \* TINFL_FAST_LOOKUP_BITS: 10
    SymRange,   \* 512: a look-up cell is length * 512 + symbol
    ByteBits,   \* 8
    EOB,        \* 256; smaller symbols are literals
    LenBase, LenExtra,      \* s_length_base, s_length_extra, from symbol EOB + 1
    DistBase, DistExtra,    \* s_dist_base, s_dist_extra; symbols not in use have base 0
    FixedSizes,     \* <<lengths of the fixed literal code, of the fixed distance code>>
    HeaderBits, MinSizes,   \* bits and least value of the three table sizes of a header
    Dezigzag,       \* s_length_dezigzag
    MaxSymbols,     \* TINFL_MAX_HUFF_SYMBOLS_0, _1, _2
    RepeatBits, RepeatBase  \* of the three repeat codes, behind the lengths 0 .. MaxBits

ASSUME HuffAssumption ==
    /\ MaxBits \in Nat \ {0} /\ FastBits \in 1 .. MaxBits /\ SymRange \in Nat \ {0}
    /\ ByteBits \in Nat \ {0} /\ 2 * ByteBits > MaxBits /\ EOB \in Nat /\ EOB < SymRange

Repeat == MaxBits + 1       \* 16: the length before, again; the two others repeat 0

FAST_LOOKUP_SIZE == 2 ^ FastBits

(* The number n bits spell; bits that are not there yet count as 0; and the *)
(* n bits that spell a number.                                              *)
Val(bits, n) ==
    FoldLeft(LAMBDA v, i : IF i <= Len(bits) THEN v + bits[i] * 2 ^ (i - 1) ELSE v,
             0, [i \in 1 .. n |-> i])
Bits(v, n) == [i \in 1 .. n |-> (v \div 2 ^ (i - 1)) % 2]

BitsOf(bytes) == FoldLeft(LAMBDA b, byte : b \o Bits(byte, ByteBits), << >>, bytes)

Reversed(code, n) == Val([i \in 1 .. n |-> (code \div 2 ^ (n - i)) % 2], n)

-----------------------------------------------------------------------------
(* sizes[s], from symbol 0: the length of its code, 0 for none. *)
total_syms(sizes, l) == Cardinality({s \in DOMAIN sizes : sizes[s] = l})

(* total[i] is what the loop has after length i; next_code[i + 1] = total[i]. *)
Total(sizes) ==
    LET total[i \in 0 .. MaxBits] ==
            IF i = 0 THEN 0 ELSE 2 * (total[i - 1] + total_syms(sizes, i))
    IN  total

used_syms(sizes) == Cardinality({s \in DOMAIN sizes : sizes[s] # 0})

(* A code that leaves bits unused, or wants more than there are, is refused *)
(* unless it has a single symbol, or none.                                  *)
Refused(sizes) ==
    Total(sizes)[MaxBits] # 2 ^ (MaxBits + 1) /\ used_syms(sizes) > 1

(* A code that goes on in the tree: the walk from the look-up cell, making  *)
(* the pairs that are not there yet.  `cur` names a pair, or a cell of one, *)
(* by a negative number.                                                    *)
CellOf(cur) == -cur - 1

Plant(t, sym, rev, size) ==
    LET slot == rev % FAST_LOOKUP_SIZE
        bit(k) == (rev \div 2 ^ (FastBits + k)) % 2
        root == IF t.look[slot] # 0 THEN t
                ELSE [t EXCEPT !.look[slot] = t.tree_next, !.tree_next = @ - 2]
        walk[k \in 0 .. size - FastBits - 1] ==     \* after k bits of the rest
            IF k = 0 THEN [t |-> root, cur |-> root.look[slot]]
            ELSE LET w == walk[k - 1]
                     cell == CellOf(w.cur - bit(k - 1)) IN
                 IF w.t.tree[cell] # 0 THEN [w EXCEPT !.cur = w.t.tree[cell]]
                 ELSE [t |-> [w.t EXCEPT !.tree[cell] = w.t.tree_next, !.tree_next = @ - 2],
                       cur |-> w.t.tree_next]
        end == walk[size - FastBits - 1]
    IN  [end.t EXCEPT !.tree[CellOf(end.cur - bit(size - FastBits - 1))] = sym]

Enter(t, sym, rev, size) ==
    [t EXCEPT !.look = [i \in DOMAIN @ |->
        IF i % 2 ^ size = rev THEN size * SymRange + sym ELSE @[i]]]

(* Only the cells in use are kept: DOMAIN tree is what the table takes.     *)
BuildTable(sizes) ==
    LET total == Total(sizes)
        empty == [look |-> [i \in 0 .. FAST_LOOKUP_SIZE - 1 |-> 0],
                  tree |-> [i \in 0 .. 2 * (MaxBits - FastBits) * used_syms(sizes) |-> 0],
                  tree_next |-> -1,
                  next_code |-> [l \in 1 .. MaxBits |-> total[l - 1]]]
        add(t, sym) ==
            IF sizes[sym] = 0 THEN t
            ELSE LET size == sizes[sym]
                     rev == Reversed(t.next_code[size], size)
                     next == [t EXCEPT !.next_code[size] = @ + 1] IN
                 IF size <= FastBits THEN Enter(next, sym, rev, size)
                 ELSE Plant(next, sym, rev, size)
        table == FoldLeft(add, empty, [i \in 1 .. Cardinality(DOMAIN sizes) |-> i - 1])
    IN  [look |-> table.look, tree |-> Restrict(table.tree, 0 .. -table.tree_next - 2)]

-----------------------------------------------------------------------------
(* TINFL_HUFF_DECODE without its reading: [sym, len].  A cell that no code  *)
(* reaches holds 0, which reads as symbol 0 in no bits.                     *)
Bit(bits, k) == IF k < Len(bits) THEN bits[k + 1] ELSE 0     \* bit k, from 0

TreeWalk(t, bits, temp) ==      \* the cells met from the look-up cell on
    LET at[k \in 0 .. MaxBits - FastBits] ==
            IF k = 0 THEN temp
            ELSE IF at[k - 1] >= 0 THEN at[k - 1]
            ELSE t.tree[-at[k - 1] - 1 + Bit(bits, FastBits + k - 1)]
    IN  at

Steps(at) == CHOOSE k \in DOMAIN at : at[k] >= 0 /\ \A j \in DOMAIN at : at[j] >= 0 => k <= j

Decode(t, bits) ==
    LET temp == t.look[Val(bits, FastBits)] IN
    IF temp >= 0 THEN [sym |-> temp % SymRange, len |-> temp \div SymRange]
    ELSE LET at == TreeWalk(t, bits, temp) IN
         [sym |-> at[Steps(at)], len |-> FastBits + Steps(at)]

(* The test of TINFL_HUFF_BITBUF_FILL: are the bits at hand a whole code?   *)
HasCode(t, bits) ==
    LET temp == t.look[Val(bits, FastBits)]
        n == Len(bits) IN
    IF temp >= 0 THEN temp \div SymRange # 0 /\ n >= temp \div SymRange
    ELSE /\ n > FastBits
         /\ LET at == TreeWalk(t, bits, temp) IN Steps(at) <= n - FastBits
=============================================================================

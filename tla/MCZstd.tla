------------------------------- MODULE MCZstd -------------------------------
(* Copies of 2, 4 and 8 bytes for 8, 16 and 32, 16 bytes of extra literals  *)
(* for 64 KiB, blocks of 128 or 40 for 128 KiB.  The entries are encoded    *)
(* here, with the tables of the format.  Families of sessions: one block    *)
(* and every way to lay it out; one entry after another in the same         *)
(* context; an entry into a buffer that is not of its size; Huffman codes   *)
(* of every shape; many sequences with far offsets; and entries with one    *)
(* byte that is damaged.                                                    *)
EXTENDS Zstd, SequencesExt

Format == INSTANCE ZstdFormat
Lim == [windowLog |-> ZSTD_WINDOWLOG_ABSOLUTEMIN, block |-> ZSTD_BLOCKSIZE_MAX]

-----------------------------------------------------------------------------
(* Bytes of a number, the lowest first; bits of one, the highest first. *)
Num(v, n) == [i \in 1 .. n |-> (v \div 2 ^ (8 * (i - 1))) % 2 ^ 8]
BitsOf(v, n) == [i \in 1 .. n |-> (v \div 2 ^ (n - i)) % 2]

ByteOf(bit(_), j) ==
    LET sum[k \in 0 .. 8] == IF k = 0 THEN 0 ELSE sum[k - 1] + 2 ^ (k - 1) * bit(8 * (j - 1) + k - 1) IN sum[8]

(* Bits as they will be read, into bytes with an end mark; and those of a   *)
(* description, which is read from its begin on.                            *)
Backward(r) == [j \in 1 .. Len(r) \div 8 + 1 |->
                   ByteOf(LAMBDA p : IF p < Len(r) THEN r[Len(r) - p] ELSE IF p = Len(r) THEN 1 ELSE 0, j)]
Forward(r) == [j \in 1 .. (Len(r) + 7) \div 8 |-> ByteOf(LAMBDA p : IF p < Len(r) THEN r[p + 1] ELSE 0, j)]

(* How probable each symbol is, -1 for less than one cell. *)
RECURSIVE Probabilities(_, _, _, _)
Probabilities(probs, k, left, zero) ==
    LET n == Format!Highest(left + 1) + 1
        low == 2 ^ n - (left + 2)
        v == probs[k] + 1
        run == CHOOSE m \in 0 .. Len(probs) - k : probs[k + m] # 0 /\ \A j \in 0 .. m - 1 : probs[k + j] = 0
        value == IF v < low THEN BitsOf(v, n - 1) ELSE BitsOf(IF v < 2 ^ (n - 1) THEN v ELSE v + low, n)
    IN  IF left = 0 THEN << >>
        ELSE IF zero
        THEN [i \in 1 .. 2 * (run \div 3) |-> 1] \o Reverse(BitsOf(run % 3, 2)) \o Probabilities(probs, k + run, left, FALSE)
        ELSE Reverse(value) \o Probabilities(probs, k + 1, left - (IF v = 0 THEN 1 ELSE v - 1), v = 1)
Description(probs, log) == Forward(Reverse(BitsOf(log - 5, 4)) \o Probabilities(probs, 1, 2 ^ log, FALSE))

(* The states of a table that read these symbols, every step-th on its own. *)
StatesFor(t, symbols, step) ==
    LET Leads(u, v) == t.state[u].base <= v /\ v < t.state[u].base + 2 ^ t.state[u].bits
        Before(st, s) == CHOOSE u \in DOMAIN t.state :
            /\ t.state[u].symbol = s
            /\ IF Len(st) < step THEN t.state[u].bits > 0 \/ t.log = 0 ELSE Leads(u, st[step])
    IN  FoldRight(LAMBDA s, st : <<Before(st, s)>> \o st, symbols, << >>)
Moving(t, u, v) == BitsOf(v - t.state[u].base, t.state[u].bits)

-----------------------------------------------------------------------------
(* Trees, by the weights of their symbols, of which the last is not sent:   *)
(* 4 bits each, or with a table of their own.                               *)
Direct(w) ==
    LET n == Len(w) - 1 IN
    <<127 + n>> \o [j \in 1 .. (n + 1) \div 2 |-> 16 * w[2 * j - 1] + (IF 2 * j <= n THEN w[2 * j] ELSE 0)]
ByFse(w, probs) ==
    LET n == Len(w) - 1
        Stream(t, st) == BitsOf(st[1], t.log) \o BitsOf(st[2], t.log) \o FlattenSeq([i \in 1 .. n - 2 |-> Moving(t, st[i], st[i + 2])])
        Body(t) == Description(probs, t.log) \o Backward(Stream(t, StatesFor(t, SubSeq(w, 1, n), 2)))
        Sized(body) == <<Len(body)>> \o body
    IN  Sized(Body(Format!FseTable(probs, 5)))

Weights == <<
    [of |-> <<2, 2, 2, 1, 1, 1, 1, 1, 1, 1, 1, 1, 1>>, probs |-> << >>],
    [of |-> <<1, 1, 1, 1, 0, 0, 1, 1, 1, 1, 1, 1, 2, 2, 2>>, probs |-> <<4, 20, 8>>],
    [of |-> <<1, 1>>, probs |-> << >>],
    [of |-> <<3, 2, 1, 1>>, probs |-> << >>],
    [of |-> <<11, 10, 9, 8, 7, 6, 5, 4, 3, 2, 1, 1>>, probs |-> << >>],
    [of |-> <<1, 1, 2, 3, 4, 5, 6, 7, 8, 9, 10, 11>>, probs |-> <<0, 6, 4, 3, 3, 3, 3, 3, 3, 2, 1, 1>>],
    [of |-> <<12, 11, 10, 9, 8, 7, 6, 5, 4, 3, 2, 1, 1>>, probs |-> << >>],
    [of |-> <<1, 1, 1, 1, 1, 1, 1, 1, 1, 1, 2, 2, 2>>, probs |-> << >>] >>
Tree(sent) == [sent |-> sent, codes |-> Format!TreeIn(sent).codes]
Trees == [k \in DOMAIN Weights |->
             Tree(IF Weights[k].probs = << >> THEN Direct(Weights[k].of) ELSE ByFse(Weights[k].of, Weights[k].probs))]
Thirteen == 1
Swapped == 8
Alphabet == [k \in DOMAIN Weights |->
               SelectSeq([i \in 1 .. Len(Weights[k].of) |-> i - 1], LAMBDA x : Weights[k].of[x + 1] # 0)]

(* Texts of n bytes, in the symbols of a tree. *)
Text(n, k) == [i \in 1 .. n |-> Alphabet[k][((i * i + i \div 3) % Len(Alphabet[k])) + 1]]

Coded(text, codes) ==
    Backward(FlattenSeq([i \in DOMAIN text |->
        BitsOf((CHOOSE c \in codes : c.symbol = text[i]).v, (CHOOSE c \in codes : c.symbol = text[i]).n)]))
Quarter(text, k) ==
    LET q == (Len(text) + 3) \div 4 IN SubSeq(text, (k - 1) * q + 1, IF k = 4 THEN Len(text) ELSE Least(k * q, Len(text)))
InFour(text, codes) ==
    LET Joined(c) == Num(Len(c[1]), 2) \o Num(Len(c[2]), 2) \o Num(Len(c[3]), 2) \o FlattenSeq(c)
    IN  Joined([k \in 1 .. 4 |-> Coded(Quarter(text, k), codes)])

(* Literals: plain, one byte n times, coded with the tree that is sent or   *)
(* with the last one, in one stream or in four.                             *)
L(kind, text, k) == [kind |-> kind, text |-> text, tree |-> k]
Plain(text) == L("plain", text, Thirteen)
LiteralsOf(l) ==
    LET n == Len(l.text)
        Headed(type, four, body) == Num(type + (IF four THEN 4 ELSE 0) + 16 * n + 2 ^ 14 * Len(body), 3) \o body
        By(t) == IF l.kind \in {"huf4", "again4"} THEN InFour(l.text, t.codes) ELSE Coded(l.text, t.codes)
        Huffman(t) == IF l.kind \in {"again", "again4"} THEN Headed(3, l.kind = "again4", By(t))
                      ELSE Headed(2, l.kind = "huf4", t.sent \o By(t))
    IN  CASE l.kind = "plain" -> (IF n < 32 THEN <<8 * n>> ELSE Num(4 + 16 * n, 2)) \o l.text
          [] l.kind = "rle" -> Num(13 + 16 * n, 3) \o <<40>>
          [] OTHER -> Huffman(Trees[l.tree])

-----------------------------------------------------------------------------
(* The tables of sequences: predefined, sent, of one code, or the last. *)
Probs == [own |-> [ll |-> <<14, 6, 0, 5, 0, 0, 4, 0, 0, 0, 0, 2, 0, 0, 0, 0, 0, -1>>,
                   of |-> <<10, 8, 9, 5>>,
                   ml |-> <<16, 8, 0, 0, 6, 0, 0, 0, 0, 0, 2>>],
          other |-> [ll |-> <<3, 20, 4, 5>>, of |-> <<10, 8, 9, 5>>, ml |-> <<30, -1, -1>>]]
Made == [t \in {"own", "other"} |-> [x \in Field |->
            [sent |-> Description(Probs[t][x], 5), table |-> Format!FseTable(Probs[t][x], 5)]]]
MadeBy(t, x) ==
    CASE t = "basic" -> [sent |-> << >>, table |-> Format!Predefined[x]]
      [] t = "three" -> [sent |-> <<3>>, table |-> [log |-> 0, state |-> [u \in {0} |-> [symbol |-> 3, bits |-> 0, base |-> 0]]]]
      [] OTHER -> Made[t][x]

T(mode, t) == [x \in Field |-> [mode |-> mode, of |-> t]]
Basics == T(0, "basic")
Threes == T(1, "three")
Owns == T(2, "own")
Others == T(2, "other")
Lasts(t) == T(3, t)

Q(ll, ml, of) == [ll |-> ll, ml |-> ml, of |-> of]
CodeOf(x, v) == CHOOSE c \in 0 .. (IF x = "of" THEN 20 ELSE IF x = "ll" THEN 30 ELSE 44) :
                   LET k == Format!Code(x, c) IN k[1] <= v /\ v < k[1] + 2 ^ k[2]
Extra(x, v) == LET Of(k) == BitsOf(v - k[1], k[2]) IN Of(Format!Code(x, CodeOf(x, v)))

Sequences1(t, qs) ==
    LET n == Len(qs)
        Move(x, made, st, i) == IF i = n THEN << >> ELSE Moving(made[x].table, st[x][i], st[x][i + 1])
        First(x, made, st) == BitsOf(st[x][1], made[x].table.log)
        Stream(made, st) ==
            First("ll", made, st) \o First("of", made, st) \o First("ml", made, st) \o
            FlattenSeq([i \in 1 .. n |-> Extra("of", qs[i].of) \o Extra("ml", qs[i].ml) \o Extra("ll", qs[i].ll)
                                         \o Move("ll", made, st, i) \o Move("ml", made, st, i) \o Move("of", made, st, i)])
        StatesOf(made) == [x \in Field |-> StatesFor(made[x].table, [i \in 1 .. n |-> CodeOf(x, qs[i][x])], 1)]
        Sent(made, x) == IF t[x].mode = 3 THEN << >> ELSE made[x].sent
        All(made) == <<n, 64 * t.ll.mode + 16 * t.of.mode + 4 * t.ml.mode>>
                     \o Sent(made, "ll") \o Sent(made, "of") \o Sent(made, "ml") \o Backward(Stream(made, StatesOf(made)))
    IN  IF n = 0 THEN <<0>> ELSE All([x \in Field |-> MadeBy(t[x].of, x)])

(* Blocks, of which the last of a frame says so. *)
B(type, n, l, t, qs) == [type |-> type, n |-> n, lits |-> l, tables |-> t, seqs |-> qs]
RawBlock(n) == B(0, n, Plain(<< >>), Basics, << >>)
RleBlock(n) == B(1, n, Plain(<< >>), Basics, << >>)
Block(l, t, qs) == B(2, 0, l, t, qs)
Reserved == B(3, 0, Plain(<< >>), Basics, << >>)
BlockOf(bl, last) ==
    LET Headed(n, body) == Num((IF last THEN 1 ELSE 0) + 2 * bl.type + 8 * n, 3) \o body
        Whole2(body) == Headed(Len(body), body)
    IN  IF bl.type = 2 THEN Whole2(LiteralsOf(bl.lits) \o Sequences1(bl.tables, bl.seqs))
        ELSE Headed(bl.n, [i \in 1 .. (IF bl.type = 1 THEN 1 ELSE bl.n) |-> 50])
BlocksOf(bs) == FlattenSeq([i \in DOMAIN bs |-> BlockOf(bs[i], i = Len(bs))])

(* Frames of windows of 40 bytes and of 128, with a dictionary's number, in *)
(* one segment, with a size and a checksum (or a false one); frames that    *)
(* are skipped; and a magic number with nothing behind it.                  *)
Frame(head, arg, bs) == [head |-> head, arg |-> arg, blocks |-> bs]
Small == 2
Wide == 16
Magic == <<40, 181, 47, 253>>
FrameOf(f) ==
    LET Sealed(body, out) == Magic \o <<4 + 128, Wide>> \o Num(Len(out), 4) \o body \o SubSeq(XXH64(out), 1, 4)
        Body(body) ==
            CASE f.head = "whole" -> Magic \o <<0, f.arg>> \o body
              [] f.head = "named" -> Magic \o <<1, Small, f.arg>> \o body
              [] f.head = "segment" -> Magic \o <<32, f.arg>> \o body
              [] f.head = "sealed" -> Sealed(body, Format!Entry(Magic \o <<0, Wide>> \o body, NoDict, Lim).out \o f.arg)
              [] f.head = "skipped" -> <<83, 42, 77, 24>> \o Num(f.arg, 4) \o [i \in 1 .. f.arg |-> 1]
              [] f.head = "magic" -> Magic
    IN  Body(BlocksOf(f.blocks))

(* Entries, of which one byte is damaged (by # 0) or all from there on is   *)
(* missing (by = 0).                                                        *)
Entry(frames) == [frames |-> frames, at |-> 0, by |-> 0]
Damaged(e, at, by) == [e EXCEPT !.at = at, !.by = by]
EntryOf(e) ==
    LET Spoilt(bytes) == IF e.at \notin DOMAIN bytes THEN bytes
                         ELSE IF e.by = 0 THEN SubSeq(bytes, 1, e.at - 1) ELSE [bytes EXCEPT ![e.at] = @ ^^ e.by]
    IN  Spoilt(FlattenSeq([i \in DOMAIN e.frames |-> FrameOf(e.frames[i])]))
Whole(bs) == Frame("whole", Small, bs)
Framed(bs) == Entry(<<Frame("whole", Wide, bs)>>)

(* A session sets dictionaries and decodes entries, into as many bytes as   *)
(* the entry has and `by' more.                                             *)
Set(k) == [op |-> "set_dict", dict |-> k]
Get(e, by) == [op |-> "decompress", entry |-> e, by |-> by]

-----------------------------------------------------------------------------
(* One block with these sequences and n literals behind them, and room      *)
(* behind the block for others.  Where tables are sent so much follows the  *)
(* literals that they are used where they were read.                        *)
Limit == 40
LitKinds == {"raw", "direct", "rle", "huf"}
RoomOf == << << >>, <<RawBlock(5)>>, <<RawBlock(Limit), RleBlock(Limit)>>, <<RawBlock(Limit), RleBlock(4)>> >>

Sum(s) == FoldLeft(LAMBDA n, q : n + q.ll, 0, s)
SumML(s) == FoldLeft(LAMBDA n, q : n + q.ml, 0, s)

One == {<<Q(l, m, o)>> : l \in {0, 3, 11, 19}, m \in {3, 7, 13}, o \in {1, 2, 5, 8}}
Few == {Q(l, m, o) : l \in {0, 11}, m \in {3, 7}, o \in {1, 3, 5, 8}}

Layout(s, kind, n, r) ==
    <<Get(Entry(<<Whole(
        <<Block(L(IF kind \in {"raw", "direct"} THEN "plain" ELSE kind, Text(Sum(s) + n, Thirteen), Thirteen),
                IF kind = "direct" THEN Owns ELSE Basics, s)>> \o RoomOf[r])>>), 0)>>
Layouts(ss, kinds, ns, rooms) ==
    UNION {{Layout(s, k, n, r) : k \in {k \in kinds : k \in {"raw", "direct"} => Sum(s) + n <= 30}, r \in rooms}
           : <<s, n>> \in {x \in ss \X ns : Sum(x[1]) + SumML(x[1]) + x[2] <= Limit}}

(* Huffman codes of every shape, and the same tree again. *)
Huffman(k, n, kind, again) ==
    <<Get(Framed(<<Block(L(kind, Text(n, k), k), Basics, << >>),
                   Block(L(again, Text((n \div 2) + 4, k), k), Basics, <<Q(1, 3, 4)>>)>>), 0)>>

(* Many sequences behind a history that makes far offsets likely. *)
Far == << <<Q(1, 3, 4), Q(0, 4, 2), Q(2, 3, 30), Q(1, 3, 1), Q(0, 5, 3)>>,
          <<Q(0, 3, 60), Q(3, 4, 9), Q(0, 3, 3), Q(2, 3, 5)>>,
          <<Q(1, 4, 6), Q(0, 3, 1), Q(0, 3, 90)>> >>
Farther(n, k, before, kind, more, own) ==
    LET With(qs) ==
        Framed(<<RawBlock(before),
                 Block(L(kind, Text(Sum(qs) + more, Thirteen), Thirteen),
                       IF own THEN [Basics EXCEPT !.ll = Others.ll] ELSE Basics, qs)>>)
    IN  <<Get(With([i \in 1 .. n |-> Far[k][((i - 1) % Len(Far[k])) + 1]]), 0)>>

(* Entries that use what is not in them, that fail half-way, that are not   *)
(* of one frame.                                                            *)
Lit(kind, n, k) == Block(L(kind, Text(n, k), k), Basics, << >>)
Seqs(t, qs) == Block(Plain(Text(12, Thirteen)), t, qs)
Mixed(t) == <<Seqs(t, <<Q(1, 4, 1)>>)>>
Treeless == Whole(<<Lit("again", 5, Swapped)>>)
Tree1 == Whole(<<Lit("huf", 5, Swapped), Lit("again", 6, Swapped)>>)
Tableless == Whole(<<Seqs(Lasts("own"), <<Q(1, 3, 1), Q(0, 4, 3)>>)>>)
BadOffset == Block(Plain(Text(2, Thirteen)), Owns, <<Q(0, 3, 15), Q(1, 3, 8)>>)
Things == <<
    Entry(<<Treeless>>),
    Entry(<<Tree1>>),
    Entry(<<Tableless>>),
    Entry(<<Whole(<<Seqs(Owns, <<Q(3, 3, 1), Q(1, 4, 2)>>), Seqs(Lasts("own"), <<Q(3, 4, 2)>>)>>)>>),
    Entry(<<Whole(<<Seqs(Basics, <<Q(5, 3, 2), Q(1, 3, 3)>>), RawBlock(3),
                    Seqs(Lasts("basic"), <<Q(1, 3, 1), Q(3, 4, 2), Q(2, 3, 3)>>)>>)>>),
    Entry(<<Whole(<<RawBlock(9), Seqs(Basics, <<Q(0, 3, 1), Q(3, 3, 2), Q(0, 7, 2), Q(0, 3, 1)>>)>>)>>),
    Entry(<<Whole(<<RawBlock(3), Seqs(Basics, <<Q(0, 3, 3)>>)>>)>>),
    Entry(<<Whole(<<Lit("plain", 4, Thirteen), Seqs(Lasts("basic"), <<Q(2, 3, 1)>>)>>)>>),
    Damaged(Entry(<<Whole(<<Lit("huf", 5, Swapped)>>)>>), 22, 8),
    Entry(<<Whole(<<Seqs(Owns, <<Q(3, 3, 1), Q(1, 4, 3)>>), BadOffset>>)>>),
    Entry(<<Whole(Mixed([Owns EXCEPT !.of = Lasts("own").of]))>>),
    Entry(<<Whole(Mixed([Owns EXCEPT !.ml = Lasts("own").ml]))>>),
    Entry(<<Tree1, Treeless>>),
    Entry(<<Whole(Mixed(Others)), Tableless>>),
    Entry(<<Whole(<<RawBlock(9)>>), Whole(<<Seqs(Basics, <<Q(2, 3, 18)>>)>>)>>),
    Entry(<<Frame("skipped", 3, << >>), Whole(<<RleBlock(5)>>)>>),
    Damaged(Entry(<<Whole(<<RleBlock(5)>>), Frame("skipped", 3, << >>)>>), 20, 0),
    Entry(<<Tree1, Frame("magic", 0, << >>)>>),
    Entry(<<Frame("sealed", << >>, <<RawBlock(5), Lit("huf", 5, Thirteen)>>), Frame("segment", 2, <<RleBlock(2)>>)>>),
    Damaged(Entry(<<Frame("sealed", << >>, <<RleBlock(2)>>)>>), 17, 4),
    Entry(<<Frame("segment", 3, <<RleBlock(2)>>)>>),
    Entry(<<Frame("named", 7, Mixed(Owns))>>),
    Entry(<<Frame("named", 9, Mixed(Owns))>>),
    Damaged(Entry(<<Whole(Mixed(Owns))>>), 25, 0),
    Entry(<<Whole(<<Seqs(Basics, <<Q(3, 4, 8), Q(1, 3, 12)>>)>>)>>),
    Entry(<<Whole(<<Seqs([Basics EXCEPT !.of = Threes.of], <<Q(3, 4, 8), Q(4, 3, 12)>>)>>)>>),
    Entry(<<Whole(<<RawBlock(4), Reserved>>)>>),
    Entry(<<Whole(<<RleBlock(4)>>), Whole(<<Lit("plain", 0, Thirteen)>>), Whole(<<Block(Plain(<< >>), Basics, <<Q(1, 3, 1)>>)>>)>>),
    Entry(<<Whole(<<Seqs(Lasts("other"), <<Q(2, 4, 1), Q(3, 5, 5)>>), Lit("again4", 6, Swapped)>>)>>) >>

(* No dictionary, a bare one, a formatted one, and two that are damaged. *)
Content == <<60, 61, 62, 63, 64>>
Formatted(rep3) == <<55, 164, 48, 236>> \o Num(7, 4) \o Trees[Swapped].sent
                   \o Made["other"].of.sent \o Made["other"].ml.sent \o Made["other"].ll.sent
                   \o Num(2, 4) \o Num(3, 4) \o Num(rep3, 4) \o Content
DictOf(k) == CASE k = 1 -> NoDict [] k = 2 -> Content \o Content [] k = 3 -> Formatted(5) [] k = 4 -> Formatted(6)
               [] k = 5 -> SubSeq(Formatted(5), 1, 20)
Dicts == [k \in 1 .. 5 |-> DictOf(k)]

Context(first, second, d) ==
    <<Get(Things[first], 0), Set(d), Get(Things[second], 0)>> \o (IF d = 1 THEN << >> ELSE <<Get(Things[first], 0)>>)

Broken == <<
    Entry(<<Frame("sealed", << >>, <<Lit("huf", 9, 2), Seqs(Owns, <<Q(3, 3, 4), Q(1, 4, 5)>>)>>)>>),
    Huffman(4, 16, "huf4", "again")[1].entry,
    Huffman(6, 48, "huf4", "again4")[1].entry,
    Farther(9, 1, 33, "huf", 2, TRUE)[1].entry,
    Things[29] >>

MCSessions ==
    Layouts({<< >>}, LitKinds, 0 .. Limit, 1 .. 4)
    \cup Layouts(One, LitKinds, {0, 7}, {1, 3, 4})
    \cup Layouts({<<p, q>> : p \in Few, q \in Few}, {"huf"}, {0}, {1})
    \cup {Context(x, y, 3) : x \in {1, 2, 3, 4, 8, 9, 10, 13, 18, 22, 24, 29}, y \in DOMAIN Things}
    \cup {Context(x, y, d) : x \in {2, 4}, y \in DOMAIN Things, d \in {1, 2, 4, 5}}
    \cup {<<Set(d), Get(Things[x], by)>> : x \in DOMAIN Things, d \in {1, 3}, by \in {-1, 1, 90}}
    \cup {<<Set(3), Get(Things[7], -15)>>, <<Get(Framed(<<RawBlock(9)>>), -1)>>}
    \cup {Huffman(k, n, kind, "again") : k \in DOMAIN Trees, n \in {1, 20, 90}, kind \in {"huf", "huf4"}}
    \cup {Huffman(k, n, "huf4", "again4") : k \in DOMAIN Trees, n \in {2, 6, 7, 13, 33, 48, 64, 128}}
    \cup {Farther(n, k, before, kind, more, own) : n \in {8, 9, 10}, k \in DOMAIN Far, before \in {20, 80},
                                                   kind \in {"plain", "huf"}, more \in {0, 2}, own \in BOOLEAN}
    \cup {<<Set(3), Get(Damaged(Broken[k], at, by), 0)>> : k \in DOMAIN Broken, at \in 1 .. 80, by \in {65}}
    \cup {<<Set(3), Get(Damaged(Broken[k], 7 * at, 0), 0)>> : k \in DOMAIN Broken, at \in 1 .. 11}

(* The calls of a session, each decode with the dictionary that is set. *)
DictAt(s, i) == LET set == {j \in 1 .. i : s[j].op = "set_dict"} IN IF set = {} THEN NoDict ELSE Dicts[s[Max(set)].dict]
MCRequests(s) ==
    LET Size(r, by) == by + IF r.ok THEN Len(r.out) ELSE 200
        Call(bytes, d, by) == [op |-> "decompress", bytes |-> bytes, size |-> Size(Format!Entry(bytes, d, Lim), by)]
    IN  [i \in DOMAIN s |-> IF s[i].op = "set_dict" THEN [op |-> "set_dict", dict |-> Dicts[s[i].dict]]
                            ELSE Call(EntryOf(s[i].entry), DictAt(s, i), s[i].by)]

Fits1(e) == e.ok => IF Len(e.out) <= answer.size
                    THEN answer.got = Len(e.out) /\ \A i \in 1 .. answer.got : mem.dst[i - 1] = e.out[i]
                    ELSE answer.got = 0

(* Whatever the entries before it left in the shared context, and wherever  *)
(* its literals had to wait, an entry decodes to what the format says with  *)
(* the dictionary that is set at the call, all of it and nothing else, and  *)
(* to 0 if it does not fit or is damaged where a decoder must notice: the   *)
(* tables a failed or an earlier frame left are never used, no match        *)
(* reaches beyond its frame and its dictionary, no copy that runs over its  *)
(* end spoils literals or output that are still needed, and fast and slow   *)
(* loops, and tables of one symbol and of two, read the same of a stream.   *)
EntryIsExact ==
    pc = "idle" /\ answer # NoAnswer =>
        \E e \in {Format!Entry(answer.bytes, answer.dict, Lim)} :
            Fits1(e) /\ (~e.ok /\ ~e.open => answer.got = 0)

(* The copies that move more than they are asked for stay inside the output *)
(* of the caller, the literals' buffer, the entry as it was read and the    *)
(* dictionary: the guards that turn to the slow copies come early enough.   *)
StaysInside == ~mem.stray
=============================================================================

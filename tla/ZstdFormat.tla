---------------------------- MODULE ZstdFormat -----------------------------
(***************************************************************************)
(* What a Zstandard entry means, as RFC 8878 has it: the reference the      *)
(* decoder is compared with.  It reads the same bytes, but bit by bit, with *)
(* prefix codes for tables and sequences for memory.  A frame starts from   *)
(* nothing but the dictionary: there is no context to carry anything over.  *)
(*                                                                          *)
(* A result is ok, or it is not, or it is open: the entry breaks the format *)
(* where a decoder need not notice.  lim has the sizes the format fixes.    *)
(***************************************************************************)
EXTENDS ZstdXxh

Nothing == [ok |-> FALSE, open |-> FALSE]
Open == [ok |-> FALSE, open |-> TRUE]

(* A fold whose steps are values, so that TLC works each out once. *)
Reduced(op(_, _), base, s) ==
    LET f[i \in 0 .. Len(s)] ==
            IF i = 0 THEN base ELSE CHOOSE x \in {op(y, s[i]) : y \in {f[i - 1]}} : TRUE
    IN  f[Len(s)]

Upto(n) == [i \in 1 .. n |-> i]
Rest(s, n) == SubSeq(s, n + 1, Len(s))

Highest(v) == CHOOSE k \in 0 .. 16 : 2 ^ k <= v /\ v < 2 ^ (k + 1)

(* Bits count from the lowest of the first byte; there are zeros beyond. *)
Bit(s, k) == IF k \in 0 .. 8 * Len(s) - 1 THEN (s[k \div 8 + 1] \div 2 ^ (k % 8)) % 2 ELSE 0
Value(s, k, n) ==
    LET v[i \in 0 .. n] == IF i = 0 THEN 0 ELSE v[i - 1] + 2 ^ (i - 1) * Bit(s, k + i - 1) IN v[n]

(* Numbers beyond this are all the same here. *)
Large == 2 ^ 30
Number(s, k, n) ==
    IF \E i \in 31 .. 8 * n : Bit(s, 8 * k + i - 1) = 1 THEN Large ELSE Value(s, 8 * k, IF n < 4 THEN 8 * n ELSE 30)

(* A stream that is read from its end on: the bits below the end mark. *)
Stream(s) ==
    IF s = << >> THEN Nothing
    ELSE IF s[Len(s)] = 0 THEN Nothing
    ELSE [ok |-> TRUE, s |-> s, left |-> 8 * (Len(s) - 1) + Highest(s[Len(s)])]
Peek(b, n) == Value(b.s, b.left - n, n)
Skip(b, n) == [b EXCEPT !.left = @ - n]

-----------------------------------------------------------------------------
(* 4.1.1: how probable each symbol is. *)
RECURSIVE Zeros(_, _, _)
Zeros(s, at, n) == IF Value(s, at, 2) = 3 THEN Zeros(s, at + 2, n + 3) ELSE [at |-> at + 2, n |-> n + Value(s, at, 2)]

(* Of the values 0 to left + 1 the low ones take a bit less. *)
Probability(s, at, left) ==
    LET n == Highest(left + 1) + 1
        low == 2 ^ n - (left + 2)
        Of(short, long) ==
            IF short < low THEN [value |-> short, at |-> at + n - 1]
            ELSE [value |-> IF long >= 2 ^ (n - 1) THEN long - low ELSE long, at |-> at + n]
    IN  Of(Value(s, at, n - 1), Value(s, at, n))

RECURSIVE Probs(_, _, _)
Probs(s, c, max) ==
    LET After(zeros, probs, left) ==
            Probs(s, [at |-> zeros.at, left |-> left, probs |-> probs \o [i \in 1 .. zeros.n |-> 0]], max)
        With(p) ==
            After(IF p.value = 1 THEN Zeros(s, p.at, 0) ELSE [at |-> p.at, n |-> 0], Append(c.probs, p.value - 1),
                  c.left - (IF p.value = 0 THEN 1 ELSE p.value - 1))
    IN  IF Len(c.probs) > max \/ c.at > 8 * Len(s) THEN Nothing
        ELSE IF c.left = 0 THEN [ok |-> TRUE, probs |-> c.probs, size |-> (c.at + 7) \div 8]
        ELSE With(Probability(s, c.at, c.left))

(* The cells: the rare symbols from the end on, the others by steps. *)
RECURSIVE Free(_, _, _)
Free(p, top, size) == IF p <= top THEN p ELSE Free((p + size \div 2 + size \div 8 + 3) % size, top, size)

Cells(probs, size) ==
    LET rare == SelectSeq(Upto(Len(probs)), LAMBDA k : probs[k] = -1)
        top == size - 1 - Len(rare)
        Lay(t, k) == Reduced(LAMBDA u, i : [at |-> Free((u.at + size \div 2 + size \div 8 + 3) % size, top, size),
                                            cell |-> [u.cell EXCEPT ![u.at] = k - 1]],
                             t, Upto(probs[k]))
        common == SelectSeq(Upto(Len(probs)), LAMBDA k : probs[k] > 0)
        empty == [u \in 0 .. size - 1 |-> IF u > top THEN rare[size - u] - 1 ELSE 0]
    IN  IF common = << >> THEN empty ELSE Reduced(Lay, [at |-> Free(0, top, size), cell |-> empty], common).cell

(* A symbol's states share out all states in widths that are powers of two, *)
(* the first ones double widths, which come last.                           *)
Shares(probs, log, cell) ==
    LET states(x) == SelectSeq([i \in 1 .. 2 ^ log |-> i - 1], LAMBDA u : cell[u] = x)
        powers(n) == IF n = 1 THEN 0 ELSE Highest(n - 1) + 1
        share(x, n, i) ==
            LET doubles == 2 ^ powers(n) - n
                width == log - powers(n)
            IN  IF i <= doubles
                THEN [symbol |-> x, bits |-> width + 1, base |-> (n - doubles) * 2 ^ width + (i - 1) * 2 ^ (width + 1)]
                ELSE [symbol |-> x, bits |-> width, base |-> (i - doubles - 1) * 2 ^ width]
        Put(t, x) == LET all == states(x) IN
                     Reduced(LAMBDA u, i : [u EXCEPT ![all[i]] = share(x, Len(all), i)], t, Upto(Len(all)))
    IN  Reduced(Put, [u \in 0 .. 2 ^ log - 1 |-> 0], [k \in DOMAIN probs |-> k - 1])

FseTable(probs, log) == [ok |-> TRUE, log |-> log, state |-> Shares(probs, log, Cells(probs, 2 ^ log))]

(* A description of at most max symbols in s, and its table. *)
Described(s, max, limit) ==
    LET log == 5 + Value(s, 0, 4)
        Of(p) == IF ~p.ok THEN Nothing
                 ELSE [ok |-> TRUE, table |-> FseTable(p.probs, log), symbols |-> Len(p.probs), size |-> p.size]
    IN  IF s = << >> \/ log > limit THEN Nothing
        ELSE Of(Probs(s, [at |-> 4, left |-> 2 ^ log, probs |-> << >>], max))

-----------------------------------------------------------------------------
(* 4.2.1: the weights of a Huffman tree, one after another or with two      *)
(* states in turn: then they end when a state lacks bits to move on, with   *)
(* the symbol of the other.                                                 *)
RECURSIVE InTurn(_, _, _, _, _)
InTurn(b, table, this, other, out) ==
    LET cell == table.state[this]
        Moved(next) == InTurn(Skip(b, cell.bits), table, other, next, Append(out, cell.symbol))
    IN  IF Len(out) > 253 THEN Nothing
        ELSE IF cell.bits > b.left THEN [ok |-> TRUE, out |-> out \o <<cell.symbol, table.state[other].symbol>>]
        ELSE Moved(cell.base + Peek(b, cell.bits))

CodedWeights(s) ==
    LET From(b, t) ==
            IF ~b.ok THEN Nothing
            ELSE IF b.left < 2 * t.log THEN Nothing
            ELSE InTurn(Skip(b, 2 * t.log), t, Peek(b, t.log), Peek(Skip(b, t.log), t.log), << >>)
        Of(d) == IF ~d.ok THEN Nothing
                 ELSE IF d.symbols > 12 THEN Open
                 ELSE From(Stream(Rest(s, d.size)), d.table)
    IN  Of(Described(s, 256, 6))

(* Codes are numbered from the longest on, which are those of weight 1. *)
Codes(weights, depth) ==
    LET ordered == Reduced(LAMBDA all, w : all \o SelectSeq(Upto(Len(weights)), LAMBDA k : weights[k] = w),
                           << >>, Upto(depth))
        Number1(c, k) ==
            LET n == depth + 1 - weights[k]
                v == c.next \div 2 ^ (c.n - n)
            IN  [n |-> n, next |-> v + 1, codes |-> c.codes \cup {[n |-> n, v |-> v, symbol |-> k - 1]}]
    IN  Reduced(Number1, [n |-> depth, next |-> 0, codes |-> {}], ordered).codes

(* The format has codes of 11 bits at most; the decoder takes 12. *)
MaxBits == 12

Tree(weights, size) ==
    LET total == Reduced(LAMBDA n, w : n + 2 ^ w \div 2, 0, weights)
        With(depth, rest) ==
            LET all == Append(weights, Highest(rest) + 1) IN
            IF rest # 2 ^ Highest(rest) \/ depth > MaxBits \/ (\A k \in DOMAIN all : all[k] # 1) THEN Nothing
            ELSE [ok |-> TRUE, open |-> FALSE, size |-> size, depth |-> depth, codes |-> Codes(all, depth)]
        Sum(n) == IF n = 0 \/ n >= 2 ^ 16 THEN Nothing ELSE With(Highest(n) + 1, 2 * 2 ^ Highest(n) - n)
    IN  IF \E k \in DOMAIN weights : weights[k] > MaxBits THEN Nothing ELSE Sum(total)

TreeIn(s) ==
    LET n == s[1] - 127
        Of(w) == IF w.ok THEN Tree(w.out, s[1] + 1) ELSE w
    IN  IF s = << >> THEN Nothing
        ELSE IF s[1] < 128
        THEN IF Len(s) <= s[1] THEN Nothing ELSE Of(CodedWeights(SubSeq(s, 2, s[1] + 1)))
        ELSE IF Len(s) <= (n + 1) \div 2 THEN Nothing
        ELSE Tree([k \in 1 .. n |-> Value(s, IF k % 2 = 1 THEN 4 * k + 8 ELSE 4 * k, 4)], (n + 1) \div 2 + 1)

(* n symbols, and how many bits are left: less than none if some lack, or   *)
(* the end mark does.                                                       *)
Decoded(s, tree, n) ==
    LET One(x, i) ==
            LET top == Peek(x.b, tree.depth)
                code == CHOOSE c \in tree.codes : top \div 2 ^ (tree.depth - c.n) = c.v
            IN  [b |-> Skip(x.b, code.n), out |-> Append(x.out, code.symbol)]
        Ended(x) == [left |-> x.b.left, out |-> x.out]
        From(b) == IF b.ok THEN Ended(Reduced(One, [b |-> b, out |-> << >>], Upto(n)))
                   ELSE [left |-> -1, out |-> << >>]
    IN  From(Stream(s))
(* The decoder need not notice bits over in a stream, nor any that lack in  *)
(* four that are not short.                                                 *)
OneStream(s, tree, n, own) ==
    LET Of(x) == IF x.left = 0 THEN [ok |-> TRUE, bytes |-> x.out]
                 ELSE IF x.left > 0 /\ ~own THEN Open ELSE Nothing
    IN  Of(Decoded(s, tree, n))

FourStreams(s, tree, n) ==
    LET quarter == (n + 3) \div 4
        jump(k) == IF k = 4 THEN Len(s) ELSE 6 + Reduced(LAMBDA sum, i : sum + Number(s, 2 * i - 2, 2), 0, Upto(k))
        fast(part) == tree.depth < MaxBits /\ \A k \in 1 .. 4 : Len(part[k]) >= 8
        Of(xs, part) ==
            IF \A k \in 1 .. 4 : xs[k].left = 0
            THEN [ok |-> TRUE, bytes |-> xs[1].out \o xs[2].out \o xs[3].out \o xs[4].out]
            ELSE IF fast(part) \/ \A k \in 1 .. 4 : xs[k].left >= 0 THEN Open ELSE Nothing
        With(part) ==
            Of([k \in 1 .. 4 |-> Decoded(part[k], tree, IF k = 4 THEN n - 3 * quarter ELSE quarter)], part)
    IN  IF Len(s) < 10 \/ n < 6 \/ jump(3) > Len(s) THEN Nothing
        ELSE With([k \in 1 .. 4 |-> SubSeq(s, (IF k = 1 THEN 6 ELSE jump(k - 1)) + 1, jump(k))])

(* 3.1.1.3.1: the literals at the begin of the block s, and the tree that   *)
(* stands after them.                                                       *)
Plain(s, type, format, max) ==
    LET head == IF format = 1 THEN 2 ELSE IF format = 3 THEN 3 ELSE 1
        n == CASE head = 1 -> Value(s, 3, 5) [] head = 2 -> Value(s, 4, 12) [] head = 3 -> Value(s, 4, 20)
        end == head + (IF type = 1 THEN 1 ELSE n)
    IN  IF end > Len(s) \/ head > Len(s) \/ n > max THEN Nothing
        ELSE [ok |-> TRUE, size |-> end,
              bytes |-> IF type = 1 THEN [i \in 1 .. n |-> s[head + 1]] ELSE SubSeq(s, head + 1, end)]

Packed(s, type, format, huf, max) ==
    LET width == CASE format \in {0, 1} -> 10 [] format = 2 -> 14 [] format = 3 -> 18
        head == (4 + 2 * width + 7) \div 8
        n == Value(s, 4, width)
        end == head + Value(s, 4 + width, width)
        Sized(text, tree) == IF text.ok THEN [ok |-> TRUE, size |-> end, bytes |-> text.bytes, huf |-> tree]
                             ELSE text
        With(body, tree) ==
            Sized(IF format = 0 THEN OneStream(body, tree, n, type = 2) ELSE FourStreams(body, tree, n), tree)
        Own(body, tree) ==
            IF ~tree.ok THEN tree ELSE IF tree.size >= Len(body) THEN Nothing ELSE With(Rest(body, tree.size), tree)
    IN  IF Len(s) < 5 \/ end > Len(s) \/ n > max THEN Nothing
        ELSE IF type = 2 THEN Own(SubSeq(s, head + 1, end), TreeIn(SubSeq(s, head + 1, end)))
        ELSE IF ~huf.ok THEN Nothing
        ELSE With(SubSeq(s, head + 1, end), huf)

Literals(s, huf, max) ==
    LET type == s[1] % 4
        format == (s[1] \div 4) % 4
        Of(l) == IF l.ok THEN [ok |-> TRUE, size |-> l.size, bytes |-> l.bytes, huf |-> huf] ELSE l
    IN  IF Len(s) < 2 THEN Nothing
        ELSE IF type \in {2, 3} THEN Packed(s, type, format, huf, max) ELSE Of(Plain(s, type, format, max))

-----------------------------------------------------------------------------
(* 3.1.1.3.2: the codes of the lengths and the tables that are predefined.  *)
LLCode == [k \in 0 .. 15 |-> <<k, 0>>]
MLCode == [k \in 0 .. 31 |-> <<k + 3, 0>>]
LLMore == << <<16, 1>>, <<18, 1>>, <<20, 1>>, <<22, 1>>, <<24, 2>>, <<28, 2>>, <<32, 3>>, <<40, 3>>, <<48, 4>>,
             <<64, 6>>, <<128, 7>>, <<256, 8>>, <<512, 9>>, <<1024, 10>>, <<2048, 11>>, <<4096, 12>>, <<8192, 13>>,
             <<16384, 14>>, <<32768, 15>>, <<65536, 16>> >>
MLMore == << <<35, 1>>, <<37, 1>>, <<39, 1>>, <<41, 1>>, <<43, 2>>, <<47, 2>>, <<51, 3>>, <<59, 3>>, <<67, 4>>,
             <<83, 4>>, <<99, 5>>, <<131, 7>>, <<259, 8>>, <<515, 9>>, <<1027, 10>>, <<2051, 11>>, <<4099, 12>>,
             <<8195, 13>>, <<16387, 14>>, <<32771, 15>>, <<65539, 16>> >>
Code(x, c) ==
    CASE x = "ll" -> IF c < 16 THEN LLCode[c] ELSE LLMore[c - 15]
      [] x = "ml" -> IF c < 32 THEN MLCode[c] ELSE MLMore[c - 31]
      [] x = "of" -> IF c > 28 THEN <<Large, c>> ELSE <<2 ^ c, c>>
LastCode == [ll |-> 35, of |-> 31, ml |-> 52]
MaxLog == [ll |-> 9, of |-> 8, ml |-> 9]

Times(n, p) == [i \in 1 .. n |-> p]
Predefined ==
    [ll |-> FseTable(<<4, 3>> \o Times(11, 2) \o Times(3, 1) \o Times(9, 2) \o <<3, 2>> \o Times(5, 1) \o Times(4, -1), 6),
     of |-> FseTable(Times(6, 1) \o Times(3, 2) \o Times(15, 1) \o Times(5, -1), 5),
     ml |-> FseTable(<<1, 4, 3>> \o Times(6, 2) \o Times(37, 1) \o Times(7, -1), 6)]

(* A table of codes: predefined, one code, described, or the one used last. *)
TableOf(x, mode, s, at, last) ==
    LET Of(d) == IF d.ok THEN [ok |-> TRUE, table |-> d.table, at |-> at + d.size] ELSE Nothing IN
    CASE mode = 0 -> [ok |-> TRUE, table |-> Predefined[x], at |-> at]
      [] mode = 1 -> IF at >= Len(s) THEN Nothing
                     ELSE IF s[at + 1] > LastCode[x] THEN Nothing
                     ELSE [ok |-> TRUE, at |-> at + 1,
                           table |-> [ok |-> TRUE, log |-> 0, state |-> [u \in {0} |-> [symbol |-> s[at + 1], bits |-> 0, base |-> 0]]]]
      [] mode = 2 -> Of(Described(Rest(s, at), LastCode[x] + 1, MaxLog[x]))
      [] mode = 3 -> IF last.ok THEN [ok |-> TRUE, table |-> last, at |-> at] ELSE Nothing

(* The tables in their order, from byte at of s on. *)
TablesOf(s, at, modes, last) ==
    Reduced(LAMBDA r, x :
                LET With(t) == IF t.ok THEN [ok |-> TRUE, at |-> t.at, tables |-> [r.tables EXCEPT ![x[1]] = t.table]]
                               ELSE Nothing
                IN  IF r.ok THEN With(TableOf(x[1], (modes \div x[2]) % 4, s, r.at, last[x[1]])) ELSE r,
            [ok |-> TRUE, at |-> at, tables |-> last], << <<"ll", 64>>, <<"of", 16>>, <<"ml", 4>> >>)

(* Offset_Value 1 to 3 names one of the last three offsets; without         *)
(* literals they move up by one, and the third is the first less one.       *)
OffsetOf(value, reps, ll) ==
    IF value > 3 THEN value - 3
    ELSE LET k == IF ll = 0 THEN value + 1 ELSE value IN
         IF k = 4 THEN reps[1] - 1 ELSE reps[k]
RepsAfter(value, reps, ll, offset) ==
    LET k == IF ll = 0 /\ value <= 3 THEN value + 1 ELSE value IN
    CASE k = 1 /\ value <= 3 -> reps
      [] k = 2 /\ value <= 3 -> <<offset, reps[1], reps[3]>>
      [] OTHER -> <<offset, reps[1], reps[2]>>

Matched(history, offset, n) ==
    history \o [i \in 1 .. n |-> history[Len(history) - offset + 1 + ((i - 1) % offset)]]

(* q: the stream, the states, the literals not used, the last offsets, and  *)
(* what is decoded (the dictionary before it).                              *)
Copied(q, ll, ml, value, offset) ==
    IF ll > Len(q.lits) \/ offset < 1 \/ offset > Len(q.out) + ll THEN Nothing
    ELSE [q EXCEPT !.reps = RepsAfter(value, q.reps, ll, offset), !.lits = Rest(@, ll),
                   !.out = Matched(@ \o SubSeq(q.lits, 1, ll), offset, ml)]

OneSequence(q, tables, last) ==
    LET code(x) == Code(x, tables[x].state[q.state[x]].symbol)
        field(x, b) == code(x)[1] + (IF code(x)[1] = Large THEN 0 ELSE Peek(b, code(x)[2]))
        Read(b, x) == Skip(b, code(x)[2])
        Moved(r, x) == LET cell == tables[x].state[q.state[x]] IN
                       [r EXCEPT !.state[x] = cell.base + Peek(r.b, cell.bits), !.b = Skip(r.b, cell.bits)]
        Next(r) == IF last THEN r ELSE Moved(Moved(Moved(r, "ll"), "ml"), "of")
        With(value, b1, b2) ==
            LET On(r) == IF r.ok THEN Next([r EXCEPT !.b = Read(b2, "ll")]) ELSE r
                Of(ll, ml) == On(Copied(q, ll, ml, value, OffsetOf(value, q.reps, ll)))
            IN  Of(field("ll", b2), field("ml", b1))
        From(b1) == With(field("of", q.b), b1, Read(b1, "ml"))
    IN  IF q.b.left < 0 THEN Nothing ELSE From(Read(q.b, "of"))

(* The bits are used up by the last sequence, no more and no less. *)
AllSequences(f, lits, n, t, b) ==
    LET s0 == [x \in {"ll", "of", "ml"} |-> 0]
        Begun(q, x) == [q EXCEPT !.state[x] = Peek(q.b, t.tables[x].log), !.b = Skip(q.b, t.tables[x].log)]
        Ended(q) == IF ~q.ok THEN Nothing
                    ELSE IF q.b.left # 0 THEN Nothing
                    ELSE [f EXCEPT !.out = q.out \o q.lits, !.reps = q.reps, !.tables = t.tables, !.huf = lits.huf]
        start == [ok |-> TRUE, open |-> FALSE, b |-> b, state |-> s0, lits |-> lits.bytes, reps |-> f.reps, out |-> f.out]
    IN  IF ~b.ok THEN Nothing
        ELSE Ended(Reduced(LAMBDA q, i : IF q.ok THEN OneSequence(q, t.tables, i = n) ELSE q,
                           Begun(Begun(Begun(start, "ll"), "of"), "ml"), Upto(n)))

(* The sequences section s of a block. *)
Sequences1(f, lits, s) ==
    LET size == IF s[1] < 128 THEN 1 ELSE IF s[1] < 255 THEN 2 ELSE 3
        n == CASE size = 1 -> s[1] [] size = 2 -> (s[1] - 128) * 2 ^ 8 + s[2] [] size = 3 -> Number(s, 1, 2) + 32512
        With(t) == IF t.ok THEN AllSequences(f, lits, n, t, Stream(Rest(s, t.at))) ELSE Nothing
    IN  IF s = << >> THEN Nothing
        ELSE IF Len(s) < size THEN Nothing
        ELSE IF n = 0
        THEN IF Len(s) = size THEN [f EXCEPT !.out = @ \o lits.bytes, !.huf = lits.huf] ELSE Nothing
        ELSE IF Len(s) = size THEN Nothing
        ELSE IF s[size + 1] % 4 # 0 THEN Nothing
        ELSE With(TablesOf(s, size + 1, s[size + 1], f.tables))

-----------------------------------------------------------------------------
(* f: what is decoded and what a later block may use again.  Only blocks    *)
(* that are compressed are held to the size a block may have.               *)
Sized(f, g) == IF ~g.ok THEN g ELSE IF Len(g.out) - Len(f.out) > f.max THEN Open ELSE g

CompressedBlock(f, s) ==
    LET With(lits) ==
            IF lits.ok THEN Sequences1(f, lits, Rest(s, lits.size)) ELSE lits
    IN  IF Len(s) > f.max THEN Nothing ELSE Sized(f, With(Literals(s, f.huf, f.max)))

Block(f, type, n, s) ==
    CASE type = 0 -> Sized(f, [f EXCEPT !.out = @ \o s])
      [] type = 1 -> IF n > f.max THEN Open ELSE [f EXCEPT !.out = @ \o [i \in 1 .. n |-> s[1]]]
      [] type = 2 -> CompressedBlock(f, s)
      [] type = 3 -> Nothing

(* The blocks of s from byte at on, up to the last. *)
RECURSIVE Blocks(_, _, _)
Blocks(s, at, f) ==
    LET n == Value(s, 8 * at + 3, 21)
        type == Value(s, 8 * at + 1, 2)
        end == at + 3 + (IF type = 1 THEN 1 ELSE n)
        Of(g) == IF ~g.ok THEN g
                 ELSE IF Bit(s, 8 * at) = 1 THEN [ok |-> TRUE, at |-> end, out |-> g.out]
                 ELSE Blocks(s, end, g)
    IN  IF end > Len(s) THEN Nothing ELSE Of(Block(f, type, n, SubSeq(s, at + 4, end)))

(* 5: a dictionary with tables and offsets, or of content only. *)
NoTree == Nothing
RawStart(dict) ==
    [ok |-> TRUE, open |-> FALSE, id |-> <<0, 0, 0, 0>>, content |-> dict, huf |-> NoTree,
     tables |-> [x \in {"ll", "of", "ml"} |-> NoTree], reps |-> <<1, 4, 8>>]

Start(dict) ==
    LET Offsets(tree, t) ==
            LET reps == [k \in 1 .. 3 |-> Number(dict, t.at + 4 * k - 4, 4)]
                content == Rest(dict, t.at + 12)
            IN  IF t.at + 12 > Len(dict) THEN Nothing
                ELSE IF \E k \in 1 .. 3 : reps[k] \notin 1 .. Len(content) THEN Nothing
                ELSE [ok |-> TRUE, open |-> FALSE, id |-> SubSeq(dict, 5, 8), content |-> content, huf |-> tree,
                      tables |-> t.tables, reps |-> reps]
        Next(t, x) ==
            LET Of(d) == IF d.ok THEN [ok |-> TRUE, at |-> t.at + d.size, tables |-> [t.tables EXCEPT ![x] = d.table]]
                         ELSE Nothing
            IN  IF t.ok THEN Of(Described(Rest(dict, t.at), LastCode[x] + 1, MaxLog[x])) ELSE t
        Tables(tree, t) == IF t.ok THEN Offsets(tree, t) ELSE Nothing
        With(tree) ==
            IF ~tree.ok THEN tree
            ELSE Tables(tree, Reduced(Next, [ok |-> TRUE, at |-> 8 + tree.size, tables |-> RawStart(dict).tables],
                                      <<"of", "ml", "ll">>))
    IN  IF Len(dict) < 8 \/ SubSeq(dict, 1, 4) # <<55, 164, 48, 236>> THEN RawStart(dict)
        ELSE With(TreeIn(Rest(dict, 8)))

(* 3.1.1: the frame at byte at; the dictionary itself is not part of it. *)
Frame(s, at, start, lim) ==
    LET fhd == s[at + 5]
        single == (fhd \div 32) % 2 = 1
        idAt == at + 5 + (IF single THEN 0 ELSE 1)
        idSize == <<0, 1, 2, 4>>[(fhd % 4) + 1]
        sizeSize == CASE fhd \div 64 = 0 -> IF single THEN 1 ELSE 0
                      [] fhd \div 64 = 1 -> 2 [] fhd \div 64 = 2 -> 4 [] fhd \div 64 = 3 -> 8
        begin == idAt + idSize + sizeSize
        id == [k \in 1 .. 4 |-> IF k <= idSize THEN s[idAt + k] ELSE 0]
        size == Number(s, idAt + idSize, sizeSize) + (IF sizeSize = 2 THEN 256 ELSE 0)
        windowLog == lim.windowLog + s[at + 6] \div 8
        window == IF single THEN size
                  ELSE IF windowLog > 20 THEN Large ELSE 2 ^ windowLog + (s[at + 6] % 8) * 2 ^ (windowLog - 3)
        checked == (fhd \div 4) % 2 = 1
        Of(f) ==
            LET out == Rest(f.out, Len(start.content)) IN
            IF ~f.ok THEN f
            ELSE IF sizeSize > 0 /\ Len(out) # size THEN Nothing
            ELSE IF ~checked THEN [ok |-> TRUE, out |-> out, at |-> f.at]
            ELSE IF f.at + 4 > Len(s) THEN Nothing
            ELSE IF SubSeq(s, f.at + 1, f.at + 4) # SubSeq(XXH64(out), 1, 4) THEN Nothing
            ELSE [ok |-> TRUE, out |-> out, at |-> f.at + 4]
    IN  IF ~start.ok THEN start
        ELSE IF Len(s) < at + 6 THEN Nothing
        ELSE IF SubSeq(s, at + 1, at + 4) # <<40, 181, 47, 253>> \/ (fhd \div 8) % 2 = 1 THEN Nothing
        ELSE IF begin > Len(s) THEN Nothing
        ELSE IF ~single /\ windowLog > 31 THEN Nothing
        ELSE IF id \notin {<<0, 0, 0, 0>>, start.id} THEN Nothing
        ELSE Of(Blocks(s, begin, [ok |-> TRUE, open |-> FALSE, out |-> start.content, huf |-> start.huf,
                                  tables |-> start.tables, reps |-> start.reps,
                                  max |-> IF window < lim.block THEN window ELSE lim.block]))

(* An entry is any number of frames, and of frames to be skipped. *)
RECURSIVE Frames(_, _, _, _, _)
Frames(s, at, out, start, lim) ==
    LET Next(f) == IF f.ok THEN Frames(s, f.at, out \o f.out, start, lim) ELSE f
        skipped == at + 8 + Number(s, at + 4, 4)
        Skippable == s[at + 1] \div 16 = 5 /\ SubSeq(s, at + 2, at + 4) = <<42, 77, 24>>
    IN  IF at = Len(s) THEN [ok |-> TRUE, out |-> out]
        ELSE IF Len(s) < at + 5 THEN Nothing
        ELSE IF ~Skippable THEN Next(Frame(s, at, start, lim))
        ELSE IF at + 8 > Len(s) THEN Nothing
        ELSE IF skipped > Len(s) THEN Nothing
        ELSE Frames(s, skipped, out, start, lim)

Entry(s, dict, lim) == Frames(s, 0, << >>, Start(dict), lim)
=============================================================================

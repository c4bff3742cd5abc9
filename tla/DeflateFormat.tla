--------------------------- MODULE DeflateFormat ---------------------------
(***************************************************************************)
(* What a deflate stream means, as RFC 1951 has it: the reference the       *)
(* decompressor of miniz is compared with.  It sees all of the bits, and a  *)
(* code is the rule that defines it, so there are no tables and no buffers. *)
(***************************************************************************)
EXTENDS Integers, FiniteSets, SequencesExt

CONSTANTS ByteBits, EOB, LenBase, LenExtra, DistBase, DistExtra, FixedSizes,
          HeaderBits, MinSizes, Dezigzag, RepeatBits, RepeatBase, MaxBits

Number(bits, pos, n) ==
    FoldLeft(LAMBDA v, i : v + bits[pos + i] * 2 ^ (i - 1), 0, [i \in 1 .. n |-> i])

Used(sizes) == {s \in DOMAIN sizes : sizes[s] # 0}
SumOf(f(_), n) == FoldLeft(LAMBDA v, l : v + f(l), 0, [l \in 1 .. n |-> l])

(* A code word is the share of the symbols before it, those with a shorter  *)
(* word and those with one as long and a smaller number.                    *)
Before(sizes, s, l) ==
    {t \in Used(sizes) : sizes[t] = l /\ (l < sizes[s] \/ t < s)}
Word(sizes, s) ==
    LET word == SumOf(LAMBDA l : Cardinality(Before(sizes, s, l)) * 2 ^ (sizes[s] - l), sizes[s])
    IN  [i \in 1 .. sizes[s] |-> (word \div 2 ^ (sizes[s] - i)) % 2]

Code(sizes) == [s \in Used(sizes) |-> Word(sizes, s)]
Share(sizes) ==
    SumOf(LAMBDA l : Cardinality({s \in DOMAIN sizes : sizes[s] = l}) * 2 ^ (MaxBits - l), MaxBits)
Sound(sizes) ==
    Share(sizes) = 2 ^ MaxBits \/ Cardinality(Used(sizes)) <= 1

(* The symbol at pos: "short" when the bits end in it, "absent" when no     *)
(* symbol begins like that.                                                 *)
Read(bits, pos, code) ==
    LET rest == SubSeq(bits, pos + 1, Len(bits))
        found == {s \in DOMAIN code : IsPrefix(code[s], rest)} IN
    IF found # {} THEN LET s == CHOOSE s \in found : TRUE IN
                       [is |-> "ok", sym |-> s, pos |-> pos + Len(code[s])]
    ELSE [is |-> IF \E s \in DOMAIN code : IsPrefix(rest, code[s]) THEN "short" ELSE "absent"]

(* base and the number in the n bits from pos on. *)
Value(bits, pos, base, n) ==
    IF pos + n > Len(bits) THEN [is |-> "short"]
    ELSE [is |-> "ok", val |-> base + Number(bits, pos, n), pos |-> pos + n]

End(is, out, pos) == [is |-> is, out |-> out, pos |-> pos]

RECURSIVE Repeated(_, _, _), Lengths(_, _, _), MoreLengths(_, _, _), Raw(_, _, _, _),
          Symbols(_, _, _), Symbol(_, _, _, _), Matched(_, _, _, _), Decoded(_, _, _, _)

Repeated(out, len, dist) ==
    IF len = 0 THEN out ELSE Repeated(Append(out, out[Len(out) + 1 - dist]), len - 1, dist)

(* A block b is [bits, final, limit, lit, dst], the last two its codes.     *)
Next(b, out, pos) ==
    IF b.final = 1 THEN End("ok", out, pos) ELSE Decoded(b.bits, pos, out, b.limit)

Raw(b, pos, out, len) ==
    IF len = 0 THEN Next(b, out, pos)
    ELSE IF Len(out) = b.limit THEN End("over", out, pos)
    ELSE IF pos + ByteBits > Len(b.bits) THEN End("short", out, pos)
    ELSE Raw(b, pos + ByteBits, Append(out, Number(b.bits, pos, ByteBits)), len - 1)

(* A match: its length r, then its distance, and what it adds.              *)
DistanceOf(b, d) ==
    IF d.is # "ok" THEN d ELSE Value(b.bits, d.pos, DistBase[d.sym + 1], DistExtra[d.sym + 1])

Fitted(b, out, all, d) ==
    IF Len(all) > b.limit THEN End("over", SubSeq(all, 1, b.limit), d.pos)
    ELSE Symbols(b, d.pos, all)

Matched(b, out, len, d) ==
    IF d.is # "ok" THEN End(d.is, out, 0)
    ELSE IF d.val = 0 \/ d.val > Len(out) THEN End("bad", out, 0)
    ELSE Fitted(b, out, Repeated(out, len, d.val), d)

Match(b, out, r) ==
    IF r.is # "ok" THEN End(r.is, out, 0)
    ELSE Matched(b, out, r.val, DistanceOf(b, Read(b.bits, r.pos, b.dst)))

Symbol(b, pos, out, r) ==
    IF r.is # "ok" THEN End(r.is, out, pos)
    ELSE IF r.sym = EOB THEN Next(b, out, r.pos)
    ELSE IF r.sym > EOB
    THEN Match(b, out, Value(b.bits, r.pos, LenBase[r.sym - EOB], LenExtra[r.sym - EOB]))
    ELSE IF Len(out) = b.limit THEN End("over", out, pos)
    ELSE Symbols(b, r.pos, Append(out, r.sym))

Symbols(b, pos, out) == Symbol(b, pos, out, Read(b.bits, pos, b.lit))

Compressed(b, out, pos) ==
    IF Sound(b.lit) /\ Sound(b.dst)
    THEN Symbols([b EXCEPT !.lit = Code(b.lit), !.dst = Code(b.dst)], pos, out)
    ELSE End("bad", out, pos)

Fixed(b, pos, out) == Compressed([b EXCEPT !.lit = FixedSizes[1], !.dst = FixedSizes[2]], out, pos)

(* The code lengths of a dynamic block, as many as h wants: h is [bits,     *)
(* wanted, code], r what has been read of them.                             *)
Extended(h, r, k, v) ==
    IF v.is # "ok" THEN [is |-> v.is]
    ELSE Lengths(h, v.pos,
                 r.lens \o [i \in 1 .. v.val |-> IF k = 1 THEN Last(r.lens) ELSE 0])

MoreLengths(h, lens, s) ==
    IF s.is # "ok" THEN [is |-> s.is]
    ELSE IF s.sym <= MaxBits THEN Lengths(h, s.pos, Append(lens, s.sym))
    ELSE IF s.sym = MaxBits + 1 /\ lens = << >> THEN [is |-> "bad"]
    ELSE Extended(h, [lens |-> lens], s.sym - MaxBits,
                  Value(h.bits, s.pos, RepeatBase[s.sym - MaxBits], RepeatBits[s.sym - MaxBits]))

Lengths(h, pos, lens) ==
    IF Len(lens) > h.wanted THEN [is |-> "bad"]
    ELSE IF Len(lens) = h.wanted THEN [is |-> "ok", lens |-> lens, pos |-> pos]
    ELSE MoreLengths(h, lens, Read(h.bits, pos, h.code))

(* Its three sizes, nlit, ndst and nhdr, the code of the code lengths, and  *)
(* those.                                                                   *)
Described(b, out, nlit, ndst, r) ==
    IF r.is # "ok" THEN End(r.is, out, 0)
    ELSE Compressed([b EXCEPT !.lit = [s \in 0 .. nlit - 1 |-> r.lens[s + 1]],
                              !.dst = [s \in 0 .. ndst - 1 |-> r.lens[nlit + s + 1]]], out, r.pos)

Headed(b, pos, out, nlit, ndst, sizes) ==
    IF ~Sound(sizes) THEN End("bad", out, pos)
    ELSE Described(b, out, nlit, ndst,
                   Lengths([bits |-> b.bits, wanted |-> nlit + ndst, code |-> Code(sizes)], pos, << >>))

HeaderCode(b, start, nhdr) ==
    [s \in 0 .. Len(Dezigzag) - 1 |->
        LET i == CHOOSE i \in DOMAIN Dezigzag : Dezigzag[i] = s IN
        IF i <= nhdr THEN Number(b.bits, start + 3 * (i - 1), 3) ELSE 0]

Sized(b, pos, out, nlit, ndst, nhdr) ==
    IF nlit.is # "ok" \/ ndst.is # "ok" \/ nhdr.is # "ok" THEN End("short", out, pos)
    ELSE IF nhdr.pos + 3 * nhdr.val > Len(b.bits) THEN End("short", out, pos)
    ELSE Headed(b, nhdr.pos + 3 * nhdr.val, out, nlit.val, ndst.val,
                HeaderCode(b, nhdr.pos, nhdr.val))

Dynamic(b, pos, out) ==
    LET size(i, at) == Value(b.bits, at, MinSizes[i], HeaderBits[i]) IN
    Sized(b, pos, out, size(1, pos), size(2, pos + HeaderBits[1]),
          size(3, pos + HeaderBits[1] + HeaderBits[2]))

Stored(b, start, out) ==
    IF start + 4 * ByteBits > Len(b.bits) THEN End("short", out, start)
    ELSE IF Number(b.bits, start, 2 * ByteBits) + Number(b.bits, start + 2 * ByteBits, 2 * ByteBits)
                # 2 ^ (2 * ByteBits) - 1 THEN End("bad", out, start)
    ELSE Raw(b, start + 4 * ByteBits, out, Number(b.bits, start, 2 * ByteBits))

(* What the bits from pos on say, behind `out`, as far as `limit` allows. *)
Decoded(bits, pos, out, limit) ==
    LET block(b, type, at) ==
            CASE type = 0 -> Stored(b, ((at + ByteBits - 1) \div ByteBits) * ByteBits, out)
              [] type = 1 -> Fixed(b, at, out)
              [] type = 2 -> Dynamic(b, at, out)
              [] OTHER -> End("bad", out, at)
    IN  IF pos + 3 > Len(bits) THEN End("short", out, pos)
        ELSE block([bits |-> bits, final |-> bits[pos + 1], limit |-> limit, lit |-> << >>, dst |-> << >>],
                   Number(bits, pos + 1, 2), pos + 3)
=============================================================================

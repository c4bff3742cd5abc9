---------------------------- MODULE MCZipDeflate ----------------------------
(* Half of everything: bytes of four bits, codes of up to seven, sixteen    *)
(* literals, matches of 3 to 8 in a window of 128; so two bytes are still   *)
(* more than the longest code, and four are not enough for two codes behind *)
(* a shorter rest.                                                          *)
EXTENDS ZipDeflate

MCLenBase == <<3, 4, 6, 8, 0, 0, 0>>
MCLenExtra == <<0, 1, 1, 0, 0, 0, 0>>
MCDistBase == <<1, 2, 3, 5, 9, 17, 33, 65, 0, 0, 0, 0, 0, 0, 0, 0>>
MCDistExtra == <<0, 0, 1, 2, 3, 4, 5, 6, 0, 0, 0, 0, 0, 0, 0, 0>>
MCFixedSizes == <<[s \in 0 .. 23 |-> IF s < 16 THEN 5 ELSE 4], [s \in 0 .. 15 |-> 4]>>
MCHeaderBits == <<3, 4, 3>>
MCMinSizes == <<17, 1, 4>>
MCDezigzag == <<8, 9, 10, 0, 4, 3, 5, 2, 6, 1, 7>>
MCMaxSymbols == <<24, 16, 11>>
MCRepeatBits == <<1, 2, 3>>
MCRepeatBase == <<3, 3, 7>>
MCHashOf(c0, c1, c2) == (16 * c0 + 4 * c1 + c2) % 64
MCMaxProbes == <<6, 3>>

Format == INSTANCE DeflateFormat

-----------------------------------------------------------------------------
(* Streams, bit by bit; b is what is there already. *)
N(v, n) == [i \in 1 .. n |-> (v \div 2 ^ (i - 1)) % 2]
Pad(b) == b \o [i \in 1 .. (ByteBits - (Len(b) % ByteBits)) % ByteBits |-> 0]
BytesOf(b) == [i \in 1 .. Len(Pad(b)) \div ByteBits |->
                Val(SubSeq(Pad(b), ByteBits * (i - 1) + 1, ByteBits * i), ByteBits)]
Lens(s) == [i \in 0 .. Len(s) - 1 |-> s[i + 1]]
Word(code, s) == Format!Word(code, s)

StoredBlock(b, fin, bytes) ==
    Pad(b \o N(fin, 3)) \o N(Len(bytes), 8) \o N(255 - Len(bytes), 8) \o BitsOf(bytes)

(* A literal is a number, a match a length symbol and a distance symbol,    *)
(* each with its extra bits.                                                *)
Items(b, lit, dst, items) ==
    FoldLeft(LAMBDA x, it :
                 IF Len(it) = 1 THEN x \o Word(lit, it[1])
                 ELSE x \o Word(lit, EOB + it[1]) \o N(it[2], LenExtra[it[1]])
                        \o Word(dst, it[3]) \o N(it[4], DistExtra[it[3] + 1]),
             b, items) \o Word(lit, EOB)

FixedBlock(b, fin, items) == Items(b \o N(fin + 2, 3), FixedSizes[1], FixedSizes[2], items)

(* lens: the code lengths as the header has them, <<n>> or <<repeat, extra>>. *)
Header(b, fin, nlit, ndst, hdr, lens) ==
    FoldLeft(LAMBDA x, it : x \o Word(hdr, it[1])
                              \o (IF Len(it) = 1 THEN << >> ELSE N(it[2], RepeatBits[it[1] - MaxBits])),
             b \o N(fin + 4, 3) \o N(nlit - 17, 3) \o N(ndst - 1, 4) \o N(7, 3)
               \o FoldLeft(LAMBDA x, s : x \o N(hdr[s], 3), << >>, Dezigzag),
             lens)

(* Lengths 1 to 7 for the literals 0 to 6 and 7 for the end: codes deeper   *)
(* than the look-up table.                                                  *)
Hdr == Lens(<<0, 3, 3, 3, 3, 3, 3, 3, 4, 0, 4>>)
DeepLit == Lens(<<1, 2, 3, 4, 5, 6, 7, 0, 0, 0, 0, 0, 0, 0, 0, 0, 7>>)
DeepLens == <<<<1>>, <<2>>, <<3>>, <<4>>, <<5>>, <<6>>, <<7>>, <<10, 2>>, <<7>>>>
Deep(b, fin, items) ==
    Items(Header(b, fin, 17, 4, Hdr, DeepLens \o <<<<2>>, <<8, 0>>>>), DeepLit,
          Lens(<<2, 2, 2, 2>>), items)

(* A match symbol, and one distance only, in a code that is not complete. *)
OneLit == Lens(<<1, 0, 0, 0, 0, 0, 0, 0, 0, 0, 0, 0, 0, 0, 0, 0, 2, 2>>)
OneHdr == Lens(<<3, 2, 2, 3, 0, 0, 0, 0, 0, 3, 3>>)
OneLens == <<<<1>>, <<10, 7>>, <<0>>, <<2>>, <<2>>, <<1>>>>
One(b, fin, items) ==
    Items(Header(b, fin, 18, 1, OneHdr, OneLens), OneLit, Lens(<<1>>), items)

Lits(s) == [i \in 1 .. Len(s) |-> <<s[i]>>]
Valid == {
    StoredBlock(<< >>, 1, <<7, 8, 9>>),
    FixedBlock(<< >>, 1, << >>),
    StoredBlock(FixedBlock(<< >>, 0, Lits(<<3, 12>>) \o <<<<2, 1, 0, 0>>, <<1, 0, 2, 1>>>>), 1, <<1, 2>>),
    Deep(<< >>, 1, Lits(<<6, 6, 5, 0, 6, 0, 4>>)),
    FixedBlock(Deep(<< >>, 0, Lits(<<0, 0, 6>>)), 1, Lits(<<2>>)),
    One(<< >>, 1, Lits(<<0>>) \o <<<<1, 0, 0, 0>>>>)
  }
(* Codes that want too much or too little, lengths that repeat nothing or   *)
(* run over, codes no block uses.                                           *)
Invalid == {
    FixedBlock(<< >>, 1, Lits(<<3>>) \o <<<<1, 0, 1, 0>>>>),
    FixedBlock(<< >>, 1, Lits(<<3>>) \o <<<<1, 0, 8, 0>>>>),
    FixedBlock(<< >>, 1, Lits(<<3>>) \o <<<<5, 0, 0, 0>>>>),
    N(7, 3) \o N(0, 9),
    Header(<< >>, 1, 17, 4, Hdr, <<<<8, 0>>>>),
    Header(<< >>, 1, 17, 4, Hdr, DeepLens \o <<<<2>>, <<8, 1>>>>) \o N(0, 9),
    Header(<< >>, 1, 17, 4, Hdr, DeepLens \o <<<<2>>, <<2>>, <<2>>, <<3>>>>) \o N(0, 9),
    Header(<< >>, 1, 17, 4, Hdr, DeepLens \o <<<<7>>, <<8, 0>>>>) \o N(0, 9),
    Header(<< >>, 1, 17, 4, Hdr, DeepLens \o <<<<1>>, <<8, 0>>>>) \o N(0, 9),
    Header(<< >>, 1, 17, 4, [Hdr EXCEPT ![0] = 1], << >>) \o N(0, 9)
  }

Size(b) == Len(Format!Decoded(b, 0, << >>, 20).out)
Limits(n) == {n, n - 1} \cap Nat

Flipped(b) == {[b EXCEPT ![i] = 1 - @] : i \in DOMAIN b}
Cut(b) == {SubSeq(b, 1, ByteBits * k) : k \in 0 .. Len(b) \div ByteBits}

Inputs ==
    UNION {{BytesOf(b) \o junk : junk \in {<< >>, <<5, 10, 5>>}} \X Limits(Size(b))
              : b \in Valid \cup Invalid}
    \cup {<<BytesOf(c), 12>> : c \in UNION {Flipped(b) \cup Cut(b) : b \in Valid}}

MCStreams ==
    {[data |-> i[1], uncomp |-> i[2], means |-> Format!Decoded(BitsOf(i[1]), 0, << >>, i[2])]
        : i \in Inputs}

-----------------------------------------------------------------------------
(* Files: short ones; a run; noise, which is stored, up to where the window *)
(* has not all of it any more; counts like Fibonacci's, whose code would be *)
(* too long; a match that a longer one behind it beats; bytes that seem   *)
(* to repeat what the window has just lost; and one over which positions   *)
(* wrap, so that an old one looks like the current one.                     *)
Noise ==
    LET power[i \in 1 .. 160] == IF i = 1 THEN 6 ELSE (6 * power[i - 1]) % 151
    IN  [i \in 1 .. 160 |-> power[i] % 16]
Fibonacci == <<3, 2, 0, 0, 1, 1, 3, 1, 0, 0, 0, 3, 2, 2, 0, 6, 1, 1, 0, 1, 0, 4, 4, 0, 0, 1,
    2, 0, 2, 6, 0, 0, 0, 2, 0, 4, 0, 1, 5, 1, 2, 3, 0, 7, 0, 0, 1, 3, 5, 0, 0, 0, 4, 3, 0, 1,
    0, 0, 2, 1, 1, 3, 0, 2, 0, 0, 3, 1, 4, 0, 0, 0, 1, 0, 1, 2, 2, 1, 2, 5, 0, 1, 1, 1, 0, 2, 1>>
Zeros(n) == [i \in 1 .. n |-> 0]
Lazy == <<11, 1, 2, 3, 9, 2, 3, 4, 5, 6, 7, 8, 10, 1, 2, 3, 4, 5, 6, 7, 8, 1, 2, 3>>
Edge == <<1, 12, 13, 14, 3>> \o SubSeq(Noise, 1, 120) \o <<12, 13, 14, 15, 12, 13, 14, 15>>
            \o Zeros(40)
Wrapped == Zeros(11) \o <<5, 5, 5>> \o Zeros(240) \o <<3, 5, 5, 2>> \o Zeros(7)
               \o <<6, 3, 5, 5, 5, 4>> \o Zeros(9)

MCContents ==
    UNION {[1 .. n -> {0, 1}] : n \in 4 .. 6}
    \cup {Zeros(30), SubSeq(Noise, 1, 40), SubSeq(Noise, 1, 130),
          SubSeq(Noise, 1, 20) \o SubSeq(Noise, 3, 7) \o SubSeq(Noise, 21, 60)
              \o SubSeq(Noise, 30, 34) \o SubSeq(Noise, 61, 150),
          Fibonacci, Lazy, Edge, Wrapped}

-----------------------------------------------------------------------------
Outcome(r) ==
    CASE r.is = "ok" -> IF Len(r.out) = stream.uncomp THEN "extracted" ELSE "unexpected_size"
      [] r.is = "over" -> "has_more_output"
      [] r.is = "short" -> "cannot_make_progress"
      [] OTHER -> "failed"

(* However the stream is cut into buffers, the decompressor says what the   *)
(* format says: the same bytes, the same end, all of the input of a stream  *)
(* that is whole and none of what follows it (the assertion on num_bits at  *)
(* its end), and each fault by its status.  What the compressor has written *)
(* is such a stream, and means the file it was given.  (A code word that no *)
(* symbol has, in a code of one symbol, is read as something else.)         *)
DeflateIsExact ==
    Over /\ stream.means.is # "absent" =>
        LET r == stream.means IN
        IF status = "not_read" THEN IsPrefix(out, r.out)
        ELSE /\ status = Outcome(r) /\ out = r.out
             /\ r.is = "ok" => /\ bits = << >>
                               /\ cur = (r.pos + ByteBits - 1) \div ByteBits

(* The arrays are large enough for every stream, good or bad, and every     *)
(* file: the trees for the nodes that are made, m_len_codes for a repeat    *)
(* that runs over, the output for what is written, and the bit buffer for   *)
(* what is read ahead; m_lz_code_buf for the codes of a block, and          *)
(* m_output_buf for the block, however little it shrinks.                   *)
ArraysSuffice ==
    /\ Len(out) <= stream.uncomp
    /\ Len(bits) <= 8 * ByteBits
    /\ pc \in {"lens", "repeat"} =>
          Len(code_sizes) < MaxSymbols[1] + MaxSymbols[2] + RepeatBase[3] + 2 ^ RepeatBits[3] - 1
    /\ \A i \in 1 .. 3 : tables[i] # NoTable =>
          Cardinality(DOMAIN tables[i].tree) <= 2 * MaxSymbols[i]
    /\ LzUsed(lz) <= LZ_CODE_BUF_SIZE
    /\ BlockDone => BytesPut(written, Aligned(WithBlock(1))) < OUT_BUF_SIZE - 16

(* Every file is compressed, and the reader comes to an end on every        *)
(* stream, however damaged; neither goes round its loop for ever.           *)
BothEnd == <>Ended
=============================================================================

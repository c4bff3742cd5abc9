------------------------------ MODULE Inflate ------------------------------
(***************************************************************************)
(* tinfl_decompress of miniz on a raw deflate stream, and the loop of       *)
(* mz_zip_reader_extract_to_mem_no_alloc1 that feeds it a buffer at a time. *)
(* The decompressor is a coroutine: wherever a byte is missing or the       *)
(* output is full it returns, and the next call goes on at that place.      *)
(*                                                                          *)
(* A step is a symbol or a field of the stream; what is short of bits takes *)
(* every byte there is and waits for more.                                  *)
(***************************************************************************)
EXTENDS HuffTable

CONSTANTS
    Streams,        \* what is decompressed: [data, uncomp, means], the bytes, the size in the
                    \* record and, for the properties, what the format says of them
    ReadSizes       \* bytes of the read buffer; a stream in memory is one buffer

ASSUME InflateAssumption ==
    /\ ReadSizes \subseteq Nat \ {0}
    /\ \A s \in Streams : s.data \in Seq(0 .. 2 ^ ByteBits - 1) /\ s.uncomp \in Nat

VARIABLES
    stream, read_buf_size,
    next,       \* pIn_buf_next: how much of the stream earlier calls have taken
    cur,        \* pIn_buf_cur
    end,        \* pIn_buf_end: how much of the stream is in the read buffer
    bits,       \* bit_buf, of num_bits bits
    fill,       \* is the wait inside TINFL_HUFF_BITBUF_FILL?
    final, type,
    counter, dist, num_extra,
    sizes,      \* m_table_sizes[3]
    code_sizes, \* m_code_size_2 while a header is read, then m_len_codes as far as read
    tables,     \* the tables of the literal, the distance and the header code
    out,        \* what is in the output buffer
    pc, status

input == <<stream, read_buf_size, next, end>>
header == <<final, type, sizes, code_sizes, tables>>
regs == <<counter, dist, num_extra>>
inflate_vars == <<input, cur, bits, fill, header, regs, out, pc, status>>

NoTable == << >>

Remaining == Len(stream.data) - end        \* comp_remaining
Avail == end - cur
Room == stream.uncomp - Len(out)

NextBuffer(from) == Min({Len(stream.data), from + read_buf_size})

(* tinfl_init *)
Reset ==
    /\ next = 0 /\ cur = 0
    /\ bits = << >> /\ fill = FALSE
    /\ final = 0 /\ type = 0 /\ counter = 0 /\ dist = 0 /\ num_extra = 0
    /\ sizes = <<0, 0, 0>> /\ code_sizes = << >>
    /\ tables = <<NoTable, NoTable, NoTable>>
    /\ out = << >> /\ pc = "block"

InflateInit ==
    /\ stream \in Streams /\ read_buf_size \in ReadSizes
    /\ end = 0 /\ status = "needs_more_input" /\ Reset

-----------------------------------------------------------------------------
(* TINFL_CR_RETURN.  Unless more input is wanted, whole bytes that were     *)
(* read ahead go back, as far as this call has read them.                   *)
PushBack(b) ==
    LET whole == Len(b) \div ByteBits IN IF whole < cur - next THEN whole ELSE cur - next

PutBack(b) == SubSeq(b, 1, Len(b) - ByteBits * PushBack(b))

Return(st, b) ==
    /\ status' = st
    /\ bits' = PutBack(b) /\ cur' = cur - PushBack(b)
    /\ UNCHANGED <<input, fill, header, regs, pc>>

(* The loop of the reader: a first buffer, and another as long as one is    *)
(* asked for, unless it cannot be read.                                     *)
Refill ==
    /\ status = "needs_more_input"
    /\ \/ next' = cur /\ end' = NextBuffer(end) /\ status' = "running"
       \/ status' = "not_read" /\ UNCHANGED <<next, end>>
    /\ UNCHANGED <<stream, read_buf_size, cur, bits, fill, header, regs, out, pc>>

(* A byte is wanted and there is none. *)
Starve_more ==      \* mutant: more is asked for at the end of the stream, too
    /\ status' = "needs_more_input"
    /\ UNCHANGED <<input, header, regs, out, pc>>

Starve ==
    /\ status' = IF Remaining > 0 THEN "needs_more_input" ELSE "cannot_make_progress"
    /\ UNCHANGED <<input, header, regs, out, pc>>

(* TINFL_GET_BITS, n of them: what is there of them is taken, and Then sees *)
(* the value and changes everything but `cur`, `bits` and `fill`.           *)
BytesFor(n) ==
    IF Len(bits) >= n THEN 0 ELSE (n - Len(bits) + ByteBits - 1) \div ByteBits
Taken(k) ==
    bits \o BitsOf(SubSeq(stream.data, cur + 1,
                          IF cur + k < Len(stream.data) THEN cur + k ELSE Len(stream.data)))

GetBits(n, Then(_)) ==
    /\ fill' = FALSE
    /\ IF BytesFor(n) <= Avail
       THEN /\ cur' = cur + BytesFor(n)
            /\ bits' = SubSeq(Taken(BytesFor(n)), n + 1, Len(Taken(BytesFor(n))))
            /\ Then(Val(Taken(BytesFor(n)), n))
       ELSE /\ cur' = end /\ bits' = Taken(Avail)
            /\ Starve

(* TINFL_HUFF_DECODE.  With two bytes at hand both are taken; else one by   *)
(* one, and only while the bits are no whole code.  A call that was waiting *)
(* for the next byte goes on one by one, whatever has come.                 *)
FillEnd_greedy(t) ==        \* mutant: always two bytes
    IF Len(bits) >= MaxBits THEN 0 ELSE 2

FillEnd(t) ==       \* how many bytes it takes
    LET whole(k) == Len(Taken(k)) >= MaxBits \/ HasCode(t, Taken(k))
        least == IF fill THEN 1 ELSE 0      \* a waiting call takes a byte before it looks
    IN  IF ~fill /\ Len(bits) >= MaxBits THEN 0
        ELSE IF ~fill /\ Avail >= 2 THEN 2
        ELSE Min({k \in least .. 1 : whole(k)} \cup {2})

HuffDecode(t, Then(_)) ==
    LET k == FillEnd(t)
        d == Decode(t, Taken(k)) IN
    IF k <= Avail
    THEN /\ cur' = cur + k /\ fill' = FALSE
         /\ bits' = SubSeq(Taken(k), d.len + 1, Len(Taken(k)))
         /\ Then(d.sym)
    ELSE /\ cur' = end /\ bits' = Taken(Avail) /\ fill' = TRUE
         /\ Starve

At(label) == status = "running" /\ pc = label
Goes(label) == pc' = label /\ UNCHANGED <<input, status>>
Rest(k) == SubSeq(bits, k + 1, Len(bits))

-----------------------------------------------------------------------------
(* The three bits in front of a block. *)
Block ==
    /\ At("block")
    /\ GetBits(3, LAMBDA v :
        /\ final' = v % 2 /\ type' = v \div 2
        /\ Goes(<<"stored", "fixed", "sizes", "failed">>[v \div 2 + 1])
        /\ counter' = 0
        /\ UNCHANGED <<sizes, code_sizes, tables, dist, num_extra, out>>)

BlockEnd == Goes(IF final = 1 THEN "trailer" ELSE "block")

(* A stored block, from a byte boundary: its length and the complement of   *)
(* it, then bytes, first those already in the bit buffer.                   *)
Align ==
    /\ At("stored")
    /\ bits' = Rest(Len(bits) % ByteBits)
    /\ Goes("raw_header")
    /\ UNCHANGED <<cur, fill, header, regs, out>>

RawHeader ==
    /\ At("raw_header")
    /\ GetBits(4 * ByteBits, LAMBDA v :
        LET len == v % 2 ^ (2 * ByteBits)
            complement == v \div 2 ^ (2 * ByteBits) IN
        /\ counter' = len
        /\ Goes(IF len + complement = 2 ^ (2 * ByteBits) - 1 THEN "raw" ELSE "failed")
        /\ UNCHANGED <<header, dist, num_extra, out>>)

RawBits ==
    /\ At("raw") /\ counter > 0 /\ bits # << >>
    /\ IF Room = 0 THEN Return("has_more_output", Rest(ByteBits)) /\ UNCHANGED out
       ELSE /\ out' = Append(out, Val(bits, ByteBits)) /\ bits' = Rest(ByteBits)
            /\ counter' = counter - 1
            /\ Goes(pc)
            /\ UNCHANGED <<cur, fill, header, dist, num_extra>>

RawCopy ==
    /\ At("raw") /\ counter > 0 /\ bits = << >>
    /\ IF Room = 0 THEN Return("has_more_output", bits) /\ UNCHANGED out
       ELSE IF Avail = 0 THEN Starve /\ UNCHANGED <<cur, bits, fill>>
       ELSE LET n == Min({Room, Avail, counter}) IN
            /\ out' = out \o SubSeq(stream.data, cur + 1, cur + n)
            /\ cur' = cur + n /\ counter' = counter - n
            /\ Goes(pc)
            /\ UNCHANGED <<bits, fill, header, dist, num_extra>>

RawEnd ==
    /\ At("raw") /\ counter = 0 /\ BlockEnd
    /\ UNCHANGED <<cur, bits, fill, header, regs, out>>

-----------------------------------------------------------------------------
(* The tables of a block that is compressed. *)
Coded(lit, dst) ==
    IF Refused(dst) \/ Refused(lit) THEN Goes("failed") /\ UNCHANGED tables
    ELSE /\ tables' = <<BuildTable(lit), BuildTable(dst), tables[3]>>
         /\ Goes("symbol")

Fixed ==
    /\ At("fixed")
    /\ Coded(FixedSizes[1], FixedSizes[2])
    /\ UNCHANGED <<cur, bits, fill, final, type, sizes, code_sizes, regs, out>>

(* A dynamic block: the sizes of the three tables, *)
Sizes ==
    /\ At("sizes") /\ counter < 3
    /\ GetBits(HeaderBits[counter + 1], LAMBDA v :
        /\ sizes' = [sizes EXCEPT ![counter + 1] = v + MinSizes[counter + 1]]
        /\ counter' = counter + 1
        /\ Goes(pc)
        /\ UNCHANGED <<final, type, code_sizes, tables, dist, num_extra, out>>)

SizesEnd ==
    /\ At("sizes") /\ counter = 3
    /\ code_sizes' = [s \in 0 .. Repeat + 2 |-> 0] /\ counter' = 0
    /\ Goes("clens")
    /\ UNCHANGED <<cur, bits, fill, final, type, sizes, tables, dist, num_extra, out>>

(* the code of the code lengths, *)
CodeLength ==
    /\ At("clens") /\ counter < sizes[3]
    /\ GetBits(3, LAMBDA v :
        /\ code_sizes' = [code_sizes EXCEPT ![Dezigzag[counter + 1]] = v]
        /\ counter' = counter + 1
        /\ Goes(pc)
        /\ UNCHANGED <<final, type, sizes, tables, dist, num_extra, out>>)

HeaderTable ==
    /\ At("clens") /\ counter = sizes[3]
    /\ IF Refused(code_sizes) THEN Goes("failed") /\ UNCHANGED tables
       ELSE /\ tables' = [tables EXCEPT ![3] = BuildTable(code_sizes)]
            /\ Goes("lens")
    /\ code_sizes' = << >> /\ counter' = 0
    /\ UNCHANGED <<cur, bits, fill, final, type, sizes, dist, num_extra, out>>

(* and with it those lengths, some as repetitions.                          *)
LensWanted == sizes[1] + sizes[2]

Length ==
    /\ At("lens") /\ counter < LensWanted
    /\ HuffDecode(tables[3], LAMBDA sym :
        /\ dist' = sym
        /\ IF sym < Repeat
           THEN /\ code_sizes' = Append(code_sizes, sym) /\ counter' = counter + 1
                /\ Goes(pc) /\ UNCHANGED num_extra
           ELSE IF sym = Repeat /\ counter = 0
           THEN Goes("failed") /\ UNCHANGED <<code_sizes, counter, num_extra>>
           ELSE /\ num_extra' = RepeatBits[sym - Repeat + 1]
                /\ Goes("repeat") /\ UNCHANGED <<code_sizes, counter>>
        /\ UNCHANGED <<final, type, sizes, tables, out>>)

Repetition ==
    /\ At("repeat")
    /\ GetBits(num_extra, LAMBDA v :
        LET s == v + RepeatBase[dist - Repeat + 1]
            what == IF dist = Repeat THEN code_sizes[counter] ELSE 0 IN
        /\ code_sizes' = code_sizes \o [k \in 1 .. s |-> what] /\ counter' = counter + s
        /\ Goes("lens")
        /\ UNCHANGED <<final, type, sizes, tables, dist, num_extra, out>>)

LensEnd ==
    /\ At("lens") /\ counter >= LensWanted
    /\ IF counter # LensWanted THEN Goes("failed") /\ UNCHANGED tables
       ELSE Coded([s \in 0 .. sizes[1] - 1 |-> code_sizes[s + 1]],
                  [s \in 0 .. sizes[2] - 1 |-> code_sizes[sizes[1] + s + 1]])
    /\ UNCHANGED <<cur, bits, fill, final, type, sizes, code_sizes, regs, out>>

-----------------------------------------------------------------------------
(* A symbol, with fewer than four bytes at hand or no room for two: *)
Fast == ~fill /\ Avail >= 4 /\ Room >= 2

Symbol ==
    /\ At("symbol") /\ ~Fast
    /\ HuffDecode(tables[1], LAMBDA sym :
        /\ counter' = sym
        /\ Goes(IF sym < EOB THEN "literal" ELSE "length")
        /\ UNCHANGED <<header, dist, num_extra, out>>)

Literal ==
    /\ At("literal")
    /\ IF Room = 0 THEN Return("has_more_output", bits) /\ UNCHANGED out
       ELSE /\ out' = Append(out, counter)
            /\ Goes("symbol")
            /\ UNCHANGED <<cur, bits, fill, header, regs>>

(* otherwise two at a time, with four bytes read as soon as the bits may    *)
(* not be enough for them.                                                  *)
Ahead_always == 4       \* mutant: even when there are enough

Ahead == IF Len(bits) < 2 * MaxBits THEN 4 ELSE 0

Behind(d, b) == SubSeq(b, d.len + 1, Len(b))

SecondSymbol(first, d, b) ==
    /\ bits' = Behind(d, b) /\ counter' = d.sym
    /\ IF d.sym >= EOB THEN out' = Append(out, first) /\ Goes("length")
       ELSE out' = out \o <<first, d.sym>> /\ Goes("symbol")

FirstSymbol(d, b) ==
    IF d.sym >= EOB
    THEN bits' = Behind(d, b) /\ counter' = d.sym /\ Goes("length") /\ UNCHANGED out
    ELSE SecondSymbol(d.sym, Decode(tables[1], Behind(d, b)), Behind(d, b))

FastSymbols ==
    /\ At("symbol") /\ Fast
    /\ cur' = cur + Ahead
    /\ FirstSymbol(Decode(tables[1], Taken(Ahead)), Taken(Ahead))
    /\ UNCHANGED <<fill, header, dist, num_extra>>

(* The end of the block, or a match. *)
MatchLength ==
    /\ At("length")
    /\ IF counter = EOB THEN BlockEnd /\ UNCHANGED <<counter, num_extra>>
       ELSE /\ num_extra' = LenExtra[counter - EOB] /\ counter' = LenBase[counter - EOB]
            /\ Goes("length_extra")
    /\ UNCHANGED <<cur, bits, fill, header, dist, out>>

LengthExtra ==
    /\ At("length_extra")
    /\ GetBits(num_extra, LAMBDA v :
        /\ counter' = counter + v /\ Goes("dist")
        /\ UNCHANGED <<header, dist, num_extra, out>>)

Distance ==
    /\ At("dist")
    /\ HuffDecode(tables[2], LAMBDA sym :
        /\ num_extra' = DistExtra[sym + 1] /\ dist' = DistBase[sym + 1]
        /\ Goes("dist_extra")
        /\ UNCHANGED <<header, counter, out>>)

DistExtraBits ==
    /\ At("dist_extra")
    /\ GetBits(num_extra, LAMBDA v :
        /\ dist' = dist + v /\ Goes("copy")
        /\ UNCHANGED <<header, counter, num_extra, out>>)

(* What is copied may overlap what it is copied from. *)
Copied(n) == FoldLeft(LAMBDA o, k : Append(o, o[Len(o) + 1 - dist]), out, [k \in 1 .. n |-> k])

Copy ==
    /\ At("copy")
    /\ IF dist = 0 \/ dist > Len(out)
       THEN Goes("failed") /\ UNCHANGED <<cur, bits, fill, header, regs, out>>
       ELSE IF counter > Room
       THEN out' = Copied(Room) /\ Return("has_more_output", bits)
       ELSE /\ out' = Copied(counter) /\ Goes("symbol")
            /\ UNCHANGED <<cur, bits, fill, header, regs>>

-----------------------------------------------------------------------------
Trailer ==
    /\ At("trailer")
    /\ Return("done", Rest(Len(bits) % ByteBits)) /\ UNCHANGED out

Failed ==
    /\ At("failed")
    /\ Return("failed", bits) /\ UNCHANGED out

(* The reader looks whether that was all of the entry, then at the CRC. *)
Finish ==
    /\ status = "done"
    /\ status' = IF Room # 0 THEN "unexpected_size" ELSE "extracted"
    /\ UNCHANGED <<input, cur, bits, fill, header, regs, out, pc>>

Over == status \in {"extracted", "unexpected_size", "failed", "has_more_output",
                    "cannot_make_progress", "not_read"}

InflateNext ==
    \/ Refill \/ Block \/ Trailer \/ Failed \/ Finish
    \/ Align \/ RawHeader \/ RawBits \/ RawCopy \/ RawEnd
    \/ Fixed \/ Sizes \/ SizesEnd \/ CodeLength \/ HeaderTable \/ Length \/ Repetition \/ LensEnd
    \/ Symbol \/ Literal \/ FastSymbols \/ MatchLength \/ LengthExtra \/ Distance
    \/ DistExtraBits \/ Copy
=============================================================================

------------------------------ MODULE ZstdCopy ------------------------------
(***************************************************************************)
(* The copies of the zstd decoder (src/zstddeclib.c).  They move 8 or 16    *)
(* bytes at a time and may run over the end of what is asked for, so they   *)
(* are modelled on memory: areas of bytes, and pointers into them.  An area *)
(* is the caller's output, the buffer for literals in the context, the      *)
(* entry as it was read, or the dictionary.                                 *)
(***************************************************************************)
EXTENDS Integers

CONSTANTS Unit      \* 8, the bytes of the smallest of the fast copies

ASSUME CopyAssumption == Unit \in Nat \ {0}

WILDCOPY_VECLEN == 2 * Unit
WILDCOPY_OVERLENGTH == 4 * Unit

Unknown == -1       \* a byte nobody wrote, or that a torn copy left

At(area, n) == [at |-> area, off |-> n]
NULL == At("null", 0)
Plus(p, n) == [p EXCEPT !.off = @ + n]

(* The distance of two pointers; those into different areas are far apart.  *)
Near(p, q) == p.at = q.at
Diff(p, q) == p.off - q.off

Load(m, p) == IF p.off \in DOMAIN m[p.at] THEN m[p.at][p.off] ELSE Unknown

(* n bytes from ip to op, the one of number k being value(k).  An access    *)
(* outside of an area is remembered.                                        *)
Stored(m, op, ip, n, value(_)) ==
    LET written == op.off .. op.off + n - 1
        read == ip.off .. ip.off + n - 1 IN
    [m EXCEPT ![op.at] = [i \in DOMAIN @ |-> IF i \in written THEN value(i - op.off) ELSE @[i]],
              !.stray = @ \/ ~(written \subseteq DOMAIN m[op.at]) \/ ~(read \subseteq DOMAIN m[ip.at])]

(* memcpy by chunks: what an earlier chunk wrote a later one may read, but  *)
(* a chunk that overlaps itself is torn.                                    *)
Copied(m, op, ip, n, chunk) ==
    LET diff == Diff(op, ip)
        torn == Near(op, ip) /\ diff # 0 /\ -chunk < diff /\ diff < chunk
        from(k) == Plus(ip, IF Near(op, ip) /\ diff > 0 THEN k % diff ELSE k)
    IN  Stored(m, op, ip, n, LAMBDA k : IF torn THEN Unknown ELSE Load(m, from(k)))

ByteByByte(m, op, ip, n) == Copied(m, op, ip, n, 1)
memcpy(m, op, ip, n) == Copied(m, op, ip, n, n)
memmove(m, op, ip, n) == Stored(m, op, ip, n, LAMBDA k : Load(m, Plus(ip, k)))

(* do-while loops: at least one round. *)
Rounds(n, step) == IF n <= step THEN 1 ELSE (n + step - 1) \div step

ZSTD_wildcopy(m, op, ip, n, overlap) ==
    IF overlap /\ Near(op, ip) /\ Diff(op, ip) < WILDCOPY_VECLEN
    THEN Copied(m, op, ip, Unit * Rounds(n, Unit), Unit)
    ELSE Copied(m, op, ip,
                IF n <= WILDCOPY_VECLEN THEN WILDCOPY_VECLEN
                ELSE WILDCOPY_VECLEN * (1 + 2 * Rounds(n - WILDCOPY_VECLEN, 2 * WILDCOPY_VECLEN)),
                WILDCOPY_VECLEN)

(* The first 8 bytes of a match, and how far it is back from then on: the   *)
(* two tables in the code have the smallest multiple of the offset that is  *)
(* at least 8.                                                              *)
ZSTD_overlapCopy8(m, op, ip) ==
    IF Diff(op, ip) < Unit THEN ByteByByte(m, op, ip, Unit) ELSE Copied(m, op, ip, Unit, Unit)
Spread(offset) == IF offset < Unit THEN offset * Rounds(Unit, offset) ELSE offset

(* Near the end of the output: only what is asked for is written behind     *)
(* oend_w, plus what fits.                                                  *)
ZSTD_safecopy(m, op, oend_w, ip, n, overlap) ==
    IF n < Unit THEN ByteByByte(m, op, ip, n)
    ELSE LET m1 == IF overlap THEN ZSTD_overlapCopy8(m, op, ip) ELSE m
             op1 == IF overlap THEN Plus(op, Unit) ELSE op
             ip1 == IF overlap THEN Plus(op1, -Spread(Diff(op, ip))) ELSE ip
             n1 == IF overlap THEN n - Unit ELSE n
             room == Diff(oend_w, op1)
         IN  IF Diff(Plus(op, n), oend_w) <= 0 THEN ZSTD_wildcopy(m1, op1, ip1, n1, overlap)
             ELSE IF room >= 0
             THEN ByteByByte(ZSTD_wildcopy(m1, op1, ip1, room, overlap),
                             Plus(op1, room), Plus(ip1, room), n1 - room)
             ELSE ByteByByte(m1, op1, ip1, n1)

(* Literals out of the output buffer itself, which lie behind it. *)
ZSTD_safecopyDstBeforeSrc(m, op, ip, n) ==
    LET diff == Diff(op, ip)
        fast == n - WILDCOPY_OVERLENGTH IN
    IF n >= Unit /\ diff <= -Unit /\ fast >= 0 /\ diff < -WILDCOPY_VECLEN
    THEN ByteByByte(ZSTD_wildcopy(m, op, ip, fast, FALSE), Plus(op, fast), Plus(ip, fast), n - fast)
    ELSE ByteByByte(m, op, ip, n)
=============================================================================

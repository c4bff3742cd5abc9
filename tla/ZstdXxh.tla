------------------------------ MODULE ZstdXxh ------------------------------
(***************************************************************************)
(* The checksum of a frame: XXH64 with seed 0, as the zstd decoder has it   *)
(* (src/zstddeclib.c), of a text that comes in parts and of one that is     *)
(* there as a whole.  A number of 64 bits is its 8 bytes, the lowest first. *)
(***************************************************************************)
EXTENDS Integers, Sequences, Bitwise

Word64 == 1 .. 8

RECURSIVE Carried(_, _, _)
Carried(sums, k, carry) ==
    IF k > 8 THEN << >>
    ELSE LET v == sums[k] + carry IN <<v % 256>> \o Carried(sums, k + 1, v \div 256)

Zero64 == <<0, 0, 0, 0, 0, 0, 0, 0>>
Plus64(x, y) == Carried([k \in Word64 |-> x[k] + y[k]], 1, 0)
Minus64(x) == Carried([k \in Word64 |-> (IF k = 1 THEN 256 ELSE 255) - x[k]], 1, 0)
Xor64(x, y) == [k \in Word64 |-> x[k] ^^ y[k]]

Times64(x, y) ==
    LET column[k \in Word64, i \in 0 .. 8] ==
            IF i = 0 \/ i > k THEN 0 ELSE x[i] * y[k - i + 1] + column[k, i - 1]
    IN  Carried([k \in Word64 |-> column[k, k]], 1, 0)

ShiftRight64(x, n) ==
    LET byte(k) == IF k > 8 THEN 0 ELSE x[k] IN
    [k \in Word64 |-> (byte(k + n \div 8) \div 2 ^ (n % 8) + byte(k + n \div 8 + 1) * 2 ^ (8 - (n % 8))) % 256]
XXH_rotl64(x, n) ==
    LET byte(k) == x[((k - 1) % 8) + 1] IN
    [k \in Word64 |-> (byte(k - n \div 8) * 2 ^ (n % 8) + byte(k - n \div 8 - 1) \div 2 ^ (8 - (n % 8))) % 256]

XXH_PRIME64_1 == <<135, 202, 235, 133, 177, 121, 55, 158>>
XXH_PRIME64_2 == <<79, 235, 212, 39, 61, 174, 178, 194>>
XXH_PRIME64_3 == <<249, 121, 55, 158, 177, 103, 86, 22>>
XXH_PRIME64_4 == <<99, 174, 178, 194, 119, 202, 235, 133>>
XXH_PRIME64_5 == <<197, 103, 86, 22, 47, 235, 212, 39>>

Length64(n) == Carried([k \in Word64 |-> IF k = 1 THEN n ELSE 0], 1, 0)

(* n bytes of s behind the first i, as a number. *)
Read64(s, i, n) == [k \in Word64 |-> IF k <= n THEN s[i + k] ELSE 0]

XXH64_round(acc, input) ==
    Times64(XXH_rotl64(Plus64(acc, Times64(input, XXH_PRIME64_2)), 31), XXH_PRIME64_1)

XXH64_mergeRound(acc, val) ==
    Plus64(Times64(Xor64(acc, XXH64_round(Zero64, val)), XXH_PRIME64_1), XXH_PRIME64_4)

XXH64_avalanche(hash) ==
    LET h1 == Times64(Xor64(hash, ShiftRight64(hash, 33)), XXH_PRIME64_2)
        h2 == Times64(Xor64(h1, ShiftRight64(h1, 29)), XXH_PRIME64_3)
    IN  Xor64(h2, ShiftRight64(h2, 32))

(* The last bytes of s, behind the first i: by 8, by 4, one by one. *)
RECURSIVE XXH64_finalize(_, _, _)
XXH64_finalize(hash, s, i) ==
    LET n == Len(s) - i
        by8 == Plus64(Times64(XXH_rotl64(Xor64(hash, XXH64_round(Zero64, Read64(s, i, 8))), 27),
                              XXH_PRIME64_1), XXH_PRIME64_4)
        by4 == Plus64(Times64(XXH_rotl64(Xor64(hash, Times64(Read64(s, i, 4), XXH_PRIME64_1)), 23),
                              XXH_PRIME64_2), XXH_PRIME64_3)
        by1 == Times64(XXH_rotl64(Xor64(hash, Times64(Read64(s, i, 1), XXH_PRIME64_5)), 11), XXH_PRIME64_1)
    IN  CASE n >= 8 -> XXH64_finalize(by8, s, i + 8)
          [] n \in 4 .. 7 -> XXH64_finalize(by4, s, i + 4)
          [] n \in 1 .. 3 -> XXH64_finalize(by1, s, i + 1)
          [] n = 0 -> XXH64_avalanche(hash)

Start64 == <<Plus64(XXH_PRIME64_1, XXH_PRIME64_2), XXH_PRIME64_2, Zero64, Minus64(XXH_PRIME64_1)>>

(* The stripe of 32 bytes of s behind the first i. *)
Stripe(v, s, i) == [k \in 1 .. 4 |-> XXH64_round(v[k], Read64(s, i + 8 * (k - 1), 8))]

Merged(v) ==
    LET sum == Plus64(Plus64(XXH_rotl64(v[1], 1), XXH_rotl64(v[2], 7)),
                      Plus64(XXH_rotl64(v[3], 12), XXH_rotl64(v[4], 18)))
    IN  XXH64_mergeRound(XXH64_mergeRound(XXH64_mergeRound(XXH64_mergeRound(sum, v[1]), v[2]), v[3]), v[4])

-----------------------------------------------------------------------------
(* The whole text s at once. *)
RECURSIVE Stripes(_, _, _)
Stripes(v, s, i) == IF Len(s) - i < 32 THEN [v |-> v, at |-> i] ELSE Stripes(Stripe(v, s, i), s, i + 32)

XXH64(s) ==
    LET done == Stripes(Start64, s, 0)
        hash == IF Len(s) >= 32 THEN Merged(done.v) ELSE XXH_PRIME64_5
    IN  XXH64_finalize(Plus64(hash, Length64(Len(s))), s, done.at)

(* In parts: fewer than 32 bytes wait for those that make them a stripe.    *)
XXH64_reset == [total_len |-> 0, v |-> Start64, mem64 |-> << >>]

XXH64_update(state, input) ==
    LET need == 32 - Len(state.mem64)
        total == state.total_len + Len(input)
        v == IF state.mem64 = << >> THEN state.v
             ELSE Stripe(state.v, state.mem64 \o SubSeq(input, 1, need), 0)
        done == Stripes(v, input, IF state.mem64 = << >> THEN 0 ELSE need)
    IN  IF Len(input) < need THEN [state EXCEPT !.total_len = total, !.mem64 = @ \o input]
        ELSE [total_len |-> total, v |-> done.v, mem64 |-> SubSeq(input, done.at + 1, Len(input))]

XXH64_digest(state) ==
    LET hash == IF state.total_len >= 32 THEN Merged(state.v) ELSE Plus64(state.v[3], XXH_PRIME64_5)
    IN  XXH64_finalize(Plus64(hash, Length64(state.total_len)), state.mem64, 0)
=============================================================================

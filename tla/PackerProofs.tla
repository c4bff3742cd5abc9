---------------------------- MODULE PackerProofs ----------------------------
(***************************************************************************)
(* Proofs about the packer: where its base is, and that what it ships opens *)
(* and serves every file it visited and every entry it carried over.        *)
(***************************************************************************)
EXTENDS Packer, FiniteSetTheorems, SequenceTheorems, TLAPS

(* ---- Files.  Nothing below the place of a write is lost. ---- *)
FileOK(f) == f.size \in Nat /\ DOMAIN f.at \subseteq Nat

Same(f, g, n) ==
    \A o \in Nat : o < n =>
        /\ o \in DOMAIN f.at <=> o \in DOMAIN g.at
        /\ o \in DOMAIN f.at => g.at[o] = f.at[o]

LEMMA SameTrans ==
    ASSUME NEW f, NEW g, NEW h, NEW m \in Nat, NEW n \in Nat, m <= n,
           Same(f, g, m), Same(g, h, n)
    PROVE  Same(f, h, m)
BY DEF Same

LEMMA SameRefl ==
    ASSUME NEW f, NEW n
    PROVE  Same(f, f, n)
BY DEF Same

LEMMA WriteIs ==
    ASSUME NEW f, FileOK(f), NEW ofs \in Nat, NEW size \in Nat, NEW structure
    PROVE  /\ FileOK(Write(f, ofs, size, structure))
           /\ Write(f, ofs, size, structure).size >= ofs + size
           /\ Write(f, ofs, size, structure).size >= f.size
           /\ Same(f, Write(f, ofs, size, structure), ofs)
           /\ ofs \in DOMAIN Write(f, ofs, size, structure).at
           /\ Write(f, ofs, size, structure).at[ofs] = structure
           /\ \A o \in DOMAIN Write(f, ofs, size, structure).at :
                o = ofs \/ (o \in DOMAIN f.at /\ Write(f, ofs, size, structure).at[o] = f.at[o])
<1>. DEFINE keep == {o \in DOMAIN f.at : o < ofs \/ o >= ofs + size}
            at == [o \in keep \cup {ofs} |-> IF o = ofs THEN structure ELSE f.at[o]]
            g == Write(f, ofs, size, structure)
<1>1. g.at = at
  BY DEF Write
<1>2. g.size = IF f.size > ofs + size THEN f.size ELSE ofs + size
  BY DEF Write
<1>3. DOMAIN at = keep \cup {ofs} /\ keep \subseteq DOMAIN f.at /\ DOMAIN f.at \subseteq Nat
  BY DEF FileOK
<1>4. f.size \in Nat
  BY DEF FileOK
<1>5. FileOK(g) /\ g.size >= ofs + size /\ g.size >= f.size
  BY <1>1, <1>2, <1>3, <1>4 DEF FileOK
<1>6. Same(f, g, ofs)
  <2>. SUFFICES ASSUME NEW o \in Nat, o < ofs
                PROVE  /\ o \in DOMAIN f.at <=> o \in DOMAIN at
                       /\ o \in DOMAIN f.at => at[o] = f.at[o]
    BY <1>1 DEF Same
  <2>. QED
    BY <1>3
<1>7. ofs \in DOMAIN at /\ at[ofs] = structure
  OBVIOUS
<1>8. \A o \in DOMAIN at : o = ofs \/ (o \in DOMAIN f.at /\ at[o] = f.at[o])
  BY <1>3
<1>. QED
  BY <1>1, <1>5, <1>6, <1>7, <1>8

Copyable(f, ofs, other, from, length) ==
    FileOK(f) /\ FileOK(other) /\ ofs \in Nat /\ from \in Nat /\ length \in Nat

LEMMA CopyIs ==
    ASSUME NEW f, NEW ofs, NEW other, NEW from, NEW length, Copyable(f, ofs, other, from, length)
    PROVE  /\ FileOK(Copy(f, ofs, other, from, length))
           /\ Copy(f, ofs, other, from, length).size >= ofs + length
           /\ Copy(f, ofs, other, from, length).size >= f.size
           /\ Same(f, Copy(f, ofs, other, from, length), ofs)
           /\ \A p \in DOMAIN other.at : (from <= p /\ p < from + length) =>
                /\ ofs + (p - from) \in DOMAIN Copy(f, ofs, other, from, length).at
                /\ Copy(f, ofs, other, from, length).at[ofs + (p - from)] = other.at[p]
           /\ \A o \in DOMAIN Copy(f, ofs, other, from, length).at :
                \/ o \in DOMAIN f.at /\ Copy(f, ofs, other, from, length).at[o] = f.at[o]
                \/ \E p \in DOMAIN other.at :
                    /\ from <= p /\ p < from + length
                    /\ Copy(f, ofs, other, from, length).at[o] = other.at[p]
<1>. DEFINE there == {o \in DOMAIN other.at : from <= o /\ o < from + length}
            keep == {o \in DOMAIN f.at : o < ofs \/ o >= ofs + length}
            new == {ofs + (p - from) : p \in there}
            at == [o \in keep \cup new |-> IF o \in keep THEN f.at[o] ELSE other.at[o - ofs + from]]
            g == Copy(f, ofs, other, from, length)
<1>. USE DEF Copyable
<1>1. g.at = at
  BY DEF Copy
<1>2. g.size = IF f.size > ofs + length THEN f.size ELSE ofs + length
  BY DEF Copy
<1>3. keep \subseteq DOMAIN f.at /\ DOMAIN f.at \subseteq Nat /\ DOMAIN other.at \subseteq Nat
  BY DEF FileOK
<1>4. f.size \in Nat
  BY DEF FileOK
<1>5. \A p \in there : ofs + (p - from) \in Nat /\ ofs + (p - from) >= ofs
                       /\ ofs + (p - from) < ofs + length /\ (ofs + (p - from)) - ofs + from = p
  BY <1>3
<1>6. \A p \in there : ofs + (p - from) \in new /\ ofs + (p - from) \notin keep
  BY <1>5
<1>7. \A o \in new : \E p \in there : o = ofs + (p - from)
  OBVIOUS
<1>8. DOMAIN at = keep \cup new
  OBVIOUS
<1>9. FileOK(g) /\ g.size >= ofs + length /\ g.size >= f.size
  <2>1. \A o \in new : o \in Nat
    BY <1>5, <1>7
  <2>. HIDE DEF keep, new, at, g
  <2>. QED
    BY <1>1, <1>2, <1>3, <1>4, <1>8, <2>1 DEF FileOK
<1>10. Same(f, g, ofs)
  <2>. SUFFICES ASSUME NEW o \in Nat, o < ofs
                PROVE  /\ o \in DOMAIN f.at <=> o \in DOMAIN at
                       /\ o \in DOMAIN f.at => at[o] = f.at[o]
    BY <1>1 DEF Same
  <2>1. o \notin new
    BY <1>5, <1>7
  <2>2. o \in DOMAIN f.at => o \in keep
    OBVIOUS
  <2>3. o \in keep => o \in DOMAIN f.at
    OBVIOUS
  <2>4. o \in keep => at[o] = f.at[o]
    OBVIOUS
  <2>. HIDE DEF keep, new, at
  <2>. QED
    BY <1>8, <2>1, <2>2, <2>3, <2>4
<1>11. \A p \in there : at[ofs + (p - from)] = other.at[p]
  <2>. SUFFICES ASSUME NEW p \in there
                PROVE  at[ofs + (p - from)] = other.at[p]
    OBVIOUS
  <2>1. at[ofs + (p - from)] = other.at[(ofs + (p - from)) - ofs + from]
    BY <1>6
  <2>. QED
    BY <1>5, <2>1
<1>12. \A o \in DOMAIN at :
         \/ o \in DOMAIN f.at /\ at[o] = f.at[o]
         \/ \E p \in there : at[o] = other.at[p]
  <2>. SUFFICES ASSUME NEW o \in DOMAIN at
                PROVE  \/ o \in DOMAIN f.at /\ at[o] = f.at[o]
                       \/ \E p \in there : at[o] = other.at[p]
    OBVIOUS
  <2>1. CASE o \in keep
    BY <2>1
  <2>2. CASE o \in new
    BY <1>7, <1>11, <2>2
  <2>. QED
    BY <1>8, <2>1, <2>2
<1>13. \A p \in DOMAIN other.at : (from <= p /\ p < from + length) => p \in there
  OBVIOUS
<1>14. \A p \in there : p \in DOMAIN other.at /\ from <= p /\ p < from + length
  OBVIOUS
<1>. HIDE DEF there, keep, new, at, g
<1>15. \A p \in DOMAIN other.at : (from <= p /\ p < from + length) =>
         ofs + (p - from) \in DOMAIN g.at /\ g.at[ofs + (p - from)] = other.at[p]
  BY <1>1, <1>6, <1>8, <1>11, <1>13
<1>16. \A o \in DOMAIN g.at :
         \/ o \in DOMAIN f.at /\ g.at[o] = f.at[o]
         \/ \E p \in DOMAIN other.at : from <= p /\ p < from + length /\ g.at[o] = other.at[p]
  BY <1>1, <1>12, <1>14
<1>. QED
  BY <1>9, <1>10, <1>15, <1>16 DEF g

LEMMA AppendedIs ==
    ASSUME NEW f, FileOK(f), NEW b \in Nat
    PROVE  /\ FileOK(Appended(b, f)) /\ Appended(b, f).size = b + f.size
           /\ \A p \in DOMAIN f.at :
                b + p \in DOMAIN Appended(b, f).at /\ Appended(b, f).at[b + p] = f.at[p]
           /\ \A o \in DOMAIN Appended(b, f).at :
                o - b \in DOMAIN f.at /\ Appended(b, f).at[o] = f.at[o - b]
<1>. DEFINE dom == {b + p : p \in DOMAIN f.at}
            at == [o \in dom |-> f.at[o - b]]
            g == Appended(b, f)
<1>1. g.at = at /\ g.size = b + f.size
  BY DEF Appended
<1>2. DOMAIN f.at \subseteq Nat /\ f.size \in Nat
  BY DEF FileOK
<1>3. \A o \in dom : o \in Nat /\ o - b \in DOMAIN f.at
  BY <1>2
<1>4. \A p \in DOMAIN f.at : b + p \in dom /\ (b + p) - b = p
  BY <1>2
<1>5. DOMAIN at = dom /\ \A o \in dom : at[o] = f.at[o - b]
  OBVIOUS
<1>. HIDE DEF dom, at, g
<1>. QED
  BY <1>1, <1>2, <1>3, <1>4, <1>5 DEF FileOK, g

(* ---- Records.  The extended field a writer makes is read as it was       *)
(* meant, but for a record that is crossed. ---- *)
One(b) == IF b THEN 1 ELSE 0

LEMMA NthIs ==
    ASSUME NEW rec
    PROVE  /\ Nth(rec, 1) = One(rec.uncomp = Max32)
           /\ Nth(rec, 2) = One(rec.uncomp = Max32) + One(rec.comp = Max32)
           /\ Nth(rec, 3) = One(rec.uncomp = Max32) + One(rec.comp = Max32) + One(rec.ofs = Max32)
<1>. DEFINE s == Saturated(rec)
            S(k) == {j \in 1 .. k : s[j]}
<1>1. s[1] = (rec.uncomp = Max32) /\ s[2] = (rec.comp = Max32) /\ s[3] = (rec.ofs = Max32)
  BY DEF Saturated
<1>2. S(0) = {} /\ S(1) = S(0) \cup (IF s[1] THEN {1} ELSE {}) /\ 1 \notin S(0)
  OBVIOUS
<1>3. S(2) = S(1) \cup (IF s[2] THEN {2} ELSE {}) /\ 2 \notin S(1)
  OBVIOUS
<1>4. S(3) = S(2) \cup (IF s[3] THEN {3} ELSE {}) /\ 3 \notin S(2)
  OBVIOUS
<1>5. \A k \in 1 .. 3 : Nth(rec, k) = Cardinality(S(k))
  BY DEF Nth
<1>. HIDE DEF S, s
<1>6. IsFiniteSet(S(0)) /\ Cardinality(S(0)) = 0
  BY <1>2, FS_EmptySet
<1>7. IsFiniteSet(S(1)) /\ Cardinality(S(1)) = One(s[1])
  <2>1. CASE s[1]
    BY <1>2, <1>6, <2>1, FS_AddElement DEF One
  <2>2. CASE ~s[1]
    BY <1>2, <1>6, <2>2 DEF One
  <2>. QED
    BY <2>1, <2>2
<1>8. IsFiniteSet(S(2)) /\ Cardinality(S(2)) = One(s[1]) + One(s[2])
  <2>1. CASE s[2]
    <3>1. IsFiniteSet(S(2)) /\ Cardinality(S(2)) = Cardinality(S(1)) + 1
      BY <1>3, <1>7, <2>1, FS_AddElement
    <3>. QED
      BY <1>7, <2>1, <3>1 DEF One
  <2>2. CASE ~s[2]
    BY <1>3, <1>7, <2>2 DEF One
  <2>. QED
    BY <2>1, <2>2
<1>9. IsFiniteSet(S(3)) /\ Cardinality(S(3)) = One(s[1]) + One(s[2]) + One(s[3])
  <2>1. CASE s[3]
    <3>1. IsFiniteSet(S(3)) /\ Cardinality(S(3)) = Cardinality(S(2)) + 1
      BY <1>4, <1>8, <2>1, FS_AddElement
    <3>. QED
      BY <1>8, <2>1, <3>1 DEF One
  <2>2. CASE ~s[3]
    BY <1>4, <1>8, <2>2 DEF One
  <2>. QED
    BY <2>1, <2>2
<1>. QED
  BY <1>1, <1>5, <1>7, <1>8, <1>9

LEMMA SaturatedIs ==
    ASSUME NEW rec
    PROVE  /\ Saturated(rec)[1] <=> rec.uncomp = Max32
           /\ Saturated(rec)[2] <=> rec.comp = Max32
           /\ Saturated(rec)[3] <=> rec.ofs = Max32
BY DEF Saturated

(* What is read of a record. *)
StatIs(rec, uncomp, comp, ofs) ==
    /\ file_stat(rec).ok
    /\ file_stat(rec).uncomp = uncomp /\ file_stat(rec).comp = comp /\ file_stat(rec).ofs = ofs

LEMMA StatDir ==
    ASSUME NEW rec
    PROVE  /\ file_stat(rec).dir <=> IsDirName(rec.name)
           /\ file_stat(rec).ok <=> StatWorks(rec)
<1>1. file_stat(rec).dir = IsDirName(rec.name)
  BY DEF file_stat
<1>2. file_stat(rec).ok = StatWorks(rec)
  BY DEF file_stat
<1>. QED
  BY <1>1, <1>2

LEMMA StatFields ==
    ASSUME NEW rec, StatWorks(rec), NEW u, NEW c, NEW o,
           StatValue(rec, 1, rec.uncomp) = u, StatValue(rec, 2, rec.comp) = c,
           StatValue(rec, 3, rec.ofs) = o
    PROVE  StatIs(rec, u, c, o)
BY StatDir DEF StatIs, file_stat

(* A record without extended field, or with no saturated one, says what it  *)
(* says.                                                                    *)
LEMMA StatPlain ==
    ASSUME NEW rec, rec.extra \in Seq(Nat), ~UsesExtended(rec)
    PROVE  StatIs(rec, rec.uncomp, rec.comp, rec.ofs)
<1>1. CASE rec.extra = << >>
  BY <1>1, StatFields DEF StatWorks, StatValue
<1>2. CASE rec.extra # << >>
  <2>1. rec.comp # Max32 /\ rec.uncomp # Max32 /\ rec.ofs # Max32
    BY <1>2 DEF UsesExtended
  <2>2. Nth(rec, 3) = 0 /\ Len(rec.extra) \in Nat
    BY <2>1, NthIs DEF One
  <2>3. StatWorks(rec)
    BY <2>2 DEF StatWorks
  <2>4. StatValue(rec, 1, rec.uncomp) = rec.uncomp /\ StatValue(rec, 2, rec.comp) = rec.comp
        /\ StatValue(rec, 3, rec.ofs) = rec.ofs
    BY <2>1, SaturatedIs DEF StatValue
  <2>. QED
    BY <2>3, <2>4, StatFields
<1>. QED
  BY <1>1, <1>2

LEMMA TwoOnly ==
    ASSUME NEW a, NEW b
    PROVE  <<a, b>> \o << >> = <<a, b>>
OBVIOUS

LEMMA OneOnly ==
    ASSUME NEW a
    PROVE  << >> \o <<a>> = <<a>>
OBVIOUS

(* What the writer asks of a record it makes: without extended field, only  *)
(* numbers that fit; with it, the field the sizes and the offset call for.  *)
LEMMA StatAdded ==
    ASSUME NEW name, NEW method, NEW uncomp \in Nat, NEW comp \in Nat, NEW ofs \in Nat, NEW extra,
           \/ extra = << >> /\ uncomp <= Max32 /\ comp <= Max32 /\ ofs <= Max32
           \/ /\ extra = zip64_extra(uncomp, comp, ofs) /\ extra # << >>
              /\ ~Crossed(create_central_header(name, method, uncomp, comp, ofs, extra))
    PROVE  StatIs(create_central_header(name, method, uncomp, comp, ofs, extra), uncomp, comp, ofs)
<1>. DEFINE rec == create_central_header(name, method, uncomp, comp, ofs, extra)
<1>1. /\ rec.extra = extra /\ rec.uncomp = AtMost(Max32, uncomp)
      /\ rec.comp = AtMost(Max32, comp) /\ rec.ofs = AtMost(Max32, ofs)
  BY DEF create_central_header
<1>2. Max32 \in Nat
  BY LayoutAssumption
<1>3. /\ rec.uncomp = Max32 <=> uncomp >= Max32
      /\ rec.comp = Max32 <=> comp >= Max32
      /\ rec.ofs = Max32 <=> ofs >= Max32
      /\ uncomp <= Max32 => rec.uncomp = uncomp
      /\ comp <= Max32 => rec.comp = comp
      /\ ofs <= Max32 => rec.ofs = ofs
  BY <1>1, <1>2 DEF AtMost
<1>4. CASE extra = << >> /\ uncomp <= Max32 /\ comp <= Max32 /\ ofs <= Max32
  <2>1. /\ StatWorks(rec) /\ StatValue(rec, 1, rec.uncomp) = uncomp
        /\ StatValue(rec, 2, rec.comp) = comp /\ StatValue(rec, 3, rec.ofs) = ofs
    BY <1>1, <1>3, <1>4 DEF StatWorks, StatValue
  <2>. HIDE DEF rec
  <2>. QED
    BY <2>1, StatFields DEF rec
<1>5. CASE extra = zip64_extra(uncomp, comp, ofs) /\ extra # << >> /\ ~Crossed(rec)
  <2>1. ~(ofs >= Max32 /\ (uncomp >= Max32 <=> comp < Max32))
    BY <1>2, <1>3, <1>5 DEF Crossed
  <2>2. extra = (IF uncomp >= Max32 THEN <<uncomp, comp>> ELSE << >>)
                    \o (IF ofs >= Max32 THEN <<ofs>> ELSE << >>)
    BY <1>5 DEF zip64_extra
  <2>. HIDE DEF rec
  <2>3. CASE uncomp >= Max32 /\ comp >= Max32 /\ ofs >= Max32
    <3>1. extra = <<uncomp, comp>> \o <<ofs>>
      BY <2>2, <2>3
    <3>2. <<uncomp, comp>> \in Seq(Nat) /\ <<ofs>> \in Seq(Nat)
      OBVIOUS
    <3>3. Len(extra) = 3 /\ extra[1] = uncomp /\ extra[2] = comp /\ extra[3] = ofs
      BY <3>1, <3>2
    <3>4. Nth(rec, 1) = 1 /\ Nth(rec, 2) = 2 /\ Nth(rec, 3) = 3
      BY <1>3, <2>3, NthIs DEF One
    <3>5. StatWorks(rec)
      BY <1>1, <3>3, <3>4 DEF StatWorks
    <3>6. /\ StatValue(rec, 1, rec.uncomp) = uncomp /\ StatValue(rec, 2, rec.comp) = comp
          /\ StatValue(rec, 3, rec.ofs) = ofs
      BY <1>1, <1>3, <1>5, <2>3, <3>3, <3>4, SaturatedIs DEF StatValue
    <3>. QED
      BY <3>5, <3>6, StatFields DEF rec
  <2>4. CASE uncomp >= Max32 /\ ofs < Max32
    <3>7. (IF uncomp >= Max32 THEN <<uncomp, comp>> ELSE << >>) = <<uncomp, comp>>
      BY <2>4
    <3>8. (IF ofs >= Max32 THEN <<ofs>> ELSE << >>) = << >>
      BY <1>2, <2>4
    <3>0. extra = <<uncomp, comp>> \o << >>
      BY <2>2, <3>7, <3>8, Zenon
    <3>1. extra = <<uncomp, comp>>
      BY <3>0, TwoOnly
    <3>2. Nth(rec, 1) = 1 /\ Nth(rec, 3) \in {1, 2} /\ (comp >= Max32 => Nth(rec, 2) = 2)
      BY <1>2, <1>3, <2>4, NthIs DEF One
    <3>5. StatWorks(rec)
      BY <1>1, <3>1, <3>2 DEF StatWorks
    <3>6. /\ StatValue(rec, 1, rec.uncomp) = uncomp /\ StatValue(rec, 2, rec.comp) = comp
          /\ StatValue(rec, 3, rec.ofs) = ofs
      BY <1>1, <1>2, <1>3, <1>5, <2>4, <3>1, <3>2, SaturatedIs DEF StatValue
    <3>. QED
      BY <3>5, <3>6, StatFields DEF rec
  <2>5. CASE uncomp < Max32
    <3>1. ofs >= Max32 /\ comp < Max32
      BY <1>2, <1>5, <2>1, <2>2, <2>5
    <3>7. (IF uncomp >= Max32 THEN <<uncomp, comp>> ELSE << >>) = << >>
      BY <1>2, <2>5
    <3>8. (IF ofs >= Max32 THEN <<ofs>> ELSE << >>) = <<ofs>>
      BY <3>1
    <3>0. extra = << >> \o <<ofs>>
      BY <2>2, <3>7, <3>8, Zenon
    <3>2. extra = <<ofs>>
      BY <3>0, OneOnly
    <3>3. Nth(rec, 3) = 1
      BY <1>2, <1>3, <2>5, <3>1, NthIs DEF One
    <3>5. StatWorks(rec)
      BY <1>1, <3>2, <3>3 DEF StatWorks
    <3>6. /\ StatValue(rec, 1, rec.uncomp) = uncomp /\ StatValue(rec, 2, rec.comp) = comp
          /\ StatValue(rec, 3, rec.ofs) = ofs
      BY <1>1, <1>2, <1>3, <1>5, <2>5, <3>1, <3>2, <3>3, SaturatedIs DEF StatValue
    <3>. QED
      BY <3>5, <3>6, StatFields DEF rec
  <2>. QED
    BY <1>2, <2>1, <2>3, <2>4, <2>5
<1>. QED
  BY <1>4, <1>5

(* ---- Reading what is there. ---- *)
BodyOf(file, ofs) ==
    ofs + LOCAL_HEADER + Len(file.at[ofs].name) + ExtraSize(file.at[ofs].extra)

(* The record has all it needs below `limit`. *)
Readable(file, rec, limit) ==
    /\ file_stat(rec).ok
    /\ ~(file_stat(rec).dir \/ file_stat(rec).comp = 0) =>
        /\ file_stat(rec).ofs \in Nat /\ file_stat(rec).comp \in Nat
        /\ IsAt(file, file_stat(rec).ofs, "local")
        /\ Len(file.at[file_stat(rec).ofs].name) \in Nat
        /\ ExtraSize(file.at[file_stat(rec).ofs].extra) \in Nat
        /\ BodyOf(file, file_stat(rec).ofs) + file_stat(rec).comp <= limit
        /\ IsAt(file, BodyOf(file, file_stat(rec).ofs), "payload")

LEMMA BodyIs ==
    ASSUME NEW file, NEW ofs \in Nat, Len(file.at[ofs].name) \in Nat,
           ExtraSize(file.at[ofs].extra) \in Nat
    PROVE  /\ BodyOf(file, ofs) \in Nat /\ ofs < BodyOf(file, ofs)
           /\ BodyOf(file, ofs) = ofs + (30 + Len(file.at[ofs].name) + ExtraSize(file.at[ofs].extra))
<1>. DEFINE nlen == Len(file.at[ofs].name)
            xlen == ExtraSize(file.at[ofs].extra)
<1>1. BodyOf(file, ofs) = ofs + 30 + nlen + xlen
  BY DEF BodyOf, LOCAL_HEADER
<1>2. nlen \in Nat /\ xlen \in Nat
  OBVIOUS
<1>. HIDE DEF nlen, xlen
<1>3. BodyOf(file, ofs) \in Nat /\ ofs < BodyOf(file, ofs)
      /\ BodyOf(file, ofs) = ofs + (30 + nlen + xlen)
  BY <1>1, <1>2
<1>. QED
  BY <1>3 DEF nlen, xlen

(* What a readable record gives depends on nothing but its two structures.  *)
Gives(p, rec, comp, uncomp, dict) ==
    IF /\ p.size = comp /\ p.method = rec.method /\ Length[p.data] = uncomp
       /\ p.method = "zstd" => p.dict \in {"none", dict}
    THEN HasData(p.data) ELSE NoData

LEMMA ExtractIs ==
    ASSUME NEW file, NEW rec, NEW dict, NEW limit \in Nat, file.size \in Nat, limit <= file.size,
           Readable(file, rec, limit)
    PROVE  extract(file, rec, dict) =
             IF file_stat(rec).dir \/ file_stat(rec).comp = 0 THEN HasData("nothing")
             ELSE Gives(file.at[BodyOf(file, file_stat(rec).ofs)], rec,
                           file_stat(rec).comp, file_stat(rec).uncomp, dict)
<1>. DEFINE st == file_stat(rec)
            body == BodyOf(file, st.ofs)
<1>1. st.ok
  BY DEF Readable
<1>2. CASE st.dir \/ st.comp = 0
  BY <1>1, <1>2 DEF extract
<1>4. ~(st.dir \/ st.comp = 0) => body \in Nat /\ st.comp \in Nat /\ body + st.comp <= limit
  <2>. SUFFICES ASSUME ~(st.dir \/ st.comp = 0)
                PROVE  body \in Nat /\ st.comp \in Nat /\ body + st.comp <= limit
    OBVIOUS
  <2>1. /\ st.ofs \in Nat /\ st.comp \in Nat /\ body + st.comp <= limit
        /\ Len(file.at[st.ofs].name) \in Nat /\ ExtraSize(file.at[st.ofs].extra) \in Nat
    BY DEF Readable
  <2>2. body \in Nat
    BY <2>1, BodyIs
  <2>. QED
    BY <2>1, <2>2
<1>3. CASE ~(st.dir \/ st.comp = 0)
  <2>1. IsAt(file, st.ofs, "local") /\ IsAt(file, body, "payload")
    BY <1>3 DEF Readable
  <2>2. ~(body + st.comp > file.size)
    <3>. HIDE DEF body
    <3>. QED
      BY <1>3, <1>4
  <2>. QED
    BY <1>1, <1>3, <2>1, <2>2 DEF extract, BodyOf, Gives
<1>. QED
  BY <1>2, <1>3

(* Two files, a shift apart, that agree on the two structures of a record.  *)
LEMMA ExtractMoved ==
    ASSUME NEW file, NEW rec, NEW limit \in Nat, file.size \in Nat, limit <= file.size,
           Readable(file, rec, limit),
           NEW file2, NEW rec2, NEW limit2 \in Nat, file2.size \in Nat, limit2 <= file2.size,
           NEW by \in Int,
           \A o \in Nat : (file_stat(rec).ofs <= o /\ o < limit /\ o \in DOMAIN file.at) =>
                o + by \in Nat /\ o + by \in DOMAIN file2.at /\ file2.at[o + by] = file.at[o],
           limit + by <= limit2,
           rec2.name = rec.name, rec2.method = rec.method,
           StatIs(rec2, file_stat(rec).uncomp, file_stat(rec).comp, file_stat(rec).ofs + by)
    PROVE  /\ Readable(file2, rec2, limit2)
           /\ \A dict : extract(file2, rec2, dict) = extract(file, rec, dict)
<1>. DEFINE st == file_stat(rec)
            st2 == file_stat(rec2)
            body == BodyOf(file, st.ofs)
<1>1. /\ st2.ok /\ st2.uncomp = st.uncomp /\ st2.comp = st.comp /\ st2.ofs = st.ofs + by
      /\ st2.dir <=> st.dir
  BY StatDir DEF StatIs
<1>2. CASE st.dir \/ st.comp = 0
  <2>1. Readable(file2, rec2, limit2)
    BY <1>1, <1>2 DEF Readable
  <2>. QED
    BY <1>1, <1>2, <2>1, ExtractIs
<1>3. CASE ~(st.dir \/ st.comp = 0)
  <2>0. /\ st.ofs \in Nat /\ st.comp \in Nat /\ body + st.comp <= limit
        /\ Len(file.at[st.ofs].name) \in Nat /\ ExtraSize(file.at[st.ofs].extra) \in Nat
        /\ IsAt(file, st.ofs, "local") /\ IsAt(file, body, "payload")
    BY <1>3 DEF Readable
  <2>1. body \in Nat /\ st.ofs < body
    BY <2>0, BodyIs
  <2>. HIDE DEF body
  <2>2. st.comp > 0 /\ st.ofs < limit /\ body < limit
    <3>1. st.comp # 0
      BY <1>3
    <3>. HIDE DEF st
    <3>. QED
      BY <2>0, <2>1, <3>1
  <2>3. /\ st.ofs + by \in Nat /\ st.ofs + by \in DOMAIN file2.at
        /\ file2.at[st.ofs + by] = file.at[st.ofs]
        /\ body + by \in Nat /\ body + by \in DOMAIN file2.at /\ file2.at[body + by] = file.at[body]
    <3>. DEFINE at == st.ofs
    <3>1. at \in DOMAIN file.at /\ body \in DOMAIN file.at /\ at \in Nat /\ at <= at /\ at <= body
      BY <2>0, <2>1 DEF IsAt
    <3>2. at < limit
      BY <2>2
    <3>. HIDE DEF st
    <3>3. \A o \in Nat : (at <= o /\ o < limit /\ o \in DOMAIN file.at) =>
                o + by \in Nat /\ o + by \in DOMAIN file2.at /\ file2.at[o + by] = file.at[o]
      BY DEF st
    <3>. HIDE DEF at
    <3>4. at + by \in Nat /\ at + by \in DOMAIN file2.at /\ file2.at[at + by] = file.at[at]
      BY <3>1, <3>2, <3>3
    <3>5. body + by \in Nat /\ body + by \in DOMAIN file2.at /\ file2.at[body + by] = file.at[body]
      BY <2>1, <2>2, <3>1, <3>3
    <3>. QED
      BY <3>4, <3>5 DEF at
  <2>4. BodyOf(file2, st2.ofs) = body + by
    <3>. DEFINE nlen == Len(file.at[st.ofs].name)
                xlen == ExtraSize(file.at[st.ofs].extra)
                at == st.ofs
    <3>1. BodyOf(file2, st2.ofs) = (at + by) + 30 + nlen + xlen
      BY <1>1, <2>3 DEF BodyOf, LOCAL_HEADER
    <3>2. body = at + 30 + nlen + xlen
      BY DEF BodyOf, LOCAL_HEADER, body
    <3>3. nlen \in Nat /\ xlen \in Nat /\ at \in Nat
      BY <2>0
    <3>. HIDE DEF nlen, xlen, at, st2
    <3>. QED
      BY <3>1, <3>2, <3>3
  <2>5. Readable(file2, rec2, limit2)
    BY <1>1, <1>3, <2>0, <2>1, <2>2, <2>3, <2>4 DEF Readable, IsAt
  <2>6. \A dict : extract(file2, rec2, dict)
                    = Gives(file2.at[body + by], rec2, st2.comp, st2.uncomp, dict)
    BY <1>1, <1>3, <2>4, <2>5, ExtractIs
  <2>7. \A dict : extract(file, rec, dict) = Gives(file.at[body], rec, st.comp, st.uncomp, dict)
    BY <1>3, ExtractIs DEF body
  <2>. QED
    BY <1>1, <2>3, <2>5, <2>6, <2>7 DEF Gives
<1>. QED
  BY <1>2, <1>3

(* A record that gives something without any dictionary gives it with one.  *)
LEMMA ExtractNone ==
    ASSUME NEW file, NEW rec, NEW data, NEW dict,
           extract(file, rec, "none") = HasData(data)
    PROVE  extract(file, rec, dict) = HasData(data)
<1>. DEFINE st == file_stat(rec)
            body == BodyOf(file, st.ofs)
<1>1. HasData(data) # NoData
  BY DEF HasData, NoData
<1>2. st.ok
  BY <1>1 DEF extract
<1>3. CASE st.dir \/ st.comp = 0
  BY <1>2, <1>3 DEF extract
<1>4. CASE ~(st.dir \/ st.comp = 0)
  <2>1. IsAt(file, st.ofs, "local") /\ ~(body + st.comp > file.size \/ ~IsAt(file, body, "payload"))
    BY <1>1, <1>2, <1>4 DEF extract, BodyOf
  <2>2. \A d : extract(file, rec, d) = Gives(file.at[body], rec, st.comp, st.uncomp, d)
    BY <1>2, <1>4, <2>1 DEF extract, BodyOf, Gives
  <2>3. Gives(file.at[body], rec, st.comp, st.uncomp, "none") = HasData(data)
    BY <2>2
  <2>4. Gives(file.at[body], rec, st.comp, st.uncomp, dict) = HasData(data)
    BY <1>1, <2>3 DEF Gives
  <2>. QED
    BY <2>2, <2>4
<1>. QED
  BY <1>3, <1>4

LEMMA LenNat ==
    ASSUME NEW S, NEW s \in Seq(S)
    PROVE  Len(s) \in Nat
OBVIOUS

(* What can be extracted from a file is readable. *)
LEMMA ReadableIs ==
    ASSUME NEW file, NEW rec, NEW dict, file.size \in Nat,
           file_stat(rec).ofs \in Nat, file_stat(rec).comp \in Nat,
           extract(file, rec, dict).ok,
           IsAt(file, file_stat(rec).ofs, "local") =>
                /\ file.at[file_stat(rec).ofs].name \in Seq(Char)
                /\ file.at[file_stat(rec).ofs].extra \in Seq(Nat)
    PROVE  Readable(file, rec, file.size)
<1>. DEFINE st == file_stat(rec)
            body == BodyOf(file, st.ofs)
<1>1. ~NoData.ok
  BY DEF NoData
<1>2. st.ok
  BY <1>1 DEF extract
<1>3. CASE st.dir \/ st.comp = 0
  BY <1>2, <1>3 DEF Readable
<1>4. CASE ~(st.dir \/ st.comp = 0)
  <2>1. IsAt(file, st.ofs, "local") /\ ~(body + st.comp > file.size \/ ~IsAt(file, body, "payload"))
    BY <1>1, <1>2, <1>4 DEF extract, BodyOf
  <2>6. file.at[st.ofs].name \in Seq(Char) /\ file.at[st.ofs].extra \in Seq(Nat)
    BY <2>1
  <2>2. Len(file.at[st.ofs].name) \in Nat /\ Len(file.at[st.ofs].extra) \in Nat
    BY <2>6, LenNat, Zenon
  <2>3. ExtraSize(file.at[st.ofs].extra) \in Nat
    BY <2>2 DEF ExtraSize
  <2>4. body \in Nat
    BY <2>2, <2>3, BodyIs
  <2>. HIDE DEF body
  <2>5. body + st.comp <= file.size
    BY <2>1, <2>4
  <2>. QED
    BY <1>2, <2>1, <2>2, <2>3, <2>5 DEF Readable, body
<1>. QED
  BY <1>3, <1>4

(* ---- The writer. ---- *)
PartsOnly(file) == \A o \in DOMAIN file.at : file.at[o].kind \in ENTRY_PARTS

(* Sane to the reader, with all it speaks of below `limit`. *)
RecOK(rec, limit) ==
    /\ (rec.comp # Max32 /\ rec.uncomp # Max32) =>
        /\ rec.method = "store" => rec.uncomp = rec.comp
        /\ ~(rec.uncomp # 0 /\ rec.comp = 0)
    /\ rec.ofs + LOCAL_HEADER <= limit
    /\ rec.comp # Max32 => rec.ofs + LOCAL_HEADER + rec.comp <= limit

Shape(w) ==
    w = [file |-> w.file, ofs |-> w.ofs, dir |-> w.dir, dirsize |-> w.dirsize,
         zip64 |-> w.zip64, mode |-> w.mode]

(* A writer between two calls: nothing but parts of entries in its file,    *)
(* and every record sound.                                                  *)
WriterOK(w) ==
    /\ Shape(w)
    /\ w.ofs \in Nat /\ w.dirsize \in Nat /\ w.zip64 \in BOOLEAN /\ w.mode = "writing"
    /\ FileOK(w.file) /\ PartsOnly(w.file) /\ w.ofs <= w.file.size
    /\ w.dir \in Seq(Record) /\ w.dirsize >= CENTRAL_HEADER * Len(w.dir)
    /\ \A k \in DOMAIN w.dir : RecOK(w.dir[k], w.ofs)

(* A step of the writer leaves what it has below its offset. *)
Grows(w, w2) ==
    /\ Same(w.file, w2.file, w.ofs) /\ w.ofs <= w2.ofs /\ w2.ofs <= w2.file.size
    /\ \A k \in DOMAIN w.dir : k \in DOMAIN w2.dir /\ w2.dir[k] = w.dir[k]

(* Record k is that of a file. *)
HeldAt(w, k, name, data, dict) ==
    /\ k \in DOMAIN w.dir /\ w.dir[k].name = name
    /\ \/ Crossed(w.dir[k])
       \/ Readable(w.file, w.dir[k], w.ofs) /\ extract(w.file, w.dir[k], dict) = HasData(data)

LEMMA HeldStays ==
    ASSUME NEW w, w.ofs \in Nat, FileOK(w.file), w.ofs <= w.file.size,
           NEW w2, w2.ofs \in Nat, FileOK(w2.file), Grows(w, w2),
           NEW k, NEW name, NEW data, NEW dict, HeldAt(w, k, name, data, dict),
           w.dir[k] \in Record, file_stat(w.dir[k]).ok => file_stat(w.dir[k]).ofs \in Nat
    PROVE  HeldAt(w2, k, name, data, dict)
<1>. DEFINE rec == w.dir[k]
<1>1. k \in DOMAIN w2.dir /\ w2.dir[k] = rec /\ rec.name = name
  BY DEF HeldAt, Grows
<1>2. CASE Crossed(rec)
  BY <1>1, <1>2 DEF HeldAt
<1>3. CASE Readable(w.file, rec, w.ofs) /\ extract(w.file, rec, dict) = HasData(data)
  <2>1. \A o \in Nat : (file_stat(rec).ofs <= o /\ o < w.ofs /\ o \in DOMAIN w.file.at) =>
          o + 0 \in Nat /\ o + 0 \in DOMAIN w2.file.at /\ w2.file.at[o + 0] = w.file.at[o]
    BY DEF Grows, Same
  <2>2. w.file.size \in Nat /\ w2.file.size \in Nat /\ w.ofs + 0 <= w2.ofs /\ w2.ofs <= w2.file.size
    BY DEF Grows, FileOK
  <2>3. file_stat(rec).ok /\ file_stat(rec).ofs \in Nat
    BY <1>3 DEF Readable
  <2>4. StatIs(rec, file_stat(rec).uncomp, file_stat(rec).comp, file_stat(rec).ofs + 0)
    BY <2>3 DEF StatIs
  <2>. HIDE DEF rec
  <2>5. Readable(w2.file, rec, w2.ofs) /\ extract(w2.file, rec, dict) = extract(w.file, rec, dict)
    BY <1>3, <2>1, <2>2, <2>4, ExtractMoved, SMTT(30)
  <2>. QED
    BY <1>1, <1>3, <2>5 DEF HeldAt, rec
<1>. QED
  BY <1>2, <1>3 DEF HeldAt

LEMMA StatNat ==
    ASSUME NEW rec \in Record, file_stat(rec).ok
    PROVE  /\ file_stat(rec).uncomp \in Nat /\ file_stat(rec).comp \in Nat
           /\ file_stat(rec).ofs \in Nat
<1>1. rec.extra \in Seq(Nat) /\ rec.uncomp \in Nat /\ rec.comp \in Nat /\ rec.ofs \in Nat
  BY LayoutAssumption DEF Record
<1>2. Len(rec.extra) \in Nat /\ \A j \in 1 .. Len(rec.extra) : rec.extra[j] \in Nat
  BY <1>1, LenNat
<1>3. StatWorks(rec)
  BY StatDir
<1>4. rec.extra # << >> => Nth(rec, 3) <= Len(rec.extra)
  BY <1>3 DEF StatWorks
<1>5. /\ rec.uncomp = Max32 => Nth(rec, 1) >= 1
      /\ rec.comp = Max32 => Nth(rec, 2) >= 1
      /\ rec.ofs = Max32 => Nth(rec, 3) >= 1
      /\ Nth(rec, 1) <= Nth(rec, 3) /\ Nth(rec, 2) <= Nth(rec, 3)
      /\ \A k \in 1 .. 3 : Nth(rec, k) \in Nat
  <2>. DEFINE u == One(rec.uncomp = Max32)
              c == One(rec.comp = Max32)
              o == One(rec.ofs = Max32)
  <2>1. /\ u \in {0, 1} /\ c \in {0, 1} /\ o \in {0, 1}
        /\ rec.uncomp = Max32 => u = 1
        /\ rec.comp = Max32 => c = 1
        /\ rec.ofs = Max32 => o = 1
    BY DEF One
  <2>2. Nth(rec, 1) = u /\ Nth(rec, 2) = u + c /\ Nth(rec, 3) = u + c + o
    BY NthIs
  <2>3. \A k \in 1 .. 3 : k = 1 \/ k = 2 \/ k = 3
    OBVIOUS
  <2>. HIDE DEF u, c, o
  <2>. QED
    BY <2>1, <2>2, <2>3
<1>. DEFINE n1 == Nth(rec, 1)
            n2 == Nth(rec, 2)
            n3 == Nth(rec, 3)
            len == Len(rec.extra)
<1>9. /\ n1 \in Nat /\ n2 \in Nat /\ n3 \in Nat /\ n1 <= n3 /\ n2 <= n3 /\ len \in Nat
      /\ rec.uncomp = Max32 => n1 >= 1
      /\ rec.comp = Max32 => n2 >= 1
      /\ rec.ofs = Max32 => n3 >= 1
      /\ rec.extra # << >> => n3 <= len
  BY <1>2, <1>4, <1>5
<1>10. \A j \in 1 .. len : rec.extra[j] \in Nat
  BY <1>2
<1>. HIDE DEF n1, n2, n3, len
<1>11. rec.extra # << >> =>
        /\ rec.uncomp = Max32 => rec.extra[n1] \in Nat
        /\ rec.comp = Max32 => rec.extra[n2] \in Nat
        /\ rec.ofs = Max32 => rec.extra[n3] \in Nat
  BY <1>9, <1>10
<1>6. StatValue(rec, 1, rec.uncomp) \in Nat
  BY <1>1, <1>11, SaturatedIs DEF StatValue, n1
<1>7. StatValue(rec, 2, rec.comp) \in Nat
  BY <1>1, <1>11, SaturatedIs DEF StatValue, n2
<1>8. StatValue(rec, 3, rec.ofs) \in Nat
  BY <1>1, <1>11, SaturatedIs DEF StatValue, n3
<1>. QED
  BY <1>3, <1>6, <1>7, <1>8 DEF file_stat

(* A file the writer may leave behind, with what it held below `ofs`.       *)
LeftOf(f, ofs, g) == FileOK(g) /\ PartsOnly(g) /\ Same(f, g, ofs) /\ ofs <= g.size

(* A part of an entry may be written to `g` at `at`. *)
Writable(f, ofs, g, at, size, structure) ==
    /\ LeftOf(f, ofs, g) /\ ofs \in Nat /\ at \in Nat /\ ofs <= at /\ size \in Nat
    /\ structure.kind \in ENTRY_PARTS

LEMMA WriteLeaves ==
    ASSUME NEW f, NEW ofs, NEW g, NEW at, NEW size, NEW structure,
           Writable(f, ofs, g, at, size, structure)
    PROVE  /\ LeftOf(f, ofs, Write(g, at, size, structure))
           /\ Same(g, Write(g, at, size, structure), at)
           /\ at + size <= Write(g, at, size, structure).size
           /\ at \in DOMAIN Write(g, at, size, structure).at
           /\ Write(g, at, size, structure).at[at] = structure
<1>. DEFINE h == Write(g, at, size, structure)
<1>. USE DEF Writable
<1>1. /\ FileOK(h) /\ h.size >= at + size /\ h.size >= g.size /\ Same(g, h, at)
      /\ at \in DOMAIN h.at /\ h.at[at] = structure
      /\ \A o \in DOMAIN h.at : o = at \/ (o \in DOMAIN g.at /\ h.at[o] = g.at[o])
  BY WriteIs DEF LeftOf
<1>. HIDE DEF h
<1>2. PartsOnly(h)
  BY <1>1 DEF LeftOf, PartsOnly
<1>3. Same(f, h, ofs)
  BY <1>1, SameTrans DEF LeftOf
<1>4. ofs <= h.size /\ at + size <= h.size
  BY <1>1 DEF FileOK
<1>. QED
  BY <1>1, <1>2, <1>3, <1>4 DEF LeftOf, h

(* The pieces of an entry and what has become of them. *)
Pieces(f, ofs, hs, comp, fs, lh, pl, body, end, header, payload, file) ==
    /\ FileOK(f) /\ PartsOnly(f) /\ ofs \in Nat /\ ofs <= f.size
    /\ hs \in Nat /\ hs > 0 /\ comp \in Nat /\ fs \in Nat /\ body = ofs + hs /\ end = body + comp
    /\ lh.kind = "local" /\ pl.kind = "payload"
    /\ header = Write(f, ofs, hs, lh)
    /\ comp = 0 => payload = header
    /\ comp # 0 => payload = Write(header, body, comp, pl)
    /\ file = WithFooter(payload, end, fs)

LEMMA EntryWritten ==
    ASSUME NEW f, NEW ofs, NEW hs, NEW comp, NEW fs, NEW lh, NEW pl, NEW body, NEW end,
           NEW header, NEW payload, NEW file,
           Pieces(f, ofs, hs, comp, fs, lh, pl, body, end, header, payload, file)
    PROVE  /\ LeftOf(f, ofs, header) /\ LeftOf(f, ofs, payload) /\ LeftOf(f, ofs, file)
           /\ end + fs <= file.size
           /\ ofs \in DOMAIN file.at /\ file.at[ofs] = lh
           /\ comp # 0 => body \in DOMAIN file.at /\ file.at[body] = pl
<1>. USE DEF Pieces
<1>0. body \in Nat /\ end \in Nat /\ ofs < body /\ body <= end
  OBVIOUS
<1>1. LeftOf(f, ofs, f)
  BY SameRefl DEF LeftOf
<1>2. LeftOf(f, ofs, header) /\ body <= header.size /\ ofs \in DOMAIN header.at /\ header.at[ofs] = lh
  <2>1. lh.kind \in ENTRY_PARTS
    BY DEF ENTRY_PARTS
  <2>2. ofs <= ofs
    OBVIOUS
  <2>3. /\ LeftOf(f, ofs, header) /\ ofs + hs <= header.size
        /\ ofs \in DOMAIN header.at /\ header.at[ofs] = lh
    <3>1. /\ FileOK(header) /\ header.size >= ofs + hs /\ Same(f, header, ofs)
          /\ ofs \in DOMAIN header.at /\ header.at[ofs] = lh
          /\ \A o \in DOMAIN header.at : o = ofs \/ (o \in DOMAIN f.at /\ header.at[o] = f.at[o])
      BY WriteIs
    <3>2. PartsOnly(header)
      BY <2>1, <3>1 DEF PartsOnly
    <3>3. ofs + hs <= header.size /\ ofs <= header.size
      BY <3>1 DEF FileOK
    <3>. QED
      BY <3>1, <3>2, <3>3 DEF LeftOf
  <2>. QED
    BY <1>0, <2>3
<1>3. /\ LeftOf(f, ofs, payload) /\ end <= payload.size
      /\ Same(header, payload, body)
      /\ comp # 0 => body \in DOMAIN payload.at /\ payload.at[body] = pl
  <2>1. CASE comp = 0
    BY <1>0, <1>2, <2>1, SameRefl
  <2>2. CASE comp # 0
    <3>1. payload = Write(header, body, comp, pl) /\ comp \in Nat /\ ofs \in Nat /\ body \in Nat
      BY <1>0, <2>2
    <3>2. pl.kind \in ENTRY_PARTS /\ ofs <= body
      BY <1>0 DEF ENTRY_PARTS
    <3>3. /\ LeftOf(f, ofs, Write(header, body, comp, pl))
          /\ Same(header, Write(header, body, comp, pl), body)
          /\ body + comp <= Write(header, body, comp, pl).size
          /\ body \in DOMAIN Write(header, body, comp, pl).at
          /\ Write(header, body, comp, pl).at[body] = pl
      <4>1. Writable(f, ofs, header, body, comp, pl)
        BY <1>2, <3>1, <3>2 DEF Writable
      <4>. QED
        BY <4>1, WriteLeaves
    <3>4. end = body + comp
      OBVIOUS
    <3>. QED
      BY <3>1, <3>3, <3>4
  <2>. QED
    BY <2>1, <2>2
<1>4. LeftOf(f, ofs, file) /\ end + fs <= file.size /\ Same(payload, file, end)
  <2>1. CASE fs = 0
    BY <1>0, <1>3, <2>1, SameRefl DEF WithFooter
  <2>2. CASE fs # 0
    <3>. DEFINE footer == [kind |-> "footer", size |-> fs]
    <3>1. footer.kind \in ENTRY_PARTS
      BY DEF ENTRY_PARTS
    <3>2. file = Write(payload, end, fs, footer)
      BY <2>2 DEF WithFooter
    <3>. HIDE DEF footer
    <3>. QED
      <4>1. /\ LeftOf(f, ofs, Write(payload, end, fs, footer))
            /\ Same(payload, Write(payload, end, fs, footer), end)
            /\ end + fs <= Write(payload, end, fs, footer).size
        <5>1. ofs <= end
          BY <1>0
        <5>2. ofs \in Nat /\ end \in Nat /\ fs \in Nat
          BY <1>0
        <5>. QED
          <6>1. Writable(f, ofs, payload, end, fs, footer)
            BY <1>3, <3>1, <5>1, <5>2 DEF Writable
          <6>. QED
            BY <6>1, WriteLeaves
      <4>. QED
        BY <3>2, <4>1
  <2>. QED
    BY <2>1, <2>2
<1>5. ofs \in DOMAIN file.at /\ file.at[ofs] = lh
  BY <1>0, <1>2, <1>3, <1>4 DEF Same
<1>6. comp # 0 => body \in DOMAIN file.at /\ file.at[body] = pl
  BY <1>0, <1>3, <1>4 DEF Same
<1>. QED
  BY <1>0, <1>2, <1>3, <1>4, <1>5, <1>6

(* A call that fails keeps the writer, and what it wrote is past its offset.*)
LEMMA Retained ==
    ASSUME NEW w, WriterOK(w), NEW file, LeftOf(w.file, w.ofs, file), NEW zip64 \in BOOLEAN,
           NEW w2, w2 = [file |-> file, ofs |-> w.ofs, dir |-> w.dir, dirsize |-> w.dirsize,
                         zip64 |-> zip64, mode |-> w.mode]
    PROVE  WriterOK(w2) /\ Grows(w, w2) /\ Len(w2.dir) = Len(w.dir)
<1>1. /\ w2.file = file /\ w2.ofs = w.ofs /\ w2.dir = w.dir /\ w2.dirsize = w.dirsize
      /\ w2.mode = w.mode /\ Shape(w2)
  BY DEF Shape
<1>2. w2.zip64 \in BOOLEAN
  OBVIOUS
<1>3. WriterOK(w2)
  BY <1>1, <1>2 DEF WriterOK, LeftOf
<1>4. Grows(w, w2)
  BY <1>1 DEF Grows, LeftOf, WriterOK
<1>. QED
  BY <1>1, <1>3, <1>4

LEMMA CentralSizeIs ==
    ASSUME NEW rec \in Record
    PROVE  CentralSize(rec) \in Nat /\ CentralSize(rec) >= CENTRAL_HEADER
<1>1. rec.name \in Seq(Char) /\ rec.extra \in Seq(Nat)
  BY DEF Record
<1>2. Len(rec.name) \in Nat /\ Len(rec.extra) \in Nat
  BY <1>1, LenNat, Zenon
<1>3. ExtraSize(rec.extra) \in Nat
  BY <1>2 DEF ExtraSize
<1>. QED
  BY <1>2, <1>3 DEF CentralSize, CENTRAL_HEADER

LEMMA RecGrows ==
    ASSUME NEW rec \in Record, NEW m \in Nat, NEW n \in Nat, m <= n, RecOK(rec, m)
    PROVE  RecOK(rec, n)
<1>1. rec.ofs \in Nat /\ rec.comp \in Nat
  BY LayoutAssumption DEF Record
<1>. QED
  BY <1>1 DEF RecOK, LOCAL_HEADER

LEMMA AppendIs ==
    ASSUME NEW S, NEW s \in Seq(S), NEW e \in S
    PROVE  /\ Append(s, e) \in Seq(S) /\ Len(Append(s, e)) = Len(s) + 1
           /\ DOMAIN Append(s, e) = 1 .. Len(s) + 1 /\ DOMAIN s = 1 .. Len(s) /\ Len(s) \in Nat
           /\ Append(s, e)[Len(s) + 1] = e
           /\ \A k \in 1 .. Len(s) : Append(s, e)[k] = s[k]
OBVIOUS

(* A call that succeeds has one record more, for what it wrote. *)
Follows(w, file, zip64, ofs, rec, w2) ==
    /\ WriterOK(w) /\ LeftOf(w.file, w.ofs, file) /\ zip64 \in BOOLEAN
    /\ ofs \in Nat /\ w.ofs <= ofs /\ ofs <= file.size /\ rec \in Record /\ RecOK(rec, ofs)
    /\ w2 = [file |-> file, ofs |-> ofs, dir |-> Append(w.dir, rec),
             dirsize |-> w.dirsize + CentralSize(rec), zip64 |-> zip64, mode |-> w.mode]

LEMMA Extended ==
    ASSUME NEW w, NEW file, NEW zip64, NEW ofs, NEW rec, NEW w2, Follows(w, file, zip64, ofs, rec, w2)
    PROVE  /\ WriterOK(w2) /\ Grows(w, w2)
           /\ Len(w2.dir) = Len(w.dir) + 1 /\ Len(w2.dir) \in DOMAIN w2.dir
           /\ w2.dir[Len(w2.dir)] = rec
<1>. USE DEF Follows
<1>1. /\ w2.file = file /\ w2.ofs = ofs /\ w2.dir = Append(w.dir, rec)
      /\ w2.dirsize = w.dirsize + CentralSize(rec) /\ w2.mode = w.mode /\ Shape(w2)
  BY DEF Shape
<1>2. w2.zip64 \in BOOLEAN
  OBVIOUS
<1>3. w.dir \in Seq(Record) /\ w.dirsize \in Nat /\ w.ofs \in Nat /\ Shape(w) /\ w.mode = "writing"
  BY DEF WriterOK
<1>4. /\ w2.dir \in Seq(Record) /\ Len(w2.dir) = Len(w.dir) + 1 /\ Len(w.dir) \in Nat
      /\ DOMAIN w2.dir = 1 .. Len(w.dir) + 1 /\ DOMAIN w.dir = 1 .. Len(w.dir)
      /\ w2.dir[Len(w.dir) + 1] = rec /\ \A k \in 1 .. Len(w.dir) : w2.dir[k] = w.dir[k]
  BY <1>1, <1>3, AppendIs
<1>5. CentralSize(rec) \in Nat /\ CentralSize(rec) >= 46
  BY CentralSizeIs DEF CENTRAL_HEADER
<1>6. w.dirsize >= 46 * Len(w.dir)
  BY DEF WriterOK, CENTRAL_HEADER
<1>7. w2.dirsize \in Nat /\ w2.dirsize >= 46 * Len(w2.dir)
  <2>. DEFINE n == Len(w.dir)
              c == CentralSize(rec)
              d == w.dirsize
  <2>1. n \in Nat /\ c \in Nat /\ d \in Nat /\ c >= 46 /\ d >= 46 * n
    BY <1>3, <1>4, <1>5, <1>6
  <2>2. w2.dirsize = d + c /\ Len(w2.dir) = n + 1
    BY <1>1, <1>4
  <2>. HIDE DEF n, c, d
  <2>. QED
    BY <2>1, <2>2
<1>8. \A k \in DOMAIN w2.dir : RecOK(w2.dir[k], ofs)
  <2>. SUFFICES ASSUME NEW k \in DOMAIN w2.dir
                PROVE  RecOK(w2.dir[k], ofs)
    OBVIOUS
  <2>1. CASE k = Len(w.dir) + 1
    BY <1>4, <2>1
  <2>2. CASE k \in 1 .. Len(w.dir)
    <3>1. w2.dir[k] = w.dir[k] /\ w.dir[k] \in Record /\ RecOK(w.dir[k], w.ofs)
      BY <1>3, <1>4, <2>2 DEF WriterOK
    <3>. QED
      BY <1>3, <3>1, RecGrows
  <2>. QED
    BY <1>4, <2>1, <2>2
<1>9. WriterOK(w2)
  BY <1>1, <1>2, <1>3, <1>4, <1>7, <1>8 DEF WriterOK, LeftOf, CENTRAL_HEADER
<1>10. Grows(w, w2)
  BY <1>1, <1>4 DEF Grows, LeftOf
<1>. QED
  BY <1>4, <1>9, <1>10

LEMMA FailsIs ==
    ASSUME NEW v, NEW r, r \in Fails(v)
    PROVE  r.w = v /\ ~r.ok
<1>1. r = [ok |-> FALSE, w |-> v]
  BY DEF Fails
<1>2. r.w = v
  BY <1>1
<1>3. r.ok = FALSE
  BY <1>1
<1>. QED
  BY <1>2, <1>3

LEMMA DoneIs ==
    ASSUME NEW v, NEW r, r \in Done(v)
    PROVE  r.w = v /\ r.ok
<1>1. r = [ok |-> TRUE, w |-> v]
  BY DEF Done
<1>2. r.w = v
  BY <1>1
<1>3. r.ok = TRUE
  BY <1>1
<1>. QED
  BY <1>2, <1>3

METHODS == {"store", "deflate", "zstd"}

LEMMA BytesIs ==
    ASSUME NEW data \in Content, NEW asked \in METHODS
    PROVE  /\ MethodFor(data, asked) \in METHODS /\ Length[data] \in Nat
           /\ Bytes(data, MethodFor(data, asked)) \in Nat
           /\ Bytes(data, MethodFor(data, asked)) = 0 <=>
                MethodFor(data, asked) = "store" /\ Length[data] = 0
           /\ MethodFor(data, asked) = "store" =>
                Bytes(data, MethodFor(data, asked)) = Length[data]
           /\ Length[data] = 0 <=> data = "nothing"
           /\ Length[data] = 0 => Bytes(data, MethodFor(data, asked)) <= Max32
<1>. DEFINE method == MethodFor(data, asked)
            len == Length[data]
<1>1. method \in METHODS
  BY DEF MethodFor, METHODS
<1>2. len \in Nat /\ (len = 0 <=> data = "nothing")
  BY LayoutAssumption
<1>3. len = 0 => method # "deflate"
  BY <1>2 DEF MethodFor
<1>4. Max32 \in Nat /\ Packed["nothing"]["zstd"] <= Max32
  BY LayoutAssumption
<1>5. method \in {"deflate", "zstd"} => Packed[data][method] \in Nat \ {0}
  BY LayoutAssumption
<1>. HIDE DEF method, len
<1>6. Bytes(data, method) = IF method = "store" THEN len ELSE Packed[data][method]
  BY DEF Bytes, len
<1>7. CASE method = "store"
  <2>1. Bytes(data, method) = len
    BY <1>6, <1>7
  <2>2. len = 0 => Bytes(data, method) <= Max32
    BY <1>4, <2>1
  <2>. QED
    BY <1>1, <1>2, <1>7, <2>1, <2>2 DEF method, len
<1>8. CASE method \in {"deflate", "zstd"}
  <2>1. Bytes(data, method) = Packed[data][method] /\ method # "store"
    BY <1>6, <1>8
  <2>2. Bytes(data, method) \in Nat /\ Bytes(data, method) # 0
    BY <1>5, <1>8, <2>1
  <2>3. len = 0 => Bytes(data, method) <= Max32
    <3>. SUFFICES ASSUME len = 0 PROVE Bytes(data, method) <= Max32
      OBVIOUS
    <3>1. method = "zstd" /\ data = "nothing"
      BY <1>2, <1>3, <1>8
    <3>. QED
      BY <1>4, <2>1, <3>1
  <2>. QED
    BY <1>1, <1>2, <2>1, <2>2, <2>3 DEF method, len
<1>. QED
  BY <1>1, <1>7, <1>8 DEF METHODS

LEMMA WithRecordIs ==
    ASSUME NEW w, Shape(w), NEW file, NEW ofs, NEW rec
    PROVE  WithRecord(w, file, ofs, rec) =
             [file |-> file, ofs |-> ofs, dir |-> Append(w.dir, rec),
              dirsize |-> w.dirsize + CentralSize(rec), zip64 |-> w.zip64, mode |-> w.mode]
<1>. DEFINE d == Append(w.dir, rec)
            n == w.dirsize + CentralSize(rec)
            v1 == [w EXCEPT !.file = file]
            v2 == [v1 EXCEPT !.ofs = ofs]
            v3 == [v2 EXCEPT !.dir = d]
            v4 == [v3 EXCEPT !.dirsize = n]
<1>1. WithRecord(w, file, ofs, rec) = v4
  BY DEF WithRecord
<1>. HIDE DEF d, n
<1>2. v1 = [file |-> file, ofs |-> w.ofs, dir |-> w.dir, dirsize |-> w.dirsize,
            zip64 |-> w.zip64, mode |-> w.mode]
  BY DEF Shape
<1>. HIDE DEF v1
<1>3. v2 = [file |-> file, ofs |-> ofs, dir |-> w.dir, dirsize |-> w.dirsize,
            zip64 |-> w.zip64, mode |-> w.mode]
  BY <1>2
<1>. HIDE DEF v2
<1>4. v3 = [file |-> file, ofs |-> ofs, dir |-> d, dirsize |-> w.dirsize,
            zip64 |-> w.zip64, mode |-> w.mode]
  BY <1>3
<1>. HIDE DEF v3
<1>5. v4 = [file |-> file, ofs |-> ofs, dir |-> d, dirsize |-> n,
            zip64 |-> w.zip64, mode |-> w.mode]
  BY <1>4
<1>. QED
  BY <1>1, <1>5 DEF d, n

(* ---- Adding an entry. ---- *)
LEMMA ExtraNat ==
    ASSUME NEW x \in Seq(Nat)
    PROVE  ExtraSize(x) \in Nat
<1>1. Len(x) \in Nat
  OBVIOUS
<1>. QED
  BY <1>1 DEF ExtraSize

LEMMA Extra64 ==
    ASSUME NEW u \in Nat, NEW c \in Nat, NEW o \in Nat
    PROVE  /\ zip64_extra(u, c, o) \in Seq(Nat)
           /\ zip64_extra(u, c, o) = << >> <=> u < Max32 /\ o < Max32
<1>1. Max32 \in Nat
  BY LayoutAssumption
<1>. DEFINE a == IF u >= Max32 THEN <<u, c>> ELSE << >>
            b == IF o >= Max32 THEN <<o>> ELSE << >>
<1>2. a \in Seq(Nat) /\ b \in Seq(Nat)
  OBVIOUS
<1>3. Len(a) = IF u >= Max32 THEN 2 ELSE 0
  OBVIOUS
<1>4. Len(b) = IF o >= Max32 THEN 1 ELSE 0
  OBVIOUS
<1>5. zip64_extra(u, c, o) = a \o b
  BY DEF zip64_extra
<1>. HIDE DEF a, b
<1>6. a \o b \in Seq(Nat) /\ Len(a \o b) = Len(a) + Len(b)
  BY <1>2
<1>7. a \o b = << >> <=> Len(a \o b) = 0
  BY <1>6
<1>. QED
  BY <1>1, <1>3, <1>4, <1>5, <1>6, <1>7

(* What add_mem finds when it comes to write: without zip64 every number    *)
(* fits, with it the extended field is there for those that do not.         *)
LEMMA AddedReads ==
    ASSUME NEW w, w.zip64 \in BOOLEAN, w.ofs \in Nat, NEW name, NEW method,
           NEW uncomp \in Nat, NEW comp \in Nat, uncomp = 0 => comp <= Max32,
           ~w.zip64 => uncomp <= Max32 /\ w.ofs <= Max32,
           FooterFits(uncomp, comp, LocalExtra(w, uncomp)),
           NEW rec, rec = RecordOf(w, name, method, uncomp, comp, LocalExtra(w, uncomp)),
           ~Crossed(rec)
    PROVE  StatIs(rec, uncomp, comp, w.ofs)
<1>. DEFINE local == LocalExtra(w, uncomp)
            extra == IF local = << >> THEN << >> ELSE zip64_extra(uncomp, comp, w.ofs)
<1>1. rec = create_central_header(name, method, uncomp, comp, w.ofs, extra)
  BY DEF RecordOf
<1>2. Max32 \in Nat
  BY LayoutAssumption
<1>3. CASE local = << >>
  <2>1. comp <= Max32
    BY <1>3 DEF FooterFits
  <2>2. uncomp <= Max32 /\ w.ofs <= Max32
    <3>1. CASE w.zip64
      <4>1. zip64_extra(uncomp, 0, w.ofs) = << >>
        BY <1>3, <3>1 DEF LocalExtra
      <4>2. uncomp < Max32 /\ w.ofs < Max32
        <5>1. 0 \in Nat
          OBVIOUS
        <5>. QED
          BY <4>1, <5>1, Extra64, Zenon
      <4>. QED
        BY <1>2, <4>2
    <3>. QED
      BY <3>1
  <2>3. extra = << >>
    BY <1>3
  <2>. HIDE DEF extra, local
  <2>. QED
    BY <1>1, <2>1, <2>2, <2>3, StatAdded
<1>4. CASE local # << >>
  <2>1. local = zip64_extra(uncomp, 0, w.ofs)
    BY <1>4 DEF LocalExtra
  <2>2. extra = zip64_extra(uncomp, comp, w.ofs)
    BY <1>4
  <2>. HIDE DEF extra
  <2>3. extra # << >>
    BY <1>4, <2>1, <2>2, Extra64
  <2>. HIDE DEF local
  <2>. QED
    BY <1>1, <2>2, <2>3, StatAdded
<1>. QED
  BY <1>3, <1>4

LEMMA AddedRecord ==
    ASSUME NEW w, w.zip64 \in BOOLEAN, w.ofs \in Nat, NEW name \in Seq(Char), NEW method \in METHODS,
           NEW uncomp \in Nat, NEW comp \in Nat, method = "store" => comp = uncomp,
           comp = 0 <=> method = "store" /\ uncomp = 0,
           NEW end \in Nat, w.ofs + 30 + comp <= end,
           NEW local, NEW rec, rec = RecordOf(w, name, method, uncomp, comp, local)
    PROVE  rec \in Record /\ RecOK(rec, end) /\ rec.name = name /\ rec.method = method
<1>. DEFINE extra == IF local = << >> THEN << >> ELSE zip64_extra(uncomp, comp, w.ofs)
            u == AtMost(Max32, uncomp)
            c == AtMost(Max32, comp)
            o == AtMost(Max32, w.ofs)
<1>1. Max32 \in Nat \ {0}
  BY LayoutAssumption
<1>2. u \in 0 .. Max32 /\ c \in 0 .. Max32 /\ o \in 0 .. Max32
  BY <1>1 DEF AtMost
<1>3. u <= uncomp /\ c <= comp /\ o <= w.ofs /\ (u = 0 <=> uncomp = 0) /\ (c = 0 <=> comp = 0)
      /\ (uncomp = comp => u = c)
  BY <1>1 DEF AtMost
<1>4. extra \in Seq(Nat)
  <2>1. << >> \in Seq(Nat)
    OBVIOUS
  <2>2. zip64_extra(uncomp, comp, w.ofs) \in Seq(Nat)
    BY Extra64
  <2>. QED
    BY <2>1, <2>2
<1>5. rec = [name |-> name, method |-> method, uncomp |-> u, comp |-> c, ofs |-> o, extra |-> extra]
  BY DEF RecordOf, create_central_header
<1>. HIDE DEF u, c, o, extra
<1>6. rec.name = name /\ rec.method = method /\ rec.uncomp = u /\ rec.comp = c /\ rec.ofs = o
  BY <1>5
<1>7. rec \in Record
  BY <1>2, <1>4, <1>5 DEF Record, METHODS
<1>8. RecOK(rec, end)
  <2>1. rec.ofs + 30 + rec.comp <= end /\ rec.ofs + 30 <= end
    BY <1>1, <1>2, <1>3, <1>6
  <2>2. rec.method = "store" => rec.uncomp = rec.comp
    BY <1>3, <1>6
  <2>3. ~(rec.uncomp # 0 /\ rec.comp = 0)
    BY <1>3, <1>6
  <2>. QED
    BY <2>1, <2>2, <2>3 DEF RecOK, LOCAL_HEADER
<1>. QED
  BY <1>6, <1>7, <1>8

(* Where an entry, its payload and its footer end. *)
EntryEnds(o, hs, comp, footer, body, end, ofs2) ==
    /\ o \in Nat /\ hs \in Nat /\ hs >= 30 /\ comp \in Nat /\ footer \in Nat
    /\ body = o + hs /\ end = body + comp /\ ofs2 = body + comp + footer

LEMMA EntrySums ==
    ASSUME NEW o, NEW hs, NEW comp, NEW footer, NEW body, NEW end, NEW ofs2,
           EntryEnds(o, hs, comp, footer, body, end, ofs2)
    PROVE  /\ body = o + hs /\ body \in Nat /\ ofs2 \in Nat /\ o <= ofs2
           /\ o + 30 + comp <= ofs2 /\ ofs2 = end + footer /\ body + comp <= ofs2
BY DEF EntryEnds

(* An entry is added: the writer stays sound, keeps what it had and, when   *)
(* it says so, holds the new one by its last record.                        *)
LEMMA AddMem ==
    ASSUME NEW w0, WriterOK(w0), NEW name \in Seq(Char), NEW data \in Content,
           NEW asked \in METHODS, NEW dict, IsDirName(name) => data = "nothing",
           NEW r, r \in add_mem(w0, name, data, asked, dict)
    PROVE  /\ WriterOK(r.w) /\ Grows(w0, r.w)
           /\ r.ok => HeldAt(r.w, Len(r.w.dir), name, data, dict)
<1>. DEFINE method == MethodFor(data, asked)
            uncomp == Length[data]
            comp == Bytes(data, method)
            w1 == [w0 EXCEPT !.zip64 = NeedsZip64(w0, IF method = "zstd" THEN comp ELSE uncomp, uncomp)]
            w == [w1 EXCEPT !.zip64 = @ \/ OutgrowsZip32(w1, name)]
            local == LocalExtra(w, uncomp)
            hs == HeaderSize(name, local)
            header == WithHeader(w, name, method, local, uncomp)
            body == w.ofs + HeaderSize(name, local)
            payload == IF comp = 0 THEN header
                       ELSE Write(header, body, comp, Payload(data, method, dict, comp))
            footer == FooterSize(uncomp, local)
            file == WithFooter(payload, body + comp, footer)
            rec == RecordOf(w, name, method, uncomp, comp, local)
            ofs2 == body + comp + footer
<1>1. /\ Shape(w0) /\ w0.mode = "writing" /\ w0.ofs \in Nat /\ w0.dirsize \in Nat /\ FileOK(w0.file)
      /\ PartsOnly(w0.file) /\ w0.ofs <= w0.file.size /\ w0.zip64 \in BOOLEAN
  BY DEF WriterOK
<1>2. \/ r \in Fails(w1)
      \/ r \in Fails(w)
      \/ r \in Fails([w EXCEPT !.file = header])
      \/ r \in Fails([w EXCEPT !.file = payload])
      \/ r \in Fails([w EXCEPT !.file = file])
      \/ /\ FooterFits(uncomp, comp, local)
         /\ r \in Done(WithRecord(w, file, ofs2, rec))
  <2>. DEFINE all ==
         Fails(w) \cup Fails([w EXCEPT !.file = header]) \cup Fails([w EXCEPT !.file = payload])
            \cup Fails([w EXCEPT !.file = file])
            \cup (IF ~FooterFits(uncomp, comp, local) THEN {} ELSE Done(WithRecord(w, file, ofs2, rec)))
         tooLong == \/ Len(name) > Max16
                    \/ w.dirsize + CENTRAL_HEADER + Len(name) + 28 >= Max32
  <2>1. add_mem(w0, name, data, asked, dict) =
          IF w0.mode # "writing" THEN Fails(w0) ELSE IF tooLong THEN Fails(w1) ELSE all
    <3>1. w.mode = w0.mode
      OBVIOUS
    <3>. QED
      BY <3>1 DEF add_mem
  <2>2. r \in Fails(w1) \/ r \in all
    <3>. HIDE DEF w1, tooLong, all
    <3>. QED
      BY <1>1, <2>1
  <2>3. r \in all => \/ r \in Fails(w) \/ r \in Fails([w EXCEPT !.file = header])
                     \/ r \in Fails([w EXCEPT !.file = payload])
                     \/ r \in Fails([w EXCEPT !.file = file])
                     \/ ~FooterFits(uncomp, comp, local) /\ r \in {}
                     \/ FooterFits(uncomp, comp, local) /\ r \in Done(WithRecord(w, file, ofs2, rec))
    <3>. HIDE DEF w, header, payload, file, ofs2, rec, local, uncomp, comp
    <3>. QED
      BY Zenon
  <2>. HIDE DEF w, w1, header, payload, file, ofs2, rec, local, uncomp, comp, all
  <2>. QED
    BY <2>2, <2>3
<1>3. /\ method \in METHODS /\ uncomp \in Nat /\ comp \in Nat
      /\ comp = 0 <=> method = "store" /\ uncomp = 0
      /\ method = "store" => comp = uncomp
      /\ uncomp = 0 <=> data = "nothing"
      /\ uncomp = 0 => comp <= Max32
  BY BytesIs
<1>. DEFINE z1 == NeedsZip64(w0, IF method = "zstd" THEN comp ELSE uncomp, uncomp)
            z == z1 \/ OutgrowsZip32(w1, name)
<1>4. /\ w1 = [file |-> w0.file, ofs |-> w0.ofs, dir |-> w0.dir, dirsize |-> w0.dirsize,
               zip64 |-> z1, mode |-> w0.mode]
      /\ z1 \in BOOLEAN
  <2>1. z1 \in BOOLEAN
    BY DEF NeedsZip64
  <2>. HIDE DEF z1
  <2>2. w1 = [w0 EXCEPT !.zip64 = z1]
    BY DEF z1
  <2>. HIDE DEF w1
  <2>. QED
    BY <1>1, <2>1, <2>2 DEF Shape
<1>5. /\ w = [file |-> w0.file, ofs |-> w0.ofs, dir |-> w0.dir, dirsize |-> w0.dirsize,
              zip64 |-> z, mode |-> w0.mode]
      /\ z \in BOOLEAN
  <2>1. z \in BOOLEAN
    OBVIOUS
  <2>. HIDE DEF z1
  <2>2. w = [w1 EXCEPT !.zip64 = z]
    <3>1. w1.zip64 = z1
      BY <1>4
    <3>. HIDE DEF w1
    <3>. QED
      BY <3>1
  <2>. HIDE DEF z, w, w1
  <2>. QED
    BY <1>4, <2>1, <2>2
<1>6. ~z => uncomp <= Max32 /\ w0.ofs <= Max32
  <2>. SUFFICES ASSUME ~z
                PROVE  uncomp <= Max32 /\ w0.ofs <= Max32
    OBVIOUS
  <2>. HIDE DEF uncomp
  <2>1. ~z1 /\ ~OutgrowsZip32(w1, name)
    OBVIOUS
  <2>2. uncomp <= Max32
    BY <1>3, <2>1, LayoutAssumption DEF NeedsZip64
  <2>3. w1.ofs = w0.ofs /\ w1.dirsize = w0.dirsize
    BY <1>4
  <2>4. Len(name) \in Nat
    BY LenNat
  <2>. HIDE DEF w1, z1, z
  <2>5. w0.ofs <= Max32
    <3>. DEFINE o == w0.ofs
                d == w0.dirsize
                n == Len(name)
    <3>1. ~(o + 30 + n + 46 + n + d + 22 + 16 > Max32)
      BY <2>1, <2>3 DEF OutgrowsZip32, LOCAL_HEADER, CENTRAL_HEADER, END_HEADER
    <3>2. o \in Nat /\ d \in Nat /\ n \in Nat /\ Max32 \in Nat
      BY <1>1, <2>4, LayoutAssumption
    <3>. HIDE DEF o, d, n
    <3>3. o <= Max32
      BY <3>1, <3>2
    <3>. QED
      BY <3>3 DEF o
  <2>. QED
    BY <2>2, <2>5
<1>7. /\ w.file = w0.file /\ w.ofs = w0.ofs /\ w.dir = w0.dir /\ w.dirsize = w0.dirsize
      /\ w.mode = w0.mode /\ w.zip64 \in BOOLEAN /\ (w.zip64 <=> z)
  <2>. HIDE DEF w, z
  <2>1. w.zip64 = z
    BY <1>5
  <2>2. /\ w.file = w0.file /\ w.ofs = w0.ofs /\ w.dir = w0.dir /\ w.dirsize = w0.dirsize
        /\ w.mode = w0.mode
    BY <1>5
  <2>. QED
    BY <1>5, <2>1, <2>2
<1>8. local \in Seq(Nat)
  <2>. HIDE DEF w, uncomp
  <2>1. zip64_extra(uncomp, 0, w.ofs) \in Seq(Nat)
    <3>1. 0 \in Nat /\ uncomp \in Nat /\ w.ofs \in Nat
      BY <1>1, <1>3, <1>7
    <3>. QED
      BY <3>1, Extra64, Zenon
  <2>2. << >> \in Seq(Nat)
    OBVIOUS
  <2>. QED
    BY <2>1, <2>2 DEF LocalExtra
<1>9. /\ hs \in Nat /\ hs = 30 + Len(name) + ExtraSize(local) /\ hs >= 30 /\ Len(name) \in Nat
      /\ ExtraSize(local) \in Nat
  <2>1. Len(name) \in Nat
    BY LenNat
  <2>. HIDE DEF local
  <2>2. ExtraSize(local) \in Nat
    BY <1>8, ExtraNat
  <2>. QED
    BY <2>1, <2>2 DEF HeaderSize, LOCAL_HEADER
<1>10. footer \in Nat
  BY DEF FooterSize
<1>. DEFINE lh == LocalHeader(name, method, local, uncomp > 0)
            pl == Payload(data, method, dict, comp)
            end == body + comp
<1>11. /\ LeftOf(w0.file, w0.ofs, header) /\ LeftOf(w0.file, w0.ofs, payload)
       /\ LeftOf(w0.file, w0.ofs, file)
       /\ end + footer <= file.size
       /\ w0.ofs \in DOMAIN file.at /\ file.at[w0.ofs] = lh
       /\ comp # 0 => body \in DOMAIN file.at /\ file.at[body] = pl
  <2>1. lh.kind = "local" /\ pl.kind = "payload"
    BY DEF LocalHeader, Payload
  <2>2. hs > 0
    BY <1>9
  <2>3. header = Write(w0.file, w0.ofs, hs, lh)
    BY <1>7 DEF WithHeader
  <2>4. body = w0.ofs + hs
    BY <1>7
  <2>5. /\ comp = 0 => payload = header
        /\ comp # 0 => payload = Write(header, body, comp, pl)
    OBVIOUS
  <2>6. file = WithFooter(payload, end, footer)
    OBVIOUS
  <2>9. end = body + comp
    OBVIOUS
  <2>. HIDE DEF lh, pl, header, payload, file, hs, footer, comp, body, end
  <2>7. FileOK(w0.file) /\ PartsOnly(w0.file) /\ w0.ofs \in Nat /\ w0.ofs <= w0.file.size
    BY <1>1
  <2>8. comp \in Nat /\ hs \in Nat /\ footer \in Nat
    BY <1>3, <1>9, <1>10
  <2>. QED
    <3>1. Pieces(w0.file, w0.ofs, hs, comp, footer, lh, pl, body, end, header, payload, file)
      BY <2>1, <2>2, <2>3, <2>4, <2>5, <2>6, <2>7, <2>8, <2>9 DEF Pieces
    <3>. QED
      BY <3>1, EntryWritten
<1>12. LeftOf(w0.file, w0.ofs, w0.file)
  BY <1>1, SameRefl DEF LeftOf
<1>13. ASSUME NEW g, NEW v, NEW zz \in BOOLEAN, LeftOf(w0.file, w0.ofs, g),
              v = [file |-> g, ofs |-> w0.ofs, dir |-> w0.dir, dirsize |-> w0.dirsize,
                   zip64 |-> zz, mode |-> w0.mode],
              r \in Fails(v)
       PROVE  WriterOK(r.w) /\ Grows(w0, r.w) /\ ~r.ok
  <2>1. r.w = v /\ ~r.ok
    BY <1>13, FailsIs
  <2>. QED
    BY <1>13, <2>1, Retained
<1>14. \A g : LeftOf(w0.file, w0.ofs, g) =>
         [w EXCEPT !.file = g]
            = [file |-> g, ofs |-> w0.ofs, dir |-> w0.dir, dirsize |-> w0.dirsize,
               zip64 |-> z, mode |-> w0.mode]
  <2>. HIDE DEF z, w
  <2>. QED
    BY <1>5
<1>15. CASE r \in Fails(w1)
  <2>. HIDE DEF w1, z1
  <2>. QED
    BY <1>4, <1>12, <1>13, <1>15
<1>16. CASE r \in Fails(w)
  <2>. HIDE DEF w, z
  <2>. QED
    BY <1>5, <1>12, <1>13, <1>16
<1>17. CASE \/ r \in Fails([w EXCEPT !.file = header]) \/ r \in Fails([w EXCEPT !.file = payload])
            \/ r \in Fails([w EXCEPT !.file = file])
  <2>. HIDE DEF w, z, header, payload, file
  <2>1. PICK g : LeftOf(w0.file, w0.ofs, g) /\ r \in Fails([w EXCEPT !.file = g])
    BY <1>11, <1>17
  <2>. DEFINE v == [w EXCEPT !.file = g]
  <2>2. v = [file |-> g, ofs |-> w0.ofs, dir |-> w0.dir, dirsize |-> w0.dirsize,
             zip64 |-> z, mode |-> w0.mode]
    BY <1>14, <2>1
  <2>. HIDE DEF v
  <2>3. r \in Fails(v)
    BY <2>1 DEF v
  <2>. QED
    BY <1>5, <1>13, <2>1, <2>2, <2>3
<1>18. CASE FooterFits(uncomp, comp, local) /\ r \in Done(WithRecord(w, file, ofs2, rec))
  <2>1. /\ body = w0.ofs + hs /\ body \in Nat /\ ofs2 \in Nat /\ w0.ofs <= ofs2
        /\ w0.ofs + 30 + comp <= ofs2 /\ ofs2 = end + footer /\ body + comp <= ofs2
    <3>1. body = w0.ofs + hs
      BY <1>7
    <3>2. ofs2 = body + comp + footer /\ end = body + comp
      OBVIOUS
    <3>. DEFINE at == w0.ofs
    <3>3. EntryEnds(at, hs, comp, footer, body, end, ofs2)
      <4>1. at \in Nat /\ hs \in Nat /\ hs >= 30 /\ comp \in Nat /\ footer \in Nat
        BY <1>1, <1>3, <1>9, <1>10
      <4>. HIDE DEF body, ofs2, comp, footer, hs, end, at
      <4>2. body = at + hs
        BY <3>1 DEF at
      <4>. QED
        BY <3>2, <4>1, <4>2 DEF EntryEnds
    <3>. HIDE DEF body, ofs2, comp, footer, hs, end, at
    <3>4. /\ body = at + hs /\ body \in Nat /\ ofs2 \in Nat /\ at <= ofs2
          /\ at + 30 + comp <= ofs2 /\ ofs2 = end + footer /\ body + comp <= ofs2
      BY <3>3, EntrySums
    <3>. QED
      BY <3>4 DEF at
  <2>2. rec \in Record /\ RecOK(rec, ofs2) /\ rec.name = name /\ rec.method = method
    <3>. HIDE DEF w, method, uncomp, comp, ofs2, local
    <3>1. w.zip64 \in BOOLEAN /\ w.ofs \in Nat /\ w.ofs + 30 + comp <= ofs2 /\ ofs2 \in Nat
      BY <1>1, <1>7, <2>1
    <3>. HIDE DEF rec
    <3>2. rec = RecordOf(w, name, method, uncomp, comp, local)
      BY DEF rec
    <3>. QED
      BY <1>3, <3>1, <3>2, AddedRecord
  <2>. DEFINE v == WithRecord(w, file, ofs2, rec)
  <2>3. v = [file |-> file, ofs |-> ofs2, dir |-> Append(w0.dir, rec),
             dirsize |-> w0.dirsize + CentralSize(rec), zip64 |-> z, mode |-> w0.mode]
    <3>. HIDE DEF w, z, file, ofs2, rec
    <3>1. Shape(w)
      BY <1>5 DEF Shape
    <3>2. v = [file |-> file, ofs |-> ofs2, dir |-> Append(w.dir, rec),
               dirsize |-> w.dirsize + CentralSize(rec), zip64 |-> w.zip64, mode |-> w.mode]
      BY <3>1, WithRecordIs
    <3>3. w.zip64 = z
      BY <1>5
    <3>. QED
      BY <1>7, <3>2, <3>3
  <2>4. r.w = v
    BY <1>18, DoneIs
  <2>5. /\ WriterOK(v) /\ Grows(w0, v) /\ Len(v.dir) = Len(w0.dir) + 1 /\ Len(v.dir) \in DOMAIN v.dir
        /\ v.dir[Len(v.dir)] = rec
    <3>. HIDE DEF w, z, file, ofs2, rec, v, end, footer
    <3>1. ofs2 <= file.size
      BY <1>11, <2>1
    <3>. QED
      <4>1. Follows(w0, file, z, ofs2, rec, v)
        <5>1. ofs2 \in Nat /\ w0.ofs <= ofs2
          BY <2>1
        <5>2. LeftOf(w0.file, w0.ofs, file) /\ z \in BOOLEAN
          BY <1>5, <1>11
        <5>. QED
          BY <2>2, <2>3, <3>1, <5>1, <5>2, Zenon DEF Follows
      <4>. QED
        BY <4>1, Extended
  <2>6. HeldAt(v, Len(v.dir), name, data, dict)
    <3>. DEFINE st == file_stat(rec)
    <3>1. v.file = file /\ v.ofs = ofs2
      <4>. HIDE DEF v, file, ofs2, rec, z
      <4>. QED
        BY <2>3
    <3>2. ofs2 <= file.size /\ FileOK(file) /\ file.size \in Nat
      <4>. HIDE DEF v, file, ofs2, rec, z, end, footer
      <4>. QED
        BY <1>11, <2>1 DEF LeftOf, FileOK
    <3>3. SUFFICES ASSUME ~Crossed(rec)
                   PROVE  Readable(file, rec, ofs2) /\ extract(file, rec, dict) = HasData(data)
      <4>. HIDE DEF v, file, ofs2, rec, z
      <4>. QED
        BY <2>2, <2>5, <3>1 DEF HeldAt
    <3>4. StatIs(rec, uncomp, comp, w0.ofs)
      <4>. HIDE DEF w, method, uncomp, comp, local
      <4>1. /\ w.zip64 \in BOOLEAN /\ w.ofs \in Nat /\ (~w.zip64 => uncomp <= Max32 /\ w.ofs <= Max32)
            /\ uncomp = 0 => comp <= Max32
        BY <1>1, <1>3, <1>6, <1>7
      <4>2. local = LocalExtra(w, uncomp) /\ uncomp \in Nat /\ comp \in Nat
        BY <1>3 DEF local
      <4>3. FooterFits(uncomp, comp, LocalExtra(w, uncomp))
        BY <1>18, <4>2
      <4>4. rec = RecordOf(w, name, method, uncomp, comp, LocalExtra(w, uncomp))
        BY <4>2
      <4>. HIDE DEF rec
      <4>5. StatIs(rec, uncomp, comp, w.ofs)
        BY <3>3, <4>1, <4>2, <4>3, <4>4, AddedReads
      <4>. QED
        BY <1>7, <4>5
    <3>5. /\ st.ok /\ st.uncomp = uncomp /\ st.comp = comp /\ st.ofs = w0.ofs
          /\ st.dir <=> IsDirName(name)
      <4>. HIDE DEF rec, uncomp, comp
      <4>. QED
        BY <2>2, <3>4, StatDir DEF StatIs
    <3>. HIDE DEF st, rec
    <3>6. BodyOf(file, w0.ofs) = body /\ lh.name = name /\ lh.extra = local
      <4>1. lh.name = name /\ lh.extra = local
        BY DEF LocalHeader
      <4>. HIDE DEF local, lh, hs, body, file
      <4>2. file.at[w0.ofs].name = name /\ file.at[w0.ofs].extra = local
        BY <1>11, <4>1
      <4>3. BodyOf(file, w0.ofs) = w0.ofs + (30 + Len(name) + ExtraSize(local))
        BY <1>1, <1>9, <4>2, BodyIs
      <4>. QED
        BY <1>9, <2>1, <4>1, <4>3
    <3>7. Readable(file, rec, ofs2)
      <4>1. CASE st.dir \/ st.comp = 0
        BY <3>5, <4>1 DEF Readable, st
      <4>2. CASE ~(st.dir \/ st.comp = 0)
        <5>1. lh.kind = "local" /\ pl.kind = "payload"
          BY DEF LocalHeader, Payload
        <5>. HIDE DEF lh, pl, file, body, ofs2, comp, uncomp, local
        <5>2. /\ IsAt(file, w0.ofs, "local") /\ IsAt(file, body, "payload")
              /\ Len(file.at[w0.ofs].name) \in Nat /\ ExtraSize(file.at[w0.ofs].extra) \in Nat
          BY <1>9, <1>11, <3>5, <3>6, <4>2, <5>1 DEF IsAt
        <5>. QED
          BY <1>1, <1>3, <2>1, <3>5, <3>6, <4>2, <5>2 DEF Readable, st
      <4>. QED
        BY <4>1, <4>2
    <3>8. extract(file, rec, dict) = HasData(data)
      <4>1. CASE st.dir \/ st.comp = 0
        <5>1. data = "nothing"
          BY <1>3, <3>5, <4>1
        <5>. HIDE DEF file, ofs2
        <5>. QED
          BY <2>1, <3>2, <3>7, <4>1, <5>1, ExtractIs DEF st
      <4>2. CASE ~(st.dir \/ st.comp = 0)
        <5>. HIDE DEF file, ofs2, body, comp, uncomp, local
        <5>1. extract(file, rec, dict) = Gives(file.at[body], rec, comp, uncomp, dict)
          BY <2>1, <3>2, <3>5, <3>6, <3>7, <4>2, ExtractIs DEF st
        <5>2. file.at[body] = pl
          BY <1>11, <3>5, <4>2
        <5>3. /\ pl.size = comp /\ pl.method = method /\ pl.data = data /\ pl.dict = dict
          BY DEF Payload
        <5>4. Length[pl.data] = uncomp /\ pl.dict \in {"none", dict} /\ pl.method = rec.method
          BY <2>2, <5>3 DEF uncomp
        <5>. HIDE DEF pl
        <5>. QED
          BY <5>1, <5>2, <5>3, <5>4 DEF Gives
      <4>. QED
        BY <4>1, <4>2
    <3>. QED
      BY <3>7, <3>8
  <2>. HIDE DEF v
  <2>. QED
    BY <2>4, <2>5, <2>6
<1>. HIDE DEF w, w1, header, payload, file, ofs2, rec, local, uncomp, comp
<1>. QED
  BY <1>2, <1>15, <1>16, <1>17, <1>18

(* ---- Carrying an entry over. ---- *)
(* The premises of one call, and what the caller has made sure of. *)
CarryOK(w, from, rec, src64) ==
    /\ WriterOK(w) /\ FileOK(from) /\ rec \in Record
    /\ RecordIsSane(from, rec) /\ file_stat(rec).ok /\ WellFormed(from, file_stat(rec))
    /\ ~src64 => ~UsesExtended(rec)

LEMMA MovedReads ==
    ASSUME NEW rec \in Record, ~UsesExtended(rec), NEW ofs \in Nat, ofs < Max32
    PROVE  /\ MovedRecord(rec, ofs) \in Record
           /\ StatIs(rec, rec.uncomp, rec.comp, rec.ofs)
           /\ StatIs(MovedRecord(rec, ofs), rec.uncomp, rec.comp, ofs)
           /\ MovedRecord(rec, ofs).name = rec.name /\ MovedRecord(rec, ofs).method = rec.method
           /\ MovedRecord(rec, ofs).uncomp = rec.uncomp /\ MovedRecord(rec, ofs).comp = rec.comp
           /\ MovedRecord(rec, ofs).ofs = ofs
<1>. DEFINE rec2 == MovedRecord(rec, ofs)
<1>1. Max32 \in Nat
  BY LayoutAssumption
<1>2. /\ rec2 \in Record /\ rec2.name = rec.name /\ rec2.method = rec.method
      /\ rec2.uncomp = rec.uncomp /\ rec2.comp = rec.comp /\ rec2.ofs = ofs /\ rec2.extra = rec.extra
  BY <1>1 DEF MovedRecord, Record
<1>3. rec.extra \in Seq(Nat)
  BY DEF Record
<1>. HIDE DEF rec2
<1>4. ~UsesExtended(rec2)
  BY <1>1, <1>2 DEF UsesExtended
<1>5. StatIs(rec2, rec2.uncomp, rec2.comp, rec2.ofs)
  BY <1>2, <1>3, <1>4, StatPlain
<1>6. StatIs(rec, rec.uncomp, rec.comp, rec.ofs)
  BY <1>3, StatPlain
<1>. QED
  BY <1>2, <1>5, <1>6 DEF rec2

LEMMA CarryOne ==
    ASSUME NEW w, NEW from, NEW rec, NEW src64 \in BOOLEAN, CarryOK(w, from, rec, src64),
           NEW r, r \in add_from_zip_reader(w, from, src64, rec, file_stat(rec).ofs, file_stat(rec).comp)
    PROVE  /\ WriterOK(r.w) /\ Grows(w, r.w)
           /\ ~r.ok => Len(r.w.dir) = Len(w.dir)
           /\ r.ok =>
                /\ Len(w.dir) # Max16 /\ Len(r.w.dir) = Len(w.dir) + 1
                /\ \A data, dict : extract(from, rec, dict) = HasData(data) =>
                     HeldAt(r.w, Len(r.w.dir), rec.name, data, dict)
<1>. DEFINE st == file_stat(rec)
            lh == from.at[st.ofs]
            length == CopiedSize(lh, st.comp)
            file == Copy(w.file, w.ofs, from, st.ofs, length)
            rec2 == MovedRecord(rec, w.ofs)
            v == WithRecord(w, file, w.ofs + length, rec2)
<1>1. /\ WriterOK(w) /\ FileOK(from) /\ rec \in Record /\ RecordIsSane(from, rec) /\ st.ok
      /\ WellFormed(from, st) /\ (~src64 => ~UsesExtended(rec))
  BY DEF CarryOK
<1>2. /\ Shape(w) /\ w.mode = "writing" /\ w.ofs \in Nat /\ w.dirsize \in Nat /\ FileOK(w.file)
      /\ PartsOnly(w.file) /\ w.ofs <= w.file.size /\ w.zip64 \in BOOLEAN
  BY <1>1 DEF WriterOK
<1>3. st.ofs \in Nat /\ st.comp \in Nat
  BY <1>1, StatNat
<1>4. CASE r \in Fails(w)
  <2>1. r.w = w /\ ~r.ok
    BY <1>4, FailsIs
  <2>2. LeftOf(w.file, w.ofs, w.file)
    BY <1>2, SameRefl DEF LeftOf
  <2>3. w = [file |-> w.file, ofs |-> w.ofs, dir |-> w.dir, dirsize |-> w.dirsize,
             zip64 |-> w.zip64, mode |-> w.mode]
    BY <1>2 DEF Shape
  <2>4. Grows(w, w)
    BY <1>2, <2>2 DEF Grows, LeftOf
  <2>. QED
    BY <1>1, <2>1, <2>4
<1>5. \/ r \in Fails(w)
      \/ /\ ~src64 /\ Len(w.dir) # Max16 /\ IsAt(from, st.ofs, "local")
         /\ ~TooLargeToCopy(w, rec, lh, st.comp)
         /\ r \in Fails([w EXCEPT !.file = file]) \/ r \in Done(v)
  <2>. DEFINE refused == \/ w.mode # "writing" \/ src64 \/ TotalFiles(w) = Max16
                         \/ ~IsAt(from, st.ofs, "local")
              all == IF TooLargeToCopy(w, rec, lh, st.comp) THEN Fails(w)
                     ELSE Fails(w) \cup Fails([w EXCEPT !.file = file]) \cup Done(v)
  <2>1. add_from_zip_reader(w, from, src64, rec, st.ofs, st.comp) =
          IF refused THEN Fails(w) ELSE all
    BY DEF add_from_zip_reader
  <2>2. CASE refused
    <3>. HIDE DEF refused, all
    <3>. QED
      BY <2>1, <2>2
  <2>3. CASE ~refused
    <3>1. r \in all
      <4>. HIDE DEF refused, all
      <4>. QED
        BY <2>1, <2>3
    <3>2. ~src64 /\ Len(w.dir) # Max16 /\ IsAt(from, st.ofs, "local")
      BY <2>3 DEF TotalFiles
    <3>3. r \in Fails(w) \/ (~TooLargeToCopy(w, rec, lh, st.comp)
                              /\ (r \in Fails([w EXCEPT !.file = file]) \/ r \in Done(v)))
      <4>. HIDE DEF file, v, st, lh
      <4>. QED
        BY <3>1, Zenon
    <3>. QED
      BY <3>2, <3>3
  <2>. QED
    BY <2>2, <2>3
<1>6. ASSUME ~src64, Len(w.dir) # Max16, IsAt(from, st.ofs, "local"),
             ~TooLargeToCopy(w, rec, lh, st.comp)
      PROVE  /\ LeftOf(w.file, w.ofs, file)
             /\ lh.name \in Seq(Char) /\ lh.extra \in Seq(Nat) /\ ExtraSize(lh.extra) \in Nat
             /\ Len(lh.name) \in Nat /\ length \in Nat
             /\ length >= 30 + Len(lh.name) + ExtraSize(lh.extra) + st.comp
             /\ w.ofs + length <= file.size /\ w.ofs < Max32
             /\ \A p \in DOMAIN from.at : (st.ofs <= p /\ p < st.ofs + length) =>
                    w.ofs + (p - st.ofs) \in DOMAIN file.at /\ file.at[w.ofs + (p - st.ofs)] = from.at[p]
  <2>1. /\ lh.name \in Seq(Char) /\ lh.extra \in Seq(Nat)
        /\ \A o \in DOMAIN from.at :
             st.ofs <= o /\ o < st.ofs + length => from.at[o].kind \in ENTRY_PARTS
    BY <1>1, <1>6 DEF WellFormed
  <2>2. Len(lh.name) \in Nat /\ ExtraSize(lh.extra) \in Nat /\ DescriptorSize(lh) \in Nat
    <3>1. Len(lh.name) \in Nat
      BY <2>1, LenNat, Zenon
    <3>2. ExtraSize(lh.extra) \in Nat
      BY <2>1, ExtraNat, Zenon
    <3>. QED
      BY <3>1, <3>2 DEF DescriptorSize
  <2>3. /\ length = 30 + Len(lh.name) + ExtraSize(lh.extra) + st.comp + DescriptorSize(lh)
    <3>. HIDE DEF lh
    <3>. QED
      BY DEF CopiedSize, HeaderSize, LOCAL_HEADER
  <2>4. length \in Nat /\ length >= 30 + Len(lh.name) + ExtraSize(lh.extra) + st.comp
    <3>. HIDE DEF lh, st, length
    <3>. QED
      BY <1>3, <2>2, <2>3
  <2>5. w.ofs < Max32
    <3>. DEFINE h == HeaderSize(lh.name, lh.extra)
                cs == CentralSize(rec)
    <3>1. ~(w.ofs + h + st.comp + 16 + w.dirsize + cs + 22 + 64 >= Max32)
      BY <1>6 DEF TooLargeToCopy, END_HEADER
    <3>2. cs \in Nat
      BY <1>1, CentralSizeIs
    <3>3. h \in Nat
      <4>. HIDE DEF lh
      <4>. QED
        BY <2>2 DEF HeaderSize, LOCAL_HEADER
    <3>. HIDE DEF h, cs, st
    <3>. QED
      BY <1>2, <1>3, <3>1, <3>2, <3>3, LayoutAssumption
  <2>. HIDE DEF lh, length
  <2>6. /\ FileOK(file) /\ file.size >= w.ofs + length /\ file.size >= w.file.size
        /\ Same(w.file, file, w.ofs)
        /\ \A p \in DOMAIN from.at : (st.ofs <= p /\ p < st.ofs + length) =>
             w.ofs + (p - st.ofs) \in DOMAIN file.at /\ file.at[w.ofs + (p - st.ofs)] = from.at[p]
        /\ \A o \in DOMAIN file.at :
             \/ o \in DOMAIN w.file.at /\ file.at[o] = w.file.at[o]
             \/ \E p \in DOMAIN from.at :
                 st.ofs <= p /\ p < st.ofs + length /\ file.at[o] = from.at[p]
    <3>1. Copyable(w.file, w.ofs, from, st.ofs, length)
      BY <1>1, <1>2, <1>3, <2>4 DEF Copyable
    <3>. QED
      BY <3>1, CopyIs
  <2>. HIDE DEF file, st
  <2>7. PartsOnly(file)
    BY <1>2, <2>1, <2>6 DEF PartsOnly
  <2>8. w.ofs + length <= file.size /\ w.ofs <= file.size
    BY <1>2, <2>4, <2>6 DEF FileOK
  <2>. QED
    BY <2>1, <2>2, <2>4, <2>5, <2>6, <2>7, <2>8 DEF LeftOf
<1>7. ASSUME ~src64, Len(w.dir) # Max16, IsAt(from, st.ofs, "local"),
             ~TooLargeToCopy(w, rec, lh, st.comp), r \in Fails([w EXCEPT !.file = file])
      PROVE  WriterOK(r.w) /\ Grows(w, r.w) /\ ~r.ok /\ Len(r.w.dir) = Len(w.dir)
  <2>. DEFINE u == [w EXCEPT !.file = file]
  <2>1. LeftOf(w.file, w.ofs, file)
    BY <1>6, <1>7
  <2>. HIDE DEF file
  <2>2. u = [file |-> file, ofs |-> w.ofs, dir |-> w.dir, dirsize |-> w.dirsize,
             zip64 |-> w.zip64, mode |-> w.mode]
    BY <1>2 DEF Shape
  <2>. HIDE DEF u
  <2>3. r.w = u /\ ~r.ok
    BY <1>7, FailsIs DEF u
  <2>. QED
    BY <1>1, <1>2, <2>1, <2>2, <2>3, Retained
<1>8. ASSUME ~src64, Len(w.dir) # Max16, IsAt(from, st.ofs, "local"),
             ~TooLargeToCopy(w, rec, lh, st.comp), r \in Done(v)
      PROVE  /\ r.ok /\ WriterOK(r.w) /\ Grows(w, r.w) /\ Len(r.w.dir) = Len(w.dir) + 1
             /\ \A data, dict : extract(from, rec, dict) = HasData(data) =>
                  HeldAt(r.w, Len(r.w.dir), rec.name, data, dict)
  <2>1. /\ LeftOf(w.file, w.ofs, file)
        /\ lh.name \in Seq(Char) /\ lh.extra \in Seq(Nat) /\ ExtraSize(lh.extra) \in Nat
        /\ Len(lh.name) \in Nat /\ length \in Nat
        /\ length >= 30 + Len(lh.name) + ExtraSize(lh.extra) + st.comp
        /\ w.ofs + length <= file.size /\ w.ofs < Max32
        /\ \A p \in DOMAIN from.at : (st.ofs <= p /\ p < st.ofs + length) =>
             w.ofs + (p - st.ofs) \in DOMAIN file.at /\ file.at[w.ofs + (p - st.ofs)] = from.at[p]
    BY <1>6, <1>8
  <2>. DEFINE ofs2 == w.ofs + length
  <2>2. r.w = v /\ r.ok
    BY <1>8, DoneIs
  <2>3. v = [file |-> file, ofs |-> ofs2, dir |-> Append(w.dir, rec2),
             dirsize |-> w.dirsize + CentralSize(rec2), zip64 |-> w.zip64, mode |-> w.mode]
    <3>1. v = WithRecord(w, file, ofs2, rec2)
      OBVIOUS
    <3>. HIDE DEF v, file, rec2, ofs2
    <3>. QED
      BY <1>2, <3>1, WithRecordIs
  <2>4. ~UsesExtended(rec)
    BY <1>1, <1>8
  <2>5. /\ rec2 \in Record
        /\ StatIs(rec, rec.uncomp, rec.comp, rec.ofs)
        /\ StatIs(rec2, rec.uncomp, rec.comp, w.ofs)
        /\ rec2.name = rec.name /\ rec2.method = rec.method
        /\ rec2.uncomp = rec.uncomp /\ rec2.comp = rec.comp /\ rec2.ofs = w.ofs
    BY <1>1, <1>2, <2>1, <2>4, MovedReads
  <2>6. st.uncomp = rec.uncomp /\ st.comp = rec.comp /\ st.ofs = rec.ofs
    BY <2>5 DEF StatIs
  <2>7. ofs2 \in Nat /\ w.ofs <= ofs2 /\ w.ofs + 30 + st.comp <= ofs2 /\ ofs2 <= file.size
    <3>. DEFINE nl == Len(lh.name)
                xl == ExtraSize(lh.extra)
                c == st.comp
                o == w.ofs
                sz == file.size
    <3>1. o \in Nat /\ c \in Nat /\ nl \in Nat /\ xl \in Nat /\ length \in Nat
          /\ length >= 30 + nl + xl + c /\ o + length <= sz
      BY <1>2, <1>3, <2>1
    <3>2. ofs2 = o + length
      OBVIOUS
    <3>. HIDE DEF nl, xl, c, o, sz, length, ofs2
    <3>3. ofs2 \in Nat /\ o <= ofs2 /\ o + 30 + c <= ofs2 /\ ofs2 <= sz
      BY <3>1, <3>2
    <3>. QED
      BY <3>3 DEF o, c, sz
  <2>8. RecOK(rec2, ofs2)
    <3>1. /\ (rec2.comp # Max32 /\ rec2.uncomp # Max32) =>
               /\ rec2.method = "store" => rec2.uncomp = rec2.comp
               /\ ~(rec2.uncomp # 0 /\ rec2.comp = 0)
      BY <1>1, <2>5 DEF RecordIsSane
    <3>2. rec2.ofs + 30 <= ofs2 /\ rec2.ofs + 30 + rec2.comp <= ofs2
      <4>. HIDE DEF st, rec2, ofs2
      <4>. QED
        BY <1>2, <1>3, <2>5, <2>6, <2>7
    <3>. QED
      BY <3>1, <3>2 DEF RecOK, LOCAL_HEADER
  <2>9. /\ WriterOK(v) /\ Grows(w, v) /\ Len(v.dir) = Len(w.dir) + 1 /\ Len(v.dir) \in DOMAIN v.dir
        /\ v.dir[Len(v.dir)] = rec2
    <3>. HIDE DEF file, rec2, ofs2, v
    <3>1. Follows(w, file, w.zip64, ofs2, rec2, v)
      BY <1>1, <1>2, <2>1, <2>3, <2>5, <2>7, <2>8 DEF Follows
    <3>. QED
      BY <3>1, Extended
  <2>10. v.file = file /\ v.ofs = ofs2
    <3>. HIDE DEF v, file, rec2, ofs2
    <3>. QED
      BY <2>3
  <2>11. ASSUME NEW data, NEW dict, extract(from, rec, dict) = HasData(data)
         PROVE  Readable(file, rec2, ofs2) /\ extract(file, rec2, dict) = HasData(data)
    <3>1. file.size \in Nat /\ from.size \in Nat
      <4>. HIDE DEF file
      <4>. QED
        BY <1>1, <2>1 DEF LeftOf, FileOK
    <3>2. file_stat(rec2).ok /\ (file_stat(rec2).dir <=> st.dir) /\ file_stat(rec2).comp = st.comp
          /\ file_stat(rec2).uncomp = st.uncomp /\ file_stat(rec2).ofs = w.ofs
      <4>. HIDE DEF rec2
      <4>. QED
        BY <2>5, <2>6, StatDir DEF StatIs
    <3>3. CASE st.dir \/ st.comp = 0
      <4>1. extract(from, rec, dict) = HasData("nothing")
        BY <1>1, <3>3 DEF extract
      <4>2. Readable(file, rec2, ofs2)
        BY <3>2, <3>3 DEF Readable
      <4>3. extract(file, rec2, dict) = HasData("nothing")
        <5>. HIDE DEF file, rec2, ofs2
        <5>. QED
          BY <2>7, <3>1, <3>2, <3>3, <4>2, ExtractIs
      <4>. QED
        BY <2>11, <4>1, <4>2, <4>3
    <3>4. CASE ~(st.dir \/ st.comp = 0)
      <4>. DEFINE limit == BodyOf(from, st.ofs) + st.comp
                  by == w.ofs - st.ofs
                  nl == Len(lh.name)
                  xl == ExtraSize(lh.extra)
      <4>1. extract(from, rec, dict).ok
        <5>1. HasData(data).ok
          BY DEF HasData
        <5>. QED
          BY <2>11, <5>1
      <4>2. Readable(from, rec, from.size)
        <5>. HIDE DEF lh
        <5>. QED
          BY <1>3, <2>1, <3>1, <4>1, ReadableIs DEF lh, st
      <4>3. BodyOf(from, st.ofs) = st.ofs + (30 + nl + xl) /\ BodyOf(from, st.ofs) \in Nat
        BY <1>3, <2>1, BodyIs
      <4>4. limit <= from.size
        BY <3>4, <4>2 DEF Readable
      <4>5. Readable(from, rec, limit)
        BY <3>4, <4>2, <4>3, <1>3 DEF Readable
      <4>6. limit \in Nat /\ limit + by <= ofs2 /\ by \in Int /\ st.ofs + by = w.ofs
            /\ limit <= st.ofs + length
        <5>. DEFINE o == st.ofs
                    c == st.comp
                    x == w.ofs
                    b == BodyOf(from, st.ofs)
        <5>1. /\ o \in Nat /\ c \in Nat /\ nl \in Nat /\ xl \in Nat /\ length \in Nat /\ x \in Nat
              /\ length >= 30 + nl + xl + c /\ b = o + (30 + nl + xl)
          BY <1>2, <1>3, <2>1, <4>3
        <5>2. limit = b + c /\ by = x - o /\ ofs2 = x + length
          OBVIOUS
        <5>. HIDE DEF o, c, x, b, nl, xl, length, limit, by, ofs2
        <5>3. limit \in Nat /\ limit + by <= ofs2 /\ by \in Int /\ o + by = x /\ limit <= o + length
          BY <5>1, <5>2
        <5>. QED
          BY <5>3 DEF o, x
      <4>7. \A o \in Nat : (st.ofs <= o /\ o < limit /\ o \in DOMAIN from.at) =>
              o + by \in Nat /\ o + by \in DOMAIN file.at /\ file.at[o + by] = from.at[o]
        <5>. SUFFICES ASSUME NEW o \in Nat, st.ofs <= o, o < limit, o \in DOMAIN from.at
                      PROVE  o + by \in Nat /\ o + by \in DOMAIN file.at
                             /\ file.at[o + by] = from.at[o]
          OBVIOUS
        <5>1. o < st.ofs + length
          <6>. HIDE DEF limit, length, st
          <6>. QED
            BY <1>3, <2>1, <4>6
        <5>2. o + by = w.ofs + (o - st.ofs) /\ o + by \in Nat
          <6>. HIDE DEF st
          <6>. QED
            BY <1>2, <1>3
        <5>. HIDE DEF by, file, length, limit
        <5>. QED
          BY <2>1, <5>1, <5>2
      <4>8. StatIs(rec2, st.uncomp, st.comp, st.ofs + by)
        BY <2>5, <2>6, <4>6
      <4>. HIDE DEF limit, by, file, rec2, ofs2
      <4>9. /\ Readable(file, rec2, ofs2)
            /\ \A x : extract(file, rec2, x) = extract(from, rec, x)
        BY <2>5, <2>7, <3>1, <4>4, <4>5, <4>6, <4>7, <4>8, ExtractMoved
      <4>. QED
        BY <2>11, <4>9
    <3>. QED
      BY <3>3, <3>4
  <2>12. \A data, dict : extract(from, rec, dict) = HasData(data) =>
            HeldAt(v, Len(v.dir), rec.name, data, dict)
    <3>. HIDE DEF v, file, rec2, ofs2
    <3>. QED
      BY <2>5, <2>9, <2>10, <2>11 DEF HeldAt
  <2>. HIDE DEF v
  <2>. QED
    BY <2>2, <2>9, <2>12
<1>9. CASE /\ ~src64 /\ Len(w.dir) # Max16 /\ IsAt(from, st.ofs, "local")
           /\ ~TooLargeToCopy(w, rec, lh, st.comp)
           /\ r \in Fails([w EXCEPT !.file = file]) \/ r \in Done(v)
  <2>. HIDE DEF st, lh, length, file, rec2, v
  <2>1. CASE r \in Fails([w EXCEPT !.file = file])
    BY <1>7, <1>9, <2>1
  <2>2. CASE r \in Done(v)
    BY <1>8, <1>9, <2>2
  <2>. QED
    BY <1>9, <2>1, <2>2
<1>. HIDE DEF st, lh, length, file, rec2, v
<1>. QED
  BY <1>4, <1>5, <1>9

(* ---- Closing the archive. ---- *)
DirEnd(w) == w.ofs + w.dirsize
EndOf(w) == IF w.zip64 THEN DirEnd(w) + 76 ELSE DirEnd(w)
DirOfs(w) == IF w.dir = << >> THEN 0 ELSE w.ofs

(* The archive of w closed in g, with these records in its directory and    *)
(* this offset in its end record.                                           *)
Closed(w, g, recs, eofs) ==
    /\ FileOK(g) /\ EndOf(w) + 22 <= g.size /\ Same(w.file, g, w.ofs)
    /\ \A o \in DOMAIN g.at :
        /\ g.at[o].kind = "end" => o = EndOf(w)
        /\ g.at[o].kind = "end64" => w.zip64 /\ o = DirEnd(w)
        /\ g.at[o].kind = "locator64" => w.zip64 /\ o = DirEnd(w) + 56
    /\ EndOf(w) \in DOMAIN g.at
    /\ g.at[EndOf(w)] = End(AtMost(Max16, Len(w.dir)), AtMost(Max32, w.dirsize), eofs)
    /\ w.zip64 =>
        /\ DirEnd(w) \in DOMAIN g.at /\ DirEnd(w) + 56 \in DOMAIN g.at
        /\ g.at[DirEnd(w)] = End64(Len(w.dir), w.dirsize, DirOfs(w))
        /\ g.at[DirEnd(w) + 56] = Locator64(DirEnd(w))
    /\ w.dir # << >> => w.ofs \in DOMAIN g.at /\ g.at[w.ofs] = Directory(recs)

(* What no part of an entry is. *)
LEMMA Kinds ==
    /\ \A k \in ENTRY_PARTS : k \notin {"end", "end64", "locator64"}
    /\ \A recs : Directory(recs).kind = "directory" /\ Directory(recs).recs = recs
    /\ \A t, s, o : End(t, s, o).kind = "end" /\ End(t, s, o).total = t /\ End(t, s, o).size = s
                    /\ End(t, s, o).ofs = o
    /\ \A t, s, o : End64(t, s, o).kind = "end64" /\ End64(t, s, o).total = t /\ End64(t, s, o).size = s
                    /\ End64(t, s, o).ofs = o
    /\ \A o : Locator64(o).kind = "locator64" /\ Locator64(o).ofs = o
BY DEF ENTRY_PARTS, Directory, End, End64, Locator64

LEMMA PlacesIs ==
    ASSUME NEW w, WriterOK(w)
    PROVE  /\ w.ofs \in Nat /\ w.dirsize \in Nat /\ DirEnd(w) \in Nat /\ EndOf(w) \in Nat
           /\ DirEnd(w) = w.ofs + w.dirsize /\ w.ofs <= DirEnd(w) /\ DirEnd(w) <= EndOf(w)
           /\ w.zip64 => EndOf(w) = DirEnd(w) + 76
           /\ ~w.zip64 => EndOf(w) = DirEnd(w)
           /\ Len(w.dir) \in Nat /\ w.dirsize >= 46 * Len(w.dir) /\ DOMAIN w.dir = 1 .. Len(w.dir)
           /\ w.dir # << >> => Len(w.dir) > 0 /\ w.ofs < DirEnd(w) /\ DirOfs(w) = w.ofs
           /\ w.dir = << >> => Len(w.dir) = 0 /\ DirOfs(w) = 0
           /\ DirOfs(w) \in Nat /\ DirOfs(w) <= w.ofs
<1>1. w.ofs \in Nat /\ w.dirsize \in Nat /\ w.dir \in Seq(Record) /\ w.dirsize >= 46 * Len(w.dir)
  BY DEF WriterOK, CENTRAL_HEADER
<1>2. Len(w.dir) \in Nat /\ DOMAIN w.dir = 1 .. Len(w.dir)
  BY <1>1
<1>3. w.dir = << >> <=> Len(w.dir) = 0
  BY <1>1
<1>. DEFINE n == Len(w.dir)
<1>. HIDE DEF n
<1>4. n \in Nat /\ w.dirsize >= 46 * n /\ (w.dir = << >> <=> n = 0)
  BY <1>1, <1>2, <1>3 DEF n
<1>5. DirEnd(w) = w.ofs + w.dirsize
  BY DEF DirEnd
<1>6. DirEnd(w) \in Nat /\ w.ofs <= DirEnd(w) /\ (w.dir # << >> => n > 0 /\ w.ofs < DirEnd(w))
  BY <1>1, <1>4, <1>5
<1>7. /\ EndOf(w) \in Nat /\ DirEnd(w) <= EndOf(w) /\ (w.zip64 => EndOf(w) = DirEnd(w) + 76)
      /\ ~w.zip64 => EndOf(w) = DirEnd(w)
  BY <1>6 DEF EndOf
<1>8. /\ w.dir # << >> => DirOfs(w) = w.ofs
      /\ w.dir = << >> => DirOfs(w) = 0
      /\ DirOfs(w) \in Nat /\ DirOfs(w) <= w.ofs
  BY <1>1 DEF DirOfs
<1>. QED
  BY <1>1, <1>2, <1>4, <1>5, <1>6, <1>7, <1>8 DEF n

LEMMA Finalized ==
    ASSUME NEW w, WriterOK(w), NEW r, r \in finalize_archive(w), r.ok
    PROVE  /\ Closed(w, r.w.file, w.dir, AtMost(Max32, DirOfs(w)))
           /\ r.w.dir = w.dir /\ r.w.ofs \in Nat /\ FileOK(r.w.file) /\ Grows(w, r.w)
           /\ w.zip64 => w.dirsize < Max32
           /\ ~w.zip64 => Len(w.dir) <= Max16 /\ DirEnd(w) <= Max32
<1>. DEFINE dirsize == w.dirsize
            dirofs == IF w.dir = << >> THEN 0 ELSE w.ofs
            f1 == IF w.dir = << >> THEN w.file ELSE Write(w.file, w.ofs, dirsize, Directory(w.dir))
            o1 == w.ofs + dirsize
            fa == Write(f1, o1, END64_HEADER, End64(TotalFiles(w), dirsize, dirofs))
            f2 == IF ~w.zip64 THEN f1 ELSE Write(fa, o1 + END64_HEADER, LOCATOR64, Locator64(o1))
            o2 == IF w.zip64 THEN o1 + END64_HEADER + LOCATOR64 ELSE o1
            f3 == Write(f2, o2, END_HEADER,
                        End(AtMost(Max16, TotalFiles(w)), AtMost(Max32, dirsize), AtMost(Max32, dirofs)))
            tooMuch == IF w.zip64 THEN dirsize >= Max32
                       ELSE TotalFiles(w) > Max16 \/ w.ofs + dirsize + END_HEADER > Max32
            v == [w EXCEPT !.file = f3, !.ofs = o2 + END_HEADER, !.mode = "finalized"]
<1>1. ~tooMuch /\ r \in Done(v)
  <2>. DEFINE refused == w.mode # "writing" \/ tooMuch
              all == Fails([w EXCEPT !.file = f1]) \cup Fails([w EXCEPT !.file = f2]) \cup Done(v)
  <2>1. finalize_archive(w) = IF refused THEN Fails(w) ELSE all
    BY DEF finalize_archive
  <2>2. r \in Fails(w) \/ (~refused /\ r \in all)
    <3>. HIDE DEF refused, all
    <3>. QED
      BY <2>1
  <2>3. r \in all => r \in Done(v) \/ r \in Fails([w EXCEPT !.file = f1]) \/ r \in Fails([w EXCEPT !.file = f2])
    <3>. HIDE DEF f1, f2, v
    <3>. QED
      BY Zenon
  <2>4. \A x : r \notin Fails(x)
    BY FailsIs
  <2>. HIDE DEF all, f1, f2, v, tooMuch
  <2>. QED
    BY <2>2, <2>3, <2>4
<1>2. /\ Shape(w) /\ w.zip64 \in BOOLEAN /\ FileOK(w.file) /\ PartsOnly(w.file)
  BY DEF WriterOK
<1>3. o1 = DirEnd(w) /\ o2 = EndOf(w) /\ dirofs = DirOfs(w) /\ TotalFiles(w) = Len(w.dir)
  <2>1. w.ofs \in Nat /\ w.dirsize \in Nat
    BY DEF WriterOK
  <2>2. o1 = DirEnd(w) /\ dirofs = DirOfs(w) /\ TotalFiles(w) = Len(w.dir)
    BY DEF DirEnd, DirOfs, TotalFiles
  <2>3. o1 \in Nat
    BY <2>1
  <2>. HIDE DEF o1
  <2>4. o2 = EndOf(w)
    BY <2>2, <2>3 DEF EndOf, END64_HEADER, LOCATOR64
  <2>. QED
    BY <2>2, <2>4
<1>4. r.w = v
  BY <1>1, DoneIs
<1>5. v = [file |-> f3, ofs |-> o2 + 22, dir |-> w.dir, dirsize |-> w.dirsize,
           zip64 |-> w.zip64, mode |-> "finalized"]
  <2>. HIDE DEF f3, o2
  <2>. DEFINE v1 == [w EXCEPT !.file = f3]
              v2 == [v1 EXCEPT !.ofs = o2 + 22]
              v3 == [v2 EXCEPT !.mode = "finalized"]
  <2>0. v = v3
    BY DEF END_HEADER
  <2>1. v1 = [file |-> f3, ofs |-> w.ofs, dir |-> w.dir, dirsize |-> w.dirsize,
              zip64 |-> w.zip64, mode |-> w.mode]
    BY <1>2 DEF Shape
  <2>. HIDE DEF v1
  <2>2. v2 = [file |-> f3, ofs |-> o2 + 22, dir |-> w.dir, dirsize |-> w.dirsize,
              zip64 |-> w.zip64, mode |-> w.mode]
    BY <2>1
  <2>. HIDE DEF v2, v
  <2>. QED
    BY <2>0, <2>2
<1>6. /\ w.ofs \in Nat /\ DirEnd(w) \in Nat /\ EndOf(w) \in Nat /\ dirsize \in Nat
      /\ w.ofs <= DirEnd(w) /\ DirEnd(w) <= EndOf(w)
      /\ w.zip64 => EndOf(w) = DirEnd(w) + 76
      /\ ~w.zip64 => EndOf(w) = DirEnd(w)
      /\ w.dir # << >> => w.ofs < DirEnd(w)
  BY PlacesIs
<1>7. /\ FileOK(f1) /\ Same(w.file, f1, w.ofs)
      /\ \A o \in DOMAIN f1.at : f1.at[o].kind \notin {"end", "end64", "locator64"}
      /\ w.dir # << >> => w.ofs \in DOMAIN f1.at /\ f1.at[w.ofs] = Directory(w.dir)
  <2>1. \A o \in DOMAIN w.file.at : w.file.at[o].kind \notin {"end", "end64", "locator64"}
    BY <1>2, Kinds DEF PartsOnly
  <2>2. CASE w.dir = << >>
    BY <1>2, <2>1, <2>2, SameRefl
  <2>3. CASE w.dir # << >>
    <3>. DEFINE d == Directory(w.dir)
    <3>1. f1 = Write(w.file, w.ofs, dirsize, d)
      BY <2>3
    <3>2. d.kind \notin {"end", "end64", "locator64"}
      BY DEF Directory
    <3>. HIDE DEF f1, d, dirsize
    <3>3. /\ FileOK(f1) /\ Same(w.file, f1, w.ofs) /\ w.ofs \in DOMAIN f1.at /\ f1.at[w.ofs] = d
          /\ \A o \in DOMAIN f1.at : o = w.ofs \/ (o \in DOMAIN w.file.at /\ f1.at[o] = w.file.at[o])
      BY <1>2, <1>6, <3>1, WriteIs
    <3>4. \A o \in DOMAIN f1.at : f1.at[o].kind \notin {"end", "end64", "locator64"}
      BY <2>1, <3>2, <3>3
    <3>. QED
      BY <3>3, <3>4 DEF d
  <2>. QED
    BY <2>2, <2>3
<1>. HIDE DEF f1
<1>8. /\ FileOK(f2) /\ Same(f1, f2, DirEnd(w))
      /\ \A o \in DOMAIN f2.at :
           /\ f2.at[o].kind # "end"
           /\ f2.at[o].kind = "end64" => w.zip64 /\ o = DirEnd(w)
           /\ f2.at[o].kind = "locator64" => w.zip64 /\ o = DirEnd(w) + 56
      /\ w.zip64 =>
           /\ DirEnd(w) \in DOMAIN f2.at /\ DirEnd(w) + 56 \in DOMAIN f2.at
           /\ f2.at[DirEnd(w)] = End64(Len(w.dir), w.dirsize, DirOfs(w))
           /\ f2.at[DirEnd(w) + 56] = Locator64(DirEnd(w))
  <2>1. CASE ~w.zip64
    <3>1. f2 = f1
      BY <2>1
    <3>. HIDE DEF f2
    <3>. QED
      BY <1>7, <2>1, <3>1, SameRefl
  <2>2. CASE w.zip64
    <3>. DEFINE e == End64(Len(w.dir), w.dirsize, DirOfs(w))
                l == Locator64(DirEnd(w))
                x == DirEnd(w)
                y == DirEnd(w) + 56
    <3>1. fa = Write(f1, x, 56, e) /\ f2 = Write(fa, y, 20, l)
      BY <1>3, <2>2 DEF END64_HEADER, LOCATOR64
    <3>2. e.kind = "end64" /\ l.kind = "locator64"
      BY DEF End64, Locator64
    <3>3. x \in Nat /\ y \in Nat /\ x < y
      BY <1>6
    <3>. HIDE DEF e, l, fa, f2, x, y
    <3>4. /\ FileOK(fa) /\ Same(f1, fa, x) /\ x \in DOMAIN fa.at /\ fa.at[x] = e
          /\ \A o \in DOMAIN fa.at : o = x \/ (o \in DOMAIN f1.at /\ fa.at[o] = f1.at[o])
      BY <1>7, <3>1, <3>3, WriteIs
    <3>5. /\ FileOK(f2) /\ Same(fa, f2, y) /\ y \in DOMAIN f2.at /\ f2.at[y] = l
          /\ \A o \in DOMAIN f2.at : o = y \/ (o \in DOMAIN fa.at /\ f2.at[o] = fa.at[o])
      BY <3>1, <3>3, <3>4, WriteIs
    <3>6. x \in DOMAIN f2.at /\ f2.at[x] = e /\ Same(f1, f2, x)
      BY <3>3, <3>4, <3>5 DEF Same
    <3>7. \A o \in DOMAIN f2.at :
           /\ f2.at[o].kind # "end"
           /\ f2.at[o].kind = "end64" => o = x
           /\ f2.at[o].kind = "locator64" => o = y
      BY <1>7, <3>2, <3>4, <3>5
    <3>. QED
      BY <2>2, <3>5, <3>6, <3>7 DEF x, y, e, l
  <2>. QED
    BY <2>1, <2>2
<1>. HIDE DEF f2
<1>. DEFINE end == End(AtMost(Max16, Len(w.dir)), AtMost(Max32, w.dirsize), AtMost(Max32, DirOfs(w)))
            z == EndOf(w)
<1>9. f3 = Write(f2, z, 22, end)
  <2>1. Write(f2, o2, END_HEADER,
              End(AtMost(Max16, TotalFiles(w)), AtMost(Max32, dirsize), AtMost(Max32, dirofs)))
          = Write(f2, z, 22, end)
    <3>. HIDE DEF o2, dirofs
    <3>. QED
      BY <1>3 DEF END_HEADER
  <2>. QED
    BY <2>1
<1>10. /\ FileOK(f3) /\ z + 22 <= f3.size /\ Same(f2, f3, z) /\ z \in DOMAIN f3.at /\ f3.at[z] = end
       /\ \A o \in DOMAIN f3.at : o = z \/ (o \in DOMAIN f2.at /\ f3.at[o] = f2.at[o])
  <2>. HIDE DEF f3, z, end
  <2>1. z \in Nat
    BY <1>6 DEF z
  <2>2. /\ FileOK(f3) /\ f3.size >= z + 22 /\ Same(f2, f3, z) /\ z \in DOMAIN f3.at /\ f3.at[z] = end
        /\ \A o \in DOMAIN f3.at : o = z \/ (o \in DOMAIN f2.at /\ f3.at[o] = f2.at[o])
    BY <1>8, <1>9, <2>1, WriteIs
  <2>. QED
    BY <2>1, <2>2 DEF FileOK
<1>11. end.kind = "end"
  BY DEF End
<1>. HIDE DEF f3, end
<1>12. \A o \in DOMAIN f3.at :
        /\ f3.at[o].kind = "end" => o = EndOf(w)
        /\ f3.at[o].kind = "end64" => w.zip64 /\ o = DirEnd(w)
        /\ f3.at[o].kind = "locator64" => w.zip64 /\ o = DirEnd(w) + 56
  BY <1>8, <1>10, <1>11
<1>13. w.zip64 =>
        /\ DirEnd(w) \in DOMAIN f3.at /\ DirEnd(w) + 56 \in DOMAIN f3.at
        /\ f3.at[DirEnd(w)] = End64(Len(w.dir), w.dirsize, DirOfs(w))
        /\ f3.at[DirEnd(w) + 56] = Locator64(DirEnd(w))
  <2>1. w.zip64 => DirEnd(w) < z /\ DirEnd(w) + 56 < z /\ DirEnd(w) + 56 \in Nat
    BY <1>6
  <2>. HIDE DEF z
  <2>. QED
    BY <1>6, <1>8, <1>10, <2>1 DEF Same
<1>14. w.dir # << >> => w.ofs \in DOMAIN f3.at /\ f3.at[w.ofs] = Directory(w.dir)
  <2>1. w.dir # << >> => w.ofs < DirEnd(w) /\ w.ofs < z
    BY <1>6
  <2>. HIDE DEF z
  <2>. QED
    BY <1>6, <1>7, <1>8, <1>10, <2>1 DEF Same
<1>15. Same(w.file, f3, w.ofs)
  <2>1. w.ofs <= DirEnd(w) /\ w.ofs <= z /\ z \in Nat
    BY <1>6
  <2>. HIDE DEF z
  <2>2. Same(w.file, f2, w.ofs)
    BY <1>6, <1>7, <1>8, <2>1, SameTrans
  <2>. QED
    BY <1>6, <1>10, <2>1, <2>2, SameTrans
<1>16. Closed(w, f3, w.dir, AtMost(Max32, DirOfs(w)))
  BY <1>10, <1>12, <1>13, <1>14, <1>15 DEF Closed, end
<1>17. r.w.file = f3 /\ r.w.ofs = z + 22 /\ r.w.dir = w.dir
  <2>. HIDE DEF o2, z, v
  <2>. QED
    BY <1>3, <1>4, <1>5 DEF z
<1>18. Grows(w, r.w) /\ r.w.ofs \in Nat
  BY <1>6, <1>10, <1>15, <1>17 DEF Grows
<1>19. /\ w.zip64 => w.dirsize < Max32
       /\ ~w.zip64 => Len(w.dir) <= Max16 /\ DirEnd(w) <= Max32
  <2>1. Len(w.dir) \in Nat /\ Max16 \in Nat /\ Max32 \in Nat
    BY PlacesIs, LayoutAssumption
  <2>. QED
    BY <1>1, <1>3, <1>6, <2>1 DEF END_HEADER
<1>. QED
  BY <1>10, <1>16, <1>17, <1>18, <1>19

(* ---- Moving the offsets. ---- *)
LEMMA PatchedIs ==
    ASSUME NEW f, FileOK(f), NEW ofs, ofs \in DOMAIN f.at, NEW structure
    PROVE  /\ FileOK(Patched(f, ofs, structure)) /\ Patched(f, ofs, structure).size = f.size
           /\ DOMAIN Patched(f, ofs, structure).at = DOMAIN f.at
           /\ Patched(f, ofs, structure).at[ofs] = structure
           /\ \A o \in DOMAIN f.at : o # ofs => Patched(f, ofs, structure).at[o] = f.at[o]
BY DEF Patched, FileOK

LEMMA ClosedEnd ==
    ASSUME NEW w, NEW f, NEW recs, NEW eofs, Closed(w, f, recs, eofs),
           EndAt(f) \in DOMAIN f.at, f.at[EndAt(f)].kind = "end"
    PROVE  /\ EndAt(f) = EndOf(w)
           /\ EndRec(f) = End(AtMost(Max16, Len(w.dir)), AtMost(Max32, w.dirsize), eofs)
BY DEF Closed, EndRec

LEMMA Adjusted ==
    ASSUME NEW w, WriterOK(w), NEW f, Closed(w, f, w.dir, AtMost(Max32, DirOfs(w))),
           NEW by \in Nat, ~Refuses(f, by)
    PROVE  /\ Closed(w, WithEnd(WithDirectory(f, by), by),
                     Shifted(w.dir, AtMost(Max16, Len(w.dir)), by), DirOfs(w) + by)
           /\ w.dirsize < Max32 /\ DirOfs(w) + by <= Max32 /\ DirOfs(w) < Max32
<1>. DEFINE z == EndOf(w)
            total == AtMost(Max16, Len(w.dir))
            size == AtMost(Max32, w.dirsize)
            eofs == AtMost(Max32, DirOfs(w))
            moved == Shifted(w.dir, total, by)
            g == WithDirectory(f, by)
            h == WithEnd(g, by)
            end == End(total, size, eofs)
            end2 == End(total, size, eofs + by)
            d == Directory(moved)
<1>1. FileOK(f) /\ z \in DOMAIN f.at /\ z + 22 <= f.size
  BY DEF Closed
<1>2. EndAt(f) = z /\ EndRec(f) = end
  <2>1. EndAt(f) \in DOMAIN f.at /\ f.at[EndAt(f)].kind = "end"
    BY DEF Refuses, IsAt
  <2>. QED
    BY <2>1, ClosedEnd
<1>3. end.total = total /\ end.size = size /\ end.ofs = eofs /\ end.kind = "end" /\ end2.kind = "end"
  BY DEF End
<1>4. Max16 \in Nat \ {0} /\ Max32 \in Nat
  BY LayoutAssumption
<1>5. /\ w.ofs \in Nat /\ w.dirsize \in Nat /\ DirEnd(w) \in Nat /\ z \in Nat /\ DirOfs(w) \in Nat
      /\ DirEnd(w) <= z /\ Len(w.dir) \in Nat
      /\ w.dir # << >> => Len(w.dir) > 0 /\ w.ofs < DirEnd(w) /\ DirOfs(w) = w.ofs
      /\ w.dir = << >> => Len(w.dir) = 0
  BY PlacesIs
<1>6. size # Max32 /\ eofs # Max32 /\ eofs + by <= Max32
  <2>. HIDE DEF size, eofs, end
  <2>1. ~(end.size = Max32) /\ ~(end.ofs = Max32) /\ ~(end.ofs + by > Max32)
    BY <1>2 DEF Refuses
  <2>2. eofs \in Nat
    BY <1>4, <1>5 DEF AtMost, eofs
  <2>. QED
    BY <1>3, <1>4, <2>1, <2>2
<1>7. /\ w.dirsize < Max32 /\ eofs = DirOfs(w) /\ DirOfs(w) < Max32 /\ DirOfs(w) + by <= Max32
  BY <1>4, <1>5, <1>6 DEF AtMost
<1>8. total = 0 <=> w.dir = << >>
  BY <1>4, <1>5 DEF AtMost
<1>9. /\ FileOK(g) /\ g.size = f.size /\ DOMAIN g.at = DOMAIN f.at
      /\ w.dir # << >> => w.ofs \in DOMAIN f.at /\ g.at[w.ofs] = d /\ f.at[w.ofs] = Directory(w.dir)
      /\ \A o \in DOMAIN f.at : (w.dir # << >> => o # w.ofs) => g.at[o] = f.at[o]
  <2>1. CASE w.dir = << >>
    <3>1. end.total = 0
      BY <1>3, <1>8, <2>1
    <3>2. g = f
      <4>. HIDE DEF end
      <4>. QED
        BY <1>2, <3>1 DEF WithDirectory
    <3>. HIDE DEF g, d
    <3>. QED
      BY <1>1, <2>1, <3>2
  <2>2. CASE w.dir # << >>
    <3>1. w.ofs \in DOMAIN f.at /\ f.at[w.ofs] = Directory(w.dir)
      BY <2>2 DEF Closed
    <3>2. f.at[w.ofs].recs = w.dir
      BY <3>1, Kinds
    <3>3. end.total # 0 /\ end.ofs = w.ofs /\ end.total = total
      BY <1>3, <1>5, <1>7, <1>8, <2>2
    <3>4. g = Patched(f, w.ofs, d)
      <4>. HIDE DEF end, total
      <4>. QED
        BY <1>2, <3>2, <3>3 DEF WithDirectory
    <3>. HIDE DEF g, d
    <3>. QED
      BY <1>1, <2>2, <3>1, <3>4, PatchedIs
  <2>. QED
    BY <2>1, <2>2
<1>10. w.dir # << >> => w.ofs # z
  BY <1>5
<1>11. /\ FileOK(h) /\ h.size = f.size /\ DOMAIN h.at = DOMAIN f.at /\ h.at[z] = end2
       /\ w.dir # << >> => w.ofs \in DOMAIN f.at /\ h.at[w.ofs] = d /\ f.at[w.ofs] = Directory(w.dir)
       /\ \A o \in DOMAIN f.at : ((w.dir # << >> => o # w.ofs) /\ o # z) => h.at[o] = f.at[o]
  <2>. HIDE DEF g
  <2>1. EndAt(g) = z
    BY <1>2, <1>9 DEF EndAt
  <2>2. EndRec(g) = end
    BY <1>1, <1>2, <1>9, <1>10, <2>1 DEF EndRec
  <2>3. h = Patched(g, z, end2)
    <3>. HIDE DEF end, z, total, size, eofs
    <3>. QED
      BY <1>3, <2>1, <2>2 DEF WithEnd, end2
  <2>. HIDE DEF h, end2, d, z
  <2>. QED
    BY <1>1, <1>9, <1>10, <2>3, PatchedIs
<1>. HIDE DEF h, g
<1>12. d.kind = "directory" /\ Directory(w.dir).kind = "directory"
  BY DEF Directory
<1>13. \A o \in DOMAIN h.at : h.at[o].kind = f.at[o].kind
  <2>1. f.at[z].kind = "end"
    BY <1>2, <1>3 DEF EndRec
  <2>. HIDE DEF d, z, end2, end
  <2>. QED
    BY <1>3, <1>11, <1>12, <2>1
<1>14. \A o \in DOMAIN h.at :
        /\ h.at[o].kind = "end" => o = EndOf(w)
        /\ h.at[o].kind = "end64" => w.zip64 /\ o = DirEnd(w)
        /\ h.at[o].kind = "locator64" => w.zip64 /\ o = DirEnd(w) + 56
  BY <1>11, <1>13 DEF Closed
<1>15. w.zip64 =>
        /\ DirEnd(w) \in DOMAIN h.at /\ DirEnd(w) + 56 \in DOMAIN h.at
        /\ h.at[DirEnd(w)] = End64(Len(w.dir), w.dirsize, DirOfs(w))
        /\ h.at[DirEnd(w) + 56] = Locator64(DirEnd(w))
  <2>1. w.zip64 =>
          /\ DirEnd(w) \in DOMAIN f.at /\ DirEnd(w) + 56 \in DOMAIN f.at
          /\ f.at[DirEnd(w)] = End64(Len(w.dir), w.dirsize, DirOfs(w))
          /\ f.at[DirEnd(w) + 56] = Locator64(DirEnd(w))
    BY DEF Closed
  <2>2. w.zip64 => DirEnd(w) < z /\ DirEnd(w) + 56 < z
    BY <1>5, PlacesIs
  <2>. HIDE DEF z, d
  <2>. QED
    BY <1>5, <1>11, <2>1, <2>2
<1>16. Same(w.file, h, w.ofs)
  <2>1. w.ofs <= z
    BY PlacesIs
  <2>. HIDE DEF z
  <2>. QED
    BY <1>5, <1>11, <2>1 DEF Closed, Same
<1>17. h.at[EndOf(w)] = End(total, size, DirOfs(w) + by)
  BY <1>7, <1>11
<1>. HIDE DEF total, size, moved
<1>18. Closed(w, h, moved, DirOfs(w) + by)
  BY <1>1, <1>11, <1>14, <1>15, <1>16, <1>17 DEF Closed, total, size
<1>. QED
  BY <1>7, <1>18 DEF h, g, moved, total

LEMMA ModSmall ==
    ASSUME NEW a \in Nat, NEW b \in Nat, a < b
    PROVE  a % b = a
OBVIOUS

(* The sums of the places in an archive at a base. *)
Places(wo, de, eo, by, gs, do, ds) ==
    /\ wo \in Nat /\ de \in Nat /\ eo \in Nat /\ by \in Nat /\ gs \in Nat /\ do \in Nat /\ ds \in Nat
    /\ wo <= de /\ de <= eo /\ eo + 22 <= gs /\ de = wo + ds /\ do <= wo

LEMMA Sums ==
    ASSUME NEW wo, NEW de, NEW eo, NEW by, NEW gs, NEW do, NEW ds, Places(wo, de, eo, by, gs, do, ds)
    PROVE  /\ by + gs >= wo + by /\ by + gs >= (by + eo) + 22
           /\ ~((by + do) + ds > by + gs)
           /\ eo = de + 76 =>
                /\ (by + eo) - 20 = by + (de + 56) /\ by + eo >= 76
                /\ ~(de > (by + gs) - 56)
BY DEF Places

(* A record moved with its archive, when nothing of it reaches 32 bits.     *)
LEMMA ShiftReads ==
    ASSUME NEW rec \in Record, NEW limit \in Nat, RecOK(rec, limit), NEW by \in Nat,
           limit + by <= Max32
    PROVE  /\ MovedOfs(rec, by) \in Record /\ RecOK(MovedOfs(rec, by), limit + by)
           /\ MovedOfs(rec, by).name = rec.name /\ MovedOfs(rec, by).method = rec.method
           /\ file_stat(rec).ok =>
                StatIs(MovedOfs(rec, by), file_stat(rec).uncomp, file_stat(rec).comp,
                       file_stat(rec).ofs + by)
<1>. DEFINE rec2 == MovedOfs(rec, by)
<1>1. /\ Max32 \in Nat /\ rec.ofs \in 0 .. Max32 /\ rec.comp \in 0 .. Max32
      /\ rec.uncomp \in 0 .. Max32 /\ rec.extra \in Seq(Nat)
  BY LayoutAssumption DEF Record
<1>2. rec.ofs + 30 <= limit
  BY DEF RecOK, LOCAL_HEADER
<1>3. rec.ofs + by \in Nat /\ rec.ofs + by < Max32 /\ rec.ofs < Max32
  BY <1>1, <1>2
<1>. DEFINE o == (rec.ofs + by) % (Max32 + 1)
<1>4. o = rec.ofs + by /\ o \in 0 .. Max32
  <2>1. rec.ofs + by < Max32 + 1 /\ Max32 + 1 \in Nat
    BY <1>1, <1>3
  <2>2. o = rec.ofs + by
    BY <1>3, <2>1, ModSmall
  <2>. HIDE DEF o
  <2>. QED
    BY <1>1, <1>3, <2>2
<1>5. rec2 = [rec EXCEPT !.ofs = o]
  BY DEF MovedOfs
<1>. HIDE DEF o
<1>6. /\ rec2 \in Record /\ rec2.name = rec.name /\ rec2.method = rec.method
      /\ rec2.uncomp = rec.uncomp /\ rec2.comp = rec.comp /\ rec2.ofs = rec.ofs + by
      /\ rec2.extra = rec.extra
  <2>. HIDE DEF rec2
  <2>1. rec2 \in Record /\ rec2.ofs = o
    BY <1>4, <1>5 DEF Record
  <2>2. rec2.name = rec.name /\ rec2.method = rec.method /\ rec2.extra = rec.extra
    BY <1>5 DEF Record
  <2>3. rec2.uncomp = rec.uncomp /\ rec2.comp = rec.comp
    BY <1>5 DEF Record
  <2>. QED
    BY <1>4, <2>1, <2>2, <2>3
<1>. HIDE DEF rec2
<1>7. RecOK(rec2, limit + by)
  <2>1. rec2.ofs + 30 <= limit + by
    BY <1>1, <1>2, <1>6
  <2>2. rec2.comp # Max32 => rec2.ofs + 30 + rec2.comp <= limit + by
    <3>1. rec.comp # Max32 => rec.ofs + 30 + rec.comp <= limit
      BY DEF RecOK, LOCAL_HEADER
    <3>. QED
      BY <1>1, <1>6, <3>1
  <2>. QED
    BY <1>6, <2>1, <2>2 DEF RecOK, LOCAL_HEADER
<1>8. ASSUME file_stat(rec).ok
      PROVE  StatIs(rec2, file_stat(rec).uncomp, file_stat(rec).comp, file_stat(rec).ofs + by)
  <2>1. /\ rec2.uncomp = Max32 <=> rec.uncomp = Max32
        /\ rec2.comp = Max32 <=> rec.comp = Max32
        /\ rec2.ofs # Max32 /\ rec.ofs # Max32
    BY <1>1, <1>3, <1>6
  <2>2. \A k \in 1 .. 3 : Nth(rec2, k) = Nth(rec, k)
    BY <2>1, NthIs DEF One
  <2>3. StatWorks(rec)
    BY <1>8, StatDir
  <2>4. StatWorks(rec2)
    BY <1>6, <2>2, <2>3 DEF StatWorks
  <2>5. /\ file_stat(rec).uncomp = StatValue(rec, 1, rec.uncomp)
        /\ file_stat(rec).comp = StatValue(rec, 2, rec.comp)
        /\ file_stat(rec).ofs = StatValue(rec, 3, rec.ofs)
    BY <2>3 DEF file_stat
  <2>6. StatValue(rec2, 1, rec2.uncomp) = StatValue(rec, 1, rec.uncomp)
    BY <1>6, <2>1, <2>2, SaturatedIs DEF StatValue
  <2>7. StatValue(rec2, 2, rec2.comp) = StatValue(rec, 2, rec.comp)
    BY <1>6, <2>1, <2>2, SaturatedIs DEF StatValue
  <2>8. StatValue(rec2, 3, rec2.ofs) = rec.ofs + by /\ StatValue(rec, 3, rec.ofs) = rec.ofs
    BY <1>6, <2>1, SaturatedIs DEF StatValue
  <2>. QED
    BY <2>4, <2>5, <2>6, <2>7, <2>8, StatFields
<1>. QED
  BY <1>6, <1>7, <1>8 DEF rec2

(* What is shipped: the closed archive at a base, with an end record that   *)
(* tells as much as the reader needs and records that are sane there.       *)
Shippable(w, g, recs, eofs, by, total) ==
    /\ WriterOK(w) /\ Closed(w, g, recs, eofs) /\ by \in Nat
    /\ total \in Nat /\ total <= Len(w.dir)
    /\ w.zip64 /\ by = 0 => total = Len(w.dir)
    /\ ~(w.zip64 /\ by = 0) =>
        /\ total = AtMost(Max16, Len(w.dir)) /\ AtMost(Max32, w.dirsize) = w.dirsize
        /\ eofs = DirOfs(w) + by
    /\ recs \in Seq(Record) /\ Len(recs) = Len(w.dir)
    /\ \A k \in 1 .. Len(recs) : RecOK(recs[k], w.ofs + by)

LEMMA Ships ==
    ASSUME NEW w, NEW g, NEW recs, NEW eofs, NEW by, NEW total,
           Shippable(w, g, recs, eofs, by, total)
    PROVE  /\ read_central_dir(Appended(by, g)).ok
           /\ DOMAIN read_central_dir(Appended(by, g)).recs = 1 .. total
           /\ \A k \in 1 .. total : read_central_dir(Appended(by, g)).recs[k] = recs[k]
           /\ FileOK(Appended(by, g)) /\ w.ofs + by <= Appended(by, g).size
           /\ \A o \in Nat : (o < w.ofs /\ o \in DOMAIN w.file.at) =>
                /\ o + by \in Nat /\ o + by \in DOMAIN Appended(by, g).at
                /\ Appended(by, g).at[o + by] = w.file.at[o]
<1>. DEFINE S == Appended(by, g)
            E == by + EndOf(w)
            n == Len(w.dir)
            e == EndFields(S, E)
<1>1. /\ WriterOK(w) /\ Closed(w, g, recs, eofs) /\ by \in Nat /\ FileOK(g)
      /\ g.size \in Nat /\ EndOf(w) + 22 <= g.size /\ DOMAIN g.at \subseteq Nat
  BY DEF Shippable, Closed, FileOK
<1>2. /\ w.ofs \in Nat /\ w.dirsize \in Nat /\ DirEnd(w) \in Nat /\ EndOf(w) \in Nat
      /\ DirEnd(w) = w.ofs + w.dirsize /\ w.ofs <= DirEnd(w) /\ DirEnd(w) <= EndOf(w)
      /\ w.zip64 => EndOf(w) = DirEnd(w) + 76
      /\ ~w.zip64 => EndOf(w) = DirEnd(w)
      /\ n \in Nat /\ w.dirsize >= 46 * n
      /\ w.dir # << >> => n > 0 /\ DirOfs(w) = w.ofs
      /\ w.dir = << >> => n = 0 /\ DirOfs(w) = 0
      /\ DirOfs(w) \in Nat /\ DirOfs(w) <= w.ofs
  BY <1>1, PlacesIs
<1>3. /\ FileOK(S) /\ S.size = by + g.size /\ S.size \in Nat
      /\ \A p \in DOMAIN g.at : by + p \in DOMAIN S.at /\ S.at[by + p] = g.at[p]
      /\ \A o \in DOMAIN S.at : o \in Nat /\ o - by \in DOMAIN g.at /\ S.at[o] = g.at[o - by]
  BY <1>1, AppendedIs DEF FileOK
<1>. HIDE DEF S
<1>4. \A o \in DOMAIN S.at :
        /\ S.at[o].kind = "end" => o = E
        /\ S.at[o].kind = "end64" => w.zip64 /\ o = by + DirEnd(w)
        /\ S.at[o].kind = "locator64" => w.zip64 /\ o = by + DirEnd(w) + 56
  <2>. SUFFICES ASSUME NEW o \in DOMAIN S.at
                PROVE  /\ S.at[o].kind = "end" => o = E
                       /\ S.at[o].kind = "end64" => w.zip64 /\ o = by + DirEnd(w)
                       /\ S.at[o].kind = "locator64" => w.zip64 /\ o = by + DirEnd(w) + 56
    OBVIOUS
  <2>. DEFINE p == o - by
  <2>1. p \in DOMAIN g.at /\ S.at[o] = g.at[p] /\ o = by + p /\ p \in Nat
    BY <1>1, <1>3
  <2>2. /\ g.at[p].kind = "end" => p = EndOf(w)
        /\ g.at[p].kind = "end64" => w.zip64 /\ p = DirEnd(w)
        /\ g.at[p].kind = "locator64" => w.zip64 /\ p = DirEnd(w) + 56
    BY <1>1, <2>1 DEF Closed
  <2>3. by + (DirEnd(w) + 56) = by + DirEnd(w) + 56
    <3>. DEFINE de == DirEnd(w)
    <3>1. de \in Nat /\ by \in Nat
      BY <1>1, <1>2
    <3>. HIDE DEF de
    <3>2. by + (de + 56) = by + de + 56
      BY <3>1
    <3>. QED
      BY <3>2 DEF de
  <2>. HIDE DEF p
  <2>4. S.at[o] = g.at[p] /\ o = by + p
    BY <2>1
  <2>. QED
    BY <2>2, <2>3, <2>4, Zenon
<1>5. E \in DOMAIN S.at /\ S.at[E] = End(AtMost(Max16, n), AtMost(Max32, w.dirsize), eofs)
  BY <1>1, <1>3 DEF Closed
<1>6. EndRecords(S) = {E} /\ LastEnd(S) = E
  <2>1. S.at[E].kind = "end"
    BY <1>5, Kinds
  <2>2. EndRecords(S) = {E}
    <3>. HIDE DEF E
    <3>1. \A o \in DOMAIN S.at : S.at[o].kind = "end" => o = E
      BY <1>4
    <3>2. E \in DOMAIN S.at
      BY <1>5
    <3>. QED
      BY <2>1, <3>1, <3>2 DEF EndRecords
  <2>3. E \in Nat
    <3>1. by \in Nat /\ EndOf(w) \in Nat
      BY <1>1, <1>2
    <3>. QED
      BY <3>1
  <2>. HIDE DEF E
  <2>. QED
    BY <2>2, <2>3 DEF LastEnd
<1>7. /\ w.zip64 => HasLocator(S, E) /\ LocatorOfs(S, E) = DirEnd(w)
      /\ ~w.zip64 => ~HasLocator(S, E)
  <2>1. CASE w.zip64
    <3>1. E - 20 = by + (DirEnd(w) + 56) /\ E >= 76
      <4>1. Places(w.ofs, DirEnd(w), EndOf(w), by, g.size, DirOfs(w), w.dirsize)
        BY <1>1, <1>2 DEF Places
      <4>. QED
        BY <1>2, <2>1, <4>1, Sums
    <3>2. DirEnd(w) + 56 \in DOMAIN g.at /\ g.at[DirEnd(w) + 56] = Locator64(DirEnd(w))
      BY <1>1, <2>1 DEF Closed
    <3>3. E - 20 \in DOMAIN S.at /\ S.at[E - 20] = Locator64(DirEnd(w))
      BY <1>3, <3>1, <3>2
    <3>. HIDE DEF E
    <3>. QED
      BY <2>1, <3>1, <3>3, Kinds DEF HasLocator, LocatorOfs, IsAt, LOCATOR64, END64_HEADER
  <2>2. CASE ~w.zip64
    BY <1>4, <2>2 DEF HasLocator, IsAt
  <2>. QED
    BY <2>1, <2>2
<1>8. IsZip64(S, E) <=> w.zip64 /\ by = 0
  <2>1. CASE w.zip64 /\ by = 0
    <3>1. DirEnd(w) \in DOMAIN g.at /\ g.at[DirEnd(w)] = End64(Len(w.dir), w.dirsize, DirOfs(w))
      BY <1>1, <2>1 DEF Closed
    <3>2. by + DirEnd(w) = DirEnd(w)
      BY <1>2, <2>1
    <3>3. DirEnd(w) \in DOMAIN S.at /\ S.at[DirEnd(w)].kind = "end64"
      BY <1>3, <3>1, <3>2, Kinds
    <3>. QED
      BY <1>7, <2>1, <3>3 DEF IsZip64, IsAt
  <2>2. CASE ~w.zip64
    BY <1>7, <2>2 DEF IsZip64
  <2>3. CASE w.zip64 /\ by # 0
    <3>1. ~IsAt(S, DirEnd(w), "end64")
      <4>1. DirEnd(w) # by + DirEnd(w)
        BY <1>1, <1>2, <2>3
      <4>. QED
        BY <1>4, <4>1 DEF IsAt
    <3>. QED
      BY <1>7, <2>3, <3>1 DEF IsZip64
  <2>. QED
    BY <2>1, <2>2, <2>3
<1>9. e.total = total /\ e.size = w.dirsize /\ e.ofs = by + DirOfs(w)
  <2>1. CASE w.zip64 /\ by = 0
    <3>1. DirEnd(w) \in DOMAIN g.at /\ g.at[DirEnd(w)] = End64(n, w.dirsize, DirOfs(w))
      BY <1>1, <2>1 DEF Closed
    <3>2. by + DirEnd(w) = DirEnd(w)
      BY <1>2, <2>1
    <3>3. e = End64(n, w.dirsize, DirOfs(w))
      <4>1. e = S.at[DirEnd(w)]
        BY <1>7, <1>8, <2>1 DEF EndFields
      <4>2. S.at[DirEnd(w)] = g.at[DirEnd(w)]
        BY <1>3, <3>1, <3>2
      <4>. QED
        BY <3>1, <4>1, <4>2
    <3>4. total = n
      BY <2>1 DEF Shippable
    <3>. HIDE DEF e, n
    <3>5. e.total = n /\ e.size = w.dirsize /\ e.ofs = DirOfs(w)
      BY <3>3, Kinds
    <3>. QED
      BY <1>2, <2>1, <3>4, <3>5
  <2>2. CASE ~(w.zip64 /\ by = 0)
    <3>1. e = S.at[E]
      BY <1>8, <2>2 DEF EndFields
    <3>2. /\ total = AtMost(Max16, n) /\ AtMost(Max32, w.dirsize) = w.dirsize
          /\ eofs = DirOfs(w) + by
      BY <2>2 DEF Shippable
    <3>. HIDE DEF e, n, E
    <3>3. e.total = AtMost(Max16, n) /\ e.size = AtMost(Max32, w.dirsize) /\ e.ofs = eofs
      BY <1>5, <3>1, Kinds
    <3>. QED
      BY <1>1, <1>2, <3>2, <3>3
  <2>. QED
    BY <2>1, <2>2
<1>10. /\ total \in Nat /\ total <= n /\ recs \in Seq(Record) /\ Len(recs) = n
       /\ \A k \in 1 .. n : RecOK(recs[k], w.ofs + by)
  BY DEF Shippable
<1>11. /\ S.size >= w.ofs + by /\ S.size >= E + 22
       /\ ~((by + DirOfs(w)) + w.dirsize > S.size)
       /\ w.zip64 => ~(DirEnd(w) > S.size - 56)
  <2>1. Places(w.ofs, DirEnd(w), EndOf(w), by, g.size, DirOfs(w), w.dirsize)
    BY <1>1, <1>2 DEF Places
  <2>2. /\ by + g.size >= w.ofs + by /\ by + g.size >= (by + EndOf(w)) + 22
        /\ ~((by + DirOfs(w)) + w.dirsize > by + g.size)
    BY <2>1, Sums
  <2>3. EndOf(w) = DirEnd(w) + 76 => ~(DirEnd(w) > (by + g.size) - 56)
    BY <2>1, Sums
  <2>. QED
    BY <1>2, <1>3, <2>2, <2>3
<1>12. DirectoryIsThere(S, e) /\ (total > 0 => e.ofs \in DOMAIN S.at /\ S.at[e.ofs] = Directory(recs))
  <2>1. ASSUME total > 0
        PROVE  e.ofs \in DOMAIN S.at /\ S.at[e.ofs] = Directory(recs)
    <3>1. w.dir # << >>
      BY <1>2, <1>10, <2>1
    <3>2. w.ofs \in DOMAIN g.at /\ g.at[w.ofs] = Directory(recs) /\ DirOfs(w) = w.ofs
      BY <1>1, <1>2, <3>1 DEF Closed
    <3>. QED
      BY <1>3, <1>9, <3>2
  <2>2. \A x : Directory(x).kind = "directory" /\ Directory(x).recs = x
    BY Kinds
  <2>. HIDE DEF e
  <2>. QED
    BY <1>9, <1>10, <2>1, <2>2 DEF DirectoryIsThere, IsAt
<1>. DEFINE R == RecordsOf(S, e)
<1>13. DOMAIN R = 1 .. total /\ \A k \in 1 .. total : R[k] = recs[k]
  <2>. HIDE DEF e
  <2>1. CASE total = 0
    BY <1>9, <2>1 DEF RecordsOf
  <2>2. CASE total > 0
    <3>1. R = SubSeq(recs, 1, total)
      <4>1. S.at[e.ofs].recs = recs
        BY <1>12, <2>2, Kinds
      <4>2. ~(e.total = 0) /\ e.total = total
        BY <1>9, <1>10, <2>2
      <4>. QED
        BY <4>1, <4>2 DEF RecordsOf
    <3>. HIDE DEF R
    <3>. QED
      BY <1>2, <1>10, <2>2, <3>1
  <2>. QED
    BY <1>10, <2>1, <2>2
<1>14. \A k \in DOMAIN R : RecordIsSane(S, R[k])
  <2>. SUFFICES ASSUME NEW k \in 1 .. total
                PROVE  RecordIsSane(S, recs[k])
    BY <1>13
  <2>1. recs[k] \in Record /\ RecOK(recs[k], w.ofs + by)
    BY <1>10, <1>2
  <2>2. recs[k].ofs \in Nat /\ recs[k].comp \in Nat
    BY <2>1, LayoutAssumption DEF Record
  <2>. DEFINE rec == recs[k]
              most == rec.ofs + 30 + rec.comp
  <2>3. /\ (rec.comp # Max32 /\ rec.uncomp # Max32) =>
             (rec.method = "store" => rec.uncomp = rec.comp) /\ ~(rec.uncomp # 0 /\ rec.comp = 0)
        /\ rec.comp # Max32 => most <= w.ofs + by
    BY <2>1 DEF RecOK, LOCAL_HEADER
  <2>4. most \in Nat
    BY <2>2
  <2>5. most <= w.ofs + by => most <= S.size
    <3>. DEFINE lim == w.ofs + by
                size == S.size
    <3>1. lim \in Nat
      <4>1. w.ofs \in Nat /\ by \in Nat
        BY <1>1, <1>2
      <4>. QED
        BY <4>1
    <3>2. size \in Nat /\ size >= lim
      BY <1>3, <1>11
    <3>. HIDE DEF most, lim, size
    <3>3. most <= lim => most <= size
      BY <2>4, <3>1, <3>2
    <3>. QED
      BY <3>3 DEF lim, size
  <2>. QED
    BY <2>3, <2>5 DEF RecordIsSane, LOCAL_HEADER
<1>15. ~(\/ HasLocator(S, E) /\ LocatorOfs(S, E) > S.size - END64_HEADER
         \/ e.size < e.total * CENTRAL_HEADER
         \/ e.ofs + e.size > S.size
         \/ ~DirectoryIsThere(S, e))
  <2>1. ~(HasLocator(S, E) /\ LocatorOfs(S, E) > S.size - END64_HEADER)
    <3>. HIDE DEF E
    <3>. QED
      BY <1>7, <1>11 DEF END64_HEADER
  <2>. HIDE DEF e, n
  <2>2. ~(e.size < e.total * CENTRAL_HEADER)
    BY <1>2, <1>9, <1>10 DEF CENTRAL_HEADER
  <2>3. ~(e.ofs + e.size > S.size)
    <3>1. e.ofs = by + DirOfs(w) /\ e.size = w.dirsize /\ ~((by + DirOfs(w)) + w.dirsize > S.size)
      BY <1>9, <1>11
    <3>. QED
      BY <3>1, Zenon
  <2>. QED
    BY <1>12, <2>1, <2>2, <2>3
<1>16. ~(S.size < END_HEADER \/ EndRecords(S) = {})
  BY <1>1, <1>2, <1>3, <1>6, <1>11 DEF END_HEADER
<1>17. read_central_dir(S).ok /\ read_central_dir(S).recs = R
  <2>. DEFINE none == S.size < END_HEADER \/ EndRecords(S) = {}
              bad == \/ HasLocator(S, E) /\ LocatorOfs(S, E) > S.size - END64_HEADER
                     \/ e.size < e.total * CENTRAL_HEADER
                     \/ e.ofs + e.size > S.size
                     \/ ~DirectoryIsThere(S, e)
              insane == \E k \in DOMAIN R : ~RecordIsSane(S, R[k])
              answer == [ok |-> TRUE, recs |-> R,
                         zip64 |-> IsZip64(S, E) \/ \E k \in DOMAIN R : UsesExtended(R[k])]
  <2>1. read_central_dir(S) = IF none THEN NoArchive ELSE IF bad THEN NoArchive
                              ELSE IF insane THEN NoArchive ELSE answer
    <3>. HIDE DEF E
    <3>. QED
      BY <1>6 DEF read_central_dir
  <2>2. ~none /\ ~bad /\ ~insane
    BY <1>14, <1>15, <1>16
  <2>3. answer.ok /\ answer.recs = R
    <3>. HIDE DEF R
    <3>. QED
      OBVIOUS
  <2>. HIDE DEF none, bad, insane, answer
  <2>. QED
    BY <2>1, <2>2, <2>3
<1>18. \A o \in Nat : (o < w.ofs /\ o \in DOMAIN w.file.at) =>
         o + by \in Nat /\ o + by \in DOMAIN S.at /\ S.at[o + by] = w.file.at[o]
  <2>. SUFFICES ASSUME NEW o \in Nat, o < w.ofs, o \in DOMAIN w.file.at
                PROVE  o + by \in Nat /\ o + by \in DOMAIN S.at /\ S.at[o + by] = w.file.at[o]
    OBVIOUS
  <2>1. o \in DOMAIN g.at /\ g.at[o] = w.file.at[o]
    BY <1>1 DEF Closed, Same
  <2>2. by + o = o + by /\ o + by \in Nat
    BY <1>1
  <2>. QED
    BY <1>3, <2>1, <2>2
<1>. HIDE DEF R
<1>. QED
  BY <1>3, <1>11, <1>13, <1>17, <1>18 DEF S

(* What a record of the writer has become where it is shipped. *)
Becomes(rec, rec2, by) ==
    /\ rec2.name = rec.name /\ rec2.method = rec.method
    /\ file_stat(rec).ok =>
         StatIs(rec2, file_stat(rec).uncomp, file_stat(rec).comp, file_stat(rec).ofs + by)

LEMMA Serving ==
    ASSUME NEW w, NEW g, NEW recs, NEW eofs, NEW by, NEW total,
           Shippable(w, g, recs, eofs, by, total),
           NEW k \in 1 .. total, Becomes(w.dir[k], recs[k], by),
           NEW name, NEW data, NEW dict, HeldAt(w, k, name, data, dict), ~Crossed(w.dir[k])
    PROVE  extract(Appended(by, g), read_central_dir(Appended(by, g)).recs[k], dict) = HasData(data)
<1>. DEFINE S == Appended(by, g)
            rec == w.dir[k]
            rec2 == recs[k]
<1>1. WriterOK(w) /\ by \in Nat /\ total \in Nat
  BY DEF Shippable
<1>2. w.ofs \in Nat /\ FileOK(w.file) /\ w.ofs <= w.file.size /\ w.file.size \in Nat
  BY <1>1 DEF WriterOK, FileOK
<1>3. /\ FileOK(S) /\ w.ofs + by <= S.size /\ read_central_dir(S).recs[k] = rec2
      /\ \A o \in Nat : (o < w.ofs /\ o \in DOMAIN w.file.at) =>
           o + by \in Nat /\ o + by \in DOMAIN S.at /\ S.at[o + by] = w.file.at[o]
  BY Ships
<1>. HIDE DEF S
<1>4. Readable(w.file, rec, w.ofs) /\ extract(w.file, rec, dict) = HasData(data)
  BY DEF HeldAt
<1>5. file_stat(rec).ok
  BY <1>4 DEF Readable
<1>6. StatIs(rec2, file_stat(rec).uncomp, file_stat(rec).comp, file_stat(rec).ofs + by)
      /\ rec2.name = rec.name /\ rec2.method = rec.method
  BY <1>5 DEF Becomes
<1>. HIDE DEF rec, rec2
<1>7. S.size \in Nat /\ w.ofs + by \in Nat /\ w.ofs + by <= w.ofs + by /\ by \in Int
  BY <1>1, <1>2, <1>3 DEF FileOK
<1>8. \A o \in Nat : (file_stat(rec).ofs <= o /\ o < w.ofs /\ o \in DOMAIN w.file.at) =>
           o + by \in Nat /\ o + by \in DOMAIN S.at /\ S.at[o + by] = w.file.at[o]
  BY <1>3
<1>9. \A d : extract(S, rec2, d) = extract(w.file, rec, d)
  <2>. DEFINE file == w.file
              limit == w.ofs
              limit2 == w.ofs + by
  <2>1. /\ limit \in Nat /\ file.size \in Nat /\ limit <= file.size /\ Readable(file, rec, limit)
        /\ limit2 \in Nat /\ S.size \in Nat /\ limit2 <= S.size /\ limit + by <= limit2
        /\ by \in Int
    BY <1>2, <1>3, <1>4, <1>7
  <2>2. \A o \in Nat : (file_stat(rec).ofs <= o /\ o < limit /\ o \in DOMAIN file.at) =>
           o + by \in Nat /\ o + by \in DOMAIN S.at /\ S.at[o + by] = file.at[o]
    BY <1>8
  <2>. HIDE DEF file, limit, limit2
  <2>3. \A d : extract(S, rec2, d) = extract(file, rec, d)
    BY <1>6, <2>1, <2>2, ExtractMoved
  <2>. QED
    BY <2>3 DEF file
<1>. QED
  BY <1>3, <1>4, <1>9 DEF S

(* The archive of a packer that succeeds, and the two ways it is shipped.   *)
Made(w, z, by, g) ==
    /\ WriterOK(w) /\ by \in Nat /\ \E r \in finalize_archive(w) : r.ok /\ r.w = z
    /\ by = 0 => g = z.file
    /\ by # 0 => ~Refuses(z.file, by) /\ g = WithEnd(WithDirectory(z.file, by), by)

LEMMA MadeIs ==
    ASSUME NEW w, NEW z, NEW by, NEW g, Made(w, z, by, g)
    PROVE  /\ Closed(w, z.file, w.dir, AtMost(Max32, DirOfs(w))) /\ z.dir = w.dir
           /\ w.zip64 => w.dirsize < Max32
           /\ ~w.zip64 => Len(w.dir) <= Max16 /\ DirEnd(w) <= Max32
<1>1. WriterOK(w)
  BY DEF Made
<1>2. PICK r \in finalize_archive(w) : r.ok /\ r.w = z
  BY DEF Made
<1>. QED
  BY <1>1, <1>2, Finalized

LEMMA ShipPlain ==
    ASSUME NEW w, NEW z, NEW g, Made(w, z, 0, g)
    PROVE  /\ Shippable(w, g, w.dir, AtMost(Max32, DirOfs(w)), 0, Len(w.dir))
           /\ \A k \in 1 .. Len(w.dir) : Becomes(w.dir[k], w.dir[k], 0)
<1>1. WriterOK(w) /\ g = z.file
  BY DEF Made
<1>2. /\ w.ofs \in Nat /\ w.dirsize \in Nat /\ DirEnd(w) \in Nat /\ DirEnd(w) = w.ofs + w.dirsize
      /\ Len(w.dir) \in Nat /\ DirOfs(w) \in Nat /\ DirOfs(w) <= w.ofs
      /\ DOMAIN w.dir = 1 .. Len(w.dir)
  BY <1>1, PlacesIs
<1>3. w.dir \in Seq(Record) /\ \A k \in DOMAIN w.dir : RecOK(w.dir[k], w.ofs)
  BY <1>1 DEF WriterOK
<1>4. Max16 \in Nat /\ Max32 \in Nat
  BY LayoutAssumption
<1>5. ~w.zip64 => /\ Len(w.dir) = AtMost(Max16, Len(w.dir)) /\ AtMost(Max32, w.dirsize) = w.dirsize
                  /\ AtMost(Max32, DirOfs(w)) = DirOfs(w) + 0
  <2>. SUFFICES ASSUME ~w.zip64
                PROVE  /\ Len(w.dir) = AtMost(Max16, Len(w.dir)) /\ AtMost(Max32, w.dirsize) = w.dirsize
                       /\ AtMost(Max32, DirOfs(w)) = DirOfs(w) + 0
    OBVIOUS
  <2>. DEFINE n == Len(w.dir)
  <2>1. n <= Max16 /\ DirEnd(w) <= Max32
    BY MadeIs
  <2>2. n \in Nat
    BY <1>2
  <2>. HIDE DEF n
  <2>3. n = AtMost(Max16, n)
    BY <1>4, <2>1, <2>2 DEF AtMost
  <2>4. AtMost(Max32, w.dirsize) = w.dirsize
    BY <1>2, <1>4, <2>1 DEF AtMost
  <2>5. AtMost(Max32, DirOfs(w)) = DirOfs(w) + 0
    BY <1>2, <1>4, <2>1 DEF AtMost
  <2>. QED
    BY <2>3, <2>4, <2>5 DEF n
<1>6. \A k \in 1 .. Len(w.dir) : RecOK(w.dir[k], w.ofs + 0)
  BY <1>2, <1>3
<1>7. Closed(w, g, w.dir, AtMost(Max32, DirOfs(w)))
  BY <1>1, MadeIs
<1>8. Len(w.dir) <= Len(w.dir)
  BY <1>2
<1>9. Shippable(w, g, w.dir, AtMost(Max32, DirOfs(w)), 0, Len(w.dir))
  <2>. DEFINE eofs == AtMost(Max32, DirOfs(w))
  <2>1. 0 \in Nat /\ (~w.zip64 => eofs = DirOfs(w) + 0) /\ Closed(w, g, w.dir, eofs)
    BY <1>5, <1>7
  <2>2. w.zip64 /\ 0 = 0 => Len(w.dir) = Len(w.dir)
    OBVIOUS
  <2>. HIDE DEF eofs
  <2>3. ~(w.zip64 /\ 0 = 0) => 
          /\ Len(w.dir) = AtMost(Max16, Len(w.dir)) /\ AtMost(Max32, w.dirsize) = w.dirsize
          /\ eofs = DirOfs(w) + 0
    BY <1>5, <2>1
  <2>4. Shippable(w, g, w.dir, eofs, 0, Len(w.dir))
    BY <1>1, <1>2, <1>3, <1>6, <1>8, <2>1, <2>3, Zenon DEF Shippable
  <2>. QED
    BY <2>4 DEF eofs
<1>10. \A k \in 1 .. Len(w.dir) : Becomes(w.dir[k], w.dir[k], 0)
  <2>. SUFFICES ASSUME NEW k \in 1 .. Len(w.dir)
                PROVE  Becomes(w.dir[k], w.dir[k], 0)
    OBVIOUS
  <2>. DEFINE rec == w.dir[k]
  <2>1. rec \in Record
    BY <1>2, <1>3
  <2>. HIDE DEF rec
  <2>2. file_stat(rec).ok => file_stat(rec).ofs + 0 = file_stat(rec).ofs
    BY <2>1, StatNat
  <2>. QED
    BY <2>2 DEF Becomes, StatIs, rec
<1>. QED
  BY <1>9, <1>10

LEMMA ShipMoved ==
    ASSUME NEW w, NEW z, NEW by, NEW g, Made(w, z, by, g), by # 0
    PROVE  /\ Shippable(w, g, Shifted(w.dir, AtMost(Max16, Len(w.dir)), by), DirOfs(w) + by, by,
                        AtMost(Max16, Len(w.dir)))
           /\ \A k \in 1 .. AtMost(Max16, Len(w.dir)) :
                Becomes(w.dir[k], Shifted(w.dir, AtMost(Max16, Len(w.dir)), by)[k], by)
<1>. DEFINE total == AtMost(Max16, Len(w.dir))
            moved == Shifted(w.dir, total, by)
            n == Len(w.dir)
<1>1. WriterOK(w) /\ by \in Nat /\ ~Refuses(z.file, by) /\ g = WithEnd(WithDirectory(z.file, by), by)
  BY DEF Made
<1>2. /\ w.ofs \in Nat /\ w.dirsize \in Nat /\ n \in Nat /\ DirOfs(w) \in Nat
      /\ DOMAIN w.dir = 1 .. n /\ w.dir # << >> => DirOfs(w) = w.ofs
      /\ w.dir = << >> => n = 0
  BY <1>1, PlacesIs
<1>3. w.dir \in Seq(Record) /\ \A k \in DOMAIN w.dir : RecOK(w.dir[k], w.ofs)
  BY <1>1 DEF WriterOK
<1>4. Max16 \in Nat /\ Max32 \in Nat
  BY LayoutAssumption
<1>5. /\ Closed(w, g, moved, DirOfs(w) + by)
      /\ w.dirsize < Max32 /\ DirOfs(w) + by <= Max32
  <2>1. Closed(w, z.file, w.dir, AtMost(Max32, DirOfs(w)))
    BY MadeIs
  <2>. QED
    BY <1>1, <2>1, Adjusted
<1>6. total \in Nat /\ total <= n
  <2>. HIDE DEF n
  <2>1. total = AtMost(Max16, n)
    BY DEF n
  <2>. HIDE DEF total
  <2>. QED
    BY <1>2, <1>4, <2>1 DEF AtMost
<1>7. AtMost(Max32, w.dirsize) = w.dirsize
  BY <1>2, <1>4, <1>5 DEF AtMost
<1>8. \A k \in 1 .. n :
        /\ moved[k] = IF k <= total THEN MovedOfs(w.dir[k], by) ELSE w.dir[k]
        /\ moved[k] \in Record /\ RecOK(moved[k], w.ofs + by)
        /\ k <= total => Becomes(w.dir[k], moved[k], by)
  <2>. SUFFICES ASSUME NEW k \in 1 .. n
                PROVE  /\ moved[k] = IF k <= total THEN MovedOfs(w.dir[k], by) ELSE w.dir[k]
                       /\ moved[k] \in Record /\ RecOK(moved[k], w.ofs + by)
                       /\ k <= total => Becomes(w.dir[k], moved[k], by)
    OBVIOUS
  <2>. DEFINE rec == w.dir[k]
              rec2 == moved[k]
  <2>1. rec \in Record /\ RecOK(rec, w.ofs)
    BY <1>2, <1>3
  <2>2. rec2 = IF k <= total THEN MovedOfs(rec, by) ELSE rec
    BY <1>2 DEF Shifted
  <2>3. w.ofs + by <= Max32
    <3>1. w.dir # << >>
      BY <1>2
    <3>. QED
      BY <1>2, <1>5, <3>1
  <2>. HIDE DEF total, moved, rec, rec2
  <2>4. CASE k <= total
    <3>1. rec2 = MovedOfs(rec, by)
      BY <2>2, <2>4
    <3>2. /\ rec2 \in Record /\ RecOK(rec2, w.ofs + by)
          /\ rec2.name = rec.name /\ rec2.method = rec.method
          /\ file_stat(rec).ok =>
               StatIs(rec2, file_stat(rec).uncomp, file_stat(rec).comp, file_stat(rec).ofs + by)
      BY <1>1, <1>2, <2>1, <2>3, <3>1, ShiftReads
    <3>. QED
      BY <2>2, <3>2 DEF Becomes, rec, rec2
  <2>5. CASE ~(k <= total)
    <3>1. rec2 = rec
      BY <2>2, <2>5
    <3>2. rec.ofs \in Nat /\ rec.comp \in Nat
      BY <2>1, <1>4 DEF Record
    <3>3. RecOK(rec, w.ofs + by)
      <4>. DEFINE a == rec.ofs + 30
                  b == rec.ofs + 30 + rec.comp
      <4>1. /\ (rec.comp # Max32 /\ rec.uncomp # Max32) =>
                 (rec.method = "store" => rec.uncomp = rec.comp) /\ ~(rec.uncomp # 0 /\ rec.comp = 0)
            /\ a <= w.ofs /\ (rec.comp # Max32 => b <= w.ofs)
        BY <2>1 DEF RecOK, LOCAL_HEADER
      <4>2. a \in Nat /\ b \in Nat
        BY <3>2
      <4>3. a <= w.ofs + by /\ (rec.comp # Max32 => b <= w.ofs + by)
        <5>. HIDE DEF a, b
        <5>. QED
          BY <1>1, <1>2, <4>1, <4>2
      <4>. QED
        BY <4>1, <4>3 DEF RecOK, LOCAL_HEADER
    <3>. QED
      BY <2>1, <2>2, <2>5, <3>1, <3>3 DEF rec, rec2
  <2>. QED
    BY <2>4, <2>5
<1>9. moved \in Seq(Record) /\ Len(moved) = n
  <2>1. moved = [k \in 1 .. n |-> moved[k]]
    BY <1>2 DEF Shifted
  <2>2. \A k \in 1 .. n : moved[k] \in Record
    BY <1>8
  <2>. HIDE DEF moved, n
  <2>. QED
    BY <1>2, <2>1, <2>2
<1>. HIDE DEF total, moved, n
<1>10. Shippable(w, g, moved, DirOfs(w) + by, by, total)
  <2>1. ~(w.zip64 /\ by = 0)
    OBVIOUS
  <2>2. total = AtMost(Max16, Len(w.dir)) /\ n = Len(w.dir)
    BY DEF total, n
  <2>. QED
    BY <1>1, <1>2, <1>5, <1>6, <1>7, <1>8, <1>9, <2>1, <2>2 DEF Shippable
<1>11. \A k \in 1 .. total : Becomes(w.dir[k], moved[k], by)
  BY <1>2, <1>6, <1>8
<1>. QED
  BY <1>10, <1>11 DEF moved, total

(* ---- What the reader finds. ---- *)
LEMMA SameIsSame ==
    ASSUME NEW name
    PROVE  SameName(name, name)
BY DEF SameName

(* The name is there once, on a record the reader understands. *)
ClearIn(recs, name) ==
    \E k \in DOMAIN recs :
        /\ \A j \in DOMAIN recs : SameName(recs[j].name, name) => j = k
        /\ SameName(recs[k].name, name) /\ ~Crossed(recs[k])

Finds(by, g, name, data, dict) ==
    LET S == Appended(by, g)
        recs == read_central_dir(S).recs IN
    \E k : locate_file(recs, name) = {k} /\ k # 0 /\ extract(S, recs[k], dict) = HasData(data)

LEMMA FoundIn ==
    ASSUME NEW w, NEW g, NEW recs, NEW eofs, NEW by, NEW total,
           Shippable(w, g, recs, eofs, by, total),
           \A k \in 1 .. total : Becomes(w.dir[k], recs[k], by),
           NEW j, NEW name, NEW data, NEW dict, HeldAt(w, j, name, data, dict),
           j \in Nat => j <= total, ClearIn(w.dir, name)
    PROVE  Finds(by, g, name, data, dict)
<1>. DEFINE S == Appended(by, g)
            R == read_central_dir(S).recs
<1>1. WriterOK(w) /\ total \in Nat /\ total <= Len(w.dir)
  BY DEF Shippable
<1>2. Len(w.dir) \in Nat /\ DOMAIN w.dir = 1 .. Len(w.dir)
  BY <1>1, PlacesIs
<1>3. j \in DOMAIN w.dir /\ w.dir[j].name = name
  BY DEF HeldAt
<1>4. j \in 1 .. total
  BY <1>1, <1>2, <1>3
<1>5. ~Crossed(w.dir[j]) /\ \A k \in DOMAIN w.dir : SameName(w.dir[k].name, name) => k = j
  BY <1>3, SameIsSame DEF ClearIn
<1>6. /\ DOMAIN R = 1 .. total
      /\ \A k \in 1 .. total : R[k] = recs[k]
  BY Ships
<1>7. extract(S, R[j], dict) = HasData(data)
  BY <1>4, <1>5, Serving
<1>8. \A k \in 1 .. total : recs[k].name = w.dir[k].name
  BY DEF Becomes
<1>. HIDE DEF R, S
<1>9. \A k \in DOMAIN R : SameName(R[k].name, name) <=> k = j
  <2>. SUFFICES ASSUME NEW k \in DOMAIN R
                PROVE  SameName(R[k].name, name) <=> k = j
    OBVIOUS
  <2>1. k \in 1 .. total /\ k \in DOMAIN w.dir /\ R[k].name = w.dir[k].name
    BY <1>1, <1>2, <1>6, <1>8
  <2>2. k = j => SameName(R[k].name, name)
    BY <1>3, <2>1, SameIsSame
  <2>. QED
    BY <1>5, <2>1, <2>2
<1>10. {k \in DOMAIN R : SameName(R[k].name, name)} = {j}
  BY <1>4, <1>6, <1>9
<1>11. locate_file(R, name) = {j}
  BY <1>10 DEF locate_file
<1>12. j # 0
  BY <1>4
<1>. QED
  BY <1>7, <1>11, <1>12 DEF Finds, R, S

LEMMA Found ==
    ASSUME NEW w, NEW z, NEW by, NEW g, Made(w, z, by, g)
    PROVE  /\ read_central_dir(Appended(by, g)).ok
           /\ \A j, name, data, dict :
                (HeldAt(w, j, name, data, dict) /\ ClearIn(w.dir, name) /\ (by # 0 => j <= Max16))
                    => Finds(by, g, name, data, dict)
<1>1. WriterOK(w)
  BY DEF Made
<1>2. Len(w.dir) \in Nat /\ DOMAIN w.dir = 1 .. Len(w.dir) /\ Max16 \in Nat
  BY <1>1, PlacesIs, LayoutAssumption
<1>3. CASE by = 0
  <2>. DEFINE eofs == AtMost(Max32, DirOfs(w))
  <2>1. /\ Shippable(w, g, w.dir, eofs, by, Len(w.dir))
        /\ \A k \in 1 .. Len(w.dir) : Becomes(w.dir[k], w.dir[k], by)
    BY <1>3, ShipPlain
  <2>. HIDE DEF eofs
  <2>2. read_central_dir(Appended(by, g)).ok
    BY <2>1, Ships
  <2>3. ASSUME NEW j, NEW name, NEW data, NEW dict,
               HeldAt(w, j, name, data, dict), ClearIn(w.dir, name)
        PROVE  Finds(by, g, name, data, dict)
    <3>1. j <= Len(w.dir)
      BY <1>2, <2>3 DEF HeldAt
    <3>. QED
      BY <2>1, <2>3, <3>1, FoundIn
  <2>. QED
    BY <2>2, <2>3
<1>4. CASE by # 0
  <2>. DEFINE total == AtMost(Max16, Len(w.dir))
              moved == Shifted(w.dir, total, by)
  <2>1. /\ Shippable(w, g, moved, DirOfs(w) + by, by, total)
        /\ \A k \in 1 .. total : Becomes(w.dir[k], moved[k], by)
    BY <1>4, ShipMoved
  <2>2. \A j \in 1 .. Len(w.dir) : j <= Max16 => j <= total
    BY <1>2 DEF AtMost
  <2>. HIDE DEF moved, total
  <2>3. read_central_dir(Appended(by, g)).ok
    BY <2>1, Ships
  <2>4. ASSUME NEW j, NEW name, NEW data, NEW dict,
               HeldAt(w, j, name, data, dict), ClearIn(w.dir, name), j <= Max16
        PROVE  Finds(by, g, name, data, dict)
    <3>1. j <= total
      BY <1>2, <2>2, <2>4 DEF HeldAt
    <3>. QED
      BY <2>1, <2>4, <3>1, FoundIn
  <2>. QED
    BY <1>4, <2>3, <2>4
<1>. QED
  BY <1>3, <1>4

-----------------------------------------------------------------------------
(* The inductive invariant, phase by phase: of a command line `a`, the      *)
(* reader `s`, the writer `w`, the base `b` and how far the phase is, `n`.  *)
SourceOf(a) == IF a.carry.given THEN read_central_dir(a.carry.file) ELSE NoArchive

BaseOf(a, s) ==
    IF a.carry.given THEN IF s.recs # << >> THEN a.carry.program ELSE a.carry.file.size ELSE 0

(* The first n entries carried over are held, by records that 16 bits count.*)
CarriedAt(a, s, w, n) ==
    \A k \in 1 .. n : \A data, dict :
        (~Dropped(s.recs[k]) /\ extract(a.carry.file, s.recs[k], dict) = HasData(data)) =>
            \E j : j <= Max16 /\ HeldAt(w, j, s.recs[k].name, data, dict)

FilesTo(a, n) == {f \in {a.tree[k] : k \in 1 .. n} : f.type = "FTW_F"}

VisitedAt(a, w, n) == \A f \in FilesTo(a, n) : \E j : HeldAt(w, j, f.name, f.data, a.dict)

DictAdded(a, w, lost) ==
    (a.dict # "none" /\ ~lost) => \E j : HeldAt(w, j, ZDICT_ENTRY, a.dict, "none")

InCarry(a, s, w, n) ==
    /\ WriterOK(w) /\ s = SourceOf(a) /\ s.ok /\ n \in Nat /\ n <= Len(s.recs) /\ Len(w.dir) <= Max16
    /\ \A k \in 1 .. n : file_stat(s.recs[k]).ok
    /\ CarriedAt(a, s, w, n)

InDict(a, s, w, b) ==
    /\ WriterOK(w) /\ s = SourceOf(a) /\ CarriedAt(a, s, w, Len(s.recs)) /\ b = BaseOf(a, s)

InWalk(a, s, w, n, b, lost) ==
    /\ InDict(a, s, w, b) /\ n \in Nat /\ n <= Len(a.tree)
    /\ DictAdded(a, w, lost) /\ VisitedAt(a, w, n)

(* w is the writer before it was closed. *)
InClosed(a, s, z, b, lost, w) ==
    /\ WriterOK(w) /\ (\E r \in finalize_archive(w) : r.ok /\ r.w = z)
    /\ s = SourceOf(a) /\ (a.base < 0 => b = BaseOf(a, s)) /\ CarriedAt(a, s, w, Len(s.recs))
    /\ DictAdded(a, w, lost) /\ VisitedAt(a, w, Len(a.tree))

IInv ==
    /\ TypeOK
    /\ pc = "start" => g_zip = writer_init /\ src = NoArchive /\ i = 0
    /\ pc = "carry" => InCarry(args, src, g_zip, i)
    /\ pc = "dict" => i = 0 /\ InDict(args, src, g_zip, base)
    /\ pc = "walk" => InWalk(args, src, g_zip, i, base, dictLost)
    /\ pc = "adjust" =>
        /\ i = Len(args.tree) /\ out = g_zip.file
        /\ \E w : InClosed(args, src, g_zip, base, dictLost, w)
    /\ Success => \E w : InClosed(args, src, g_zip, base, dictLost, w) /\ Made(w, g_zip, base, out)

(* What is held stays held. *)
LEMMA HeldOn ==
    ASSUME NEW w, WriterOK(w), NEW w2, w2.ofs \in Nat, FileOK(w2.file), Grows(w, w2),
           NEW k, NEW name, NEW data, NEW dict, HeldAt(w, k, name, data, dict)
    PROVE  HeldAt(w2, k, name, data, dict)
<1>1. w.ofs \in Nat /\ FileOK(w.file) /\ w.ofs <= w.file.size /\ w.dir \in Seq(Record)
  BY DEF WriterOK
<1>2. k \in DOMAIN w.dir
  BY DEF HeldAt
<1>3. w.dir[k] \in Record
  BY <1>1, <1>2
<1>4. file_stat(w.dir[k]).ok => file_stat(w.dir[k]).ofs \in Nat
  BY <1>3, StatNat
<1>. QED
  BY <1>1, <1>3, <1>4, HeldStays

LEMMA WriterGrew ==
    ASSUME NEW w, WriterOK(w), NEW w2, WriterOK(w2), Grows(w, w2)
    PROVE  /\ \A a, s, n : CarriedAt(a, s, w, n) => CarriedAt(a, s, w2, n)
           /\ \A a, n : VisitedAt(a, w, n) => VisitedAt(a, w2, n)
           /\ \A a, lost : DictAdded(a, w, lost) => DictAdded(a, w2, lost)
<1>1. w2.ofs \in Nat /\ FileOK(w2.file)
  BY DEF WriterOK
<1>2. \A k, name, data, dict : HeldAt(w, k, name, data, dict) => HeldAt(w2, k, name, data, dict)
  BY <1>1, HeldOn
<1>3. \A a, s, n : CarriedAt(a, s, w, n) => CarriedAt(a, s, w2, n)
  BY <1>2, Zenon DEF CarriedAt
<1>4. \A a, n : VisitedAt(a, w, n) => VisitedAt(a, w2, n)
  BY <1>2, Zenon DEF VisitedAt
<1>5. \A a, lost : DictAdded(a, w, lost) => DictAdded(a, w2, lost)
  BY <1>2, Zenon DEF DictAdded
<1>. QED
  BY <1>3, <1>4, <1>5

LEMMA HeldAny ==
    ASSUME NEW w, NEW k, NEW name, NEW data, NEW dict, HeldAt(w, k, name, data, "none")
    PROVE  HeldAt(w, k, name, data, dict)
BY ExtractNone DEF HeldAt

(* ---- What the reader has opened for --carry. ---- *)
LEMMA SourceIs ==
    ASSUME NEW a \in Inputs
    PROVE  LET s == SourceOf(a) IN
           /\ s.ok \in BOOLEAN /\ s.zip64 \in BOOLEAN /\ s.recs \in Seq(Record)
           /\ s.ok => a.carry.given /\ Carriable(a.carry)
           /\ ~s.ok => s.recs = << >>
           /\ s.ok => \A k \in DOMAIN s.recs :
                /\ RecordIsSane(a.carry.file, s.recs[k])
                /\ ~s.zip64 => ~UsesExtended(s.recs[k])
           /\ a.carry.given => Carriable(a.carry)
           /\ a.carry.given \in BOOLEAN
<1>. DEFINE s == SourceOf(a)
            file == a.carry.file
<1>1. a.carry = NoCarry \/ (a.carry.given /\ Carriable(a.carry))
  BY PackerAssumption
<1>2. NoArchive.ok = FALSE /\ NoArchive.zip64 = FALSE /\ NoArchive.recs = << >> /\ << >> \in Seq(Record)
  BY DEF NoArchive
<1>3. CASE ~a.carry.given
  <2>1. s = NoArchive /\ a.carry = NoCarry
    BY <1>1, <1>3 DEF SourceOf
  <2>2. a.carry.given = FALSE
    BY <2>1 DEF NoCarry
  <2>. HIDE DEF s
  <2>. QED
    BY <1>2, <1>3, <2>1, <2>2 DEF s
<1>4. CASE a.carry.given
  <2>1. Carriable(a.carry) /\ s = read_central_dir(file)
    BY <1>1, <1>4 DEF SourceOf, NoCarry
  <2>. DEFINE end == LastEnd(file)
              e == EndFields(file, end)
              R == RecordsOf(file, e)
              none == file.size < END_HEADER \/ EndRecords(file) = {}
              bad == \/ HasLocator(file, end) /\ LocatorOfs(file, end) > file.size - END64_HEADER
                     \/ e.size < e.total * CENTRAL_HEADER
                     \/ e.ofs + e.size > file.size
                     \/ ~DirectoryIsThere(file, e)
              insane == \E k \in DOMAIN R : ~RecordIsSane(file, R[k])
              is64 == IsZip64(file, end) \/ \E k \in DOMAIN R : UsesExtended(R[k])
              answer == [ok |-> TRUE, recs |-> R, zip64 |-> is64]
  <2>2. s = IF none THEN NoArchive ELSE IF bad THEN NoArchive ELSE IF insane THEN NoArchive ELSE answer
    BY <2>1 DEF read_central_dir
  <2>3. s.recs \in Seq(Record)
    BY <2>1 DEF Carriable
  <2>4. answer.ok = TRUE /\ answer.recs = R /\ answer.zip64 = is64 /\ is64 \in BOOLEAN
    <3>. HIDE DEF R, end
    <3>. QED
      OBVIOUS
  <2>5. a.carry.given \in BOOLEAN
    BY <1>1, <1>4 DEF NoCarry
  <2>. HIDE DEF s, answer, none, bad
  <2>6. CASE s = NoArchive
    BY <1>2, <1>4, <2>1, <2>3, <2>5, <2>6 DEF s
  <2>7. CASE s = answer /\ ~insane
    <3>1. \A k \in DOMAIN R : RecordIsSane(file, R[k]) /\ (~is64 => ~UsesExtended(R[k]))
      BY <2>7
    <3>. HIDE DEF R, is64
    <3>. QED
      BY <1>4, <2>1, <2>3, <2>4, <2>5, <2>7, <3>1 DEF s
  <2>. QED
    BY <2>2, <2>6, <2>7
<1>. QED
  BY <1>3, <1>4

(* ---- The steps, phase by phase. ---- *)
LEMMA WriterInit ==
    WriterOK(writer_init) /\ writer_init.dir = << >>
<1>1. /\ Empty.size = 0 /\ Empty.at = << >>
  BY DEF Empty
<1>2. DOMAIN Empty.at = {}
  BY <1>1
<1>3. FileOK(Empty) /\ PartsOnly(Empty)
  BY <1>1, <1>2 DEF FileOK, PartsOnly
<1>4. << >> \in Seq(Record) /\ Len(<< >>) = 0 /\ DOMAIN << >> = {}
  OBVIOUS
<1>. DEFINE w == writer_init
<1>5. /\ w.file = Empty /\ w.ofs = 0 /\ w.dir = << >> /\ w.dirsize = 0 /\ w.zip64 = FALSE
      /\ w.mode = "writing" /\ Shape(w)
  BY DEF writer_init, Shape
<1>. HIDE DEF w
<1>6. w.ofs <= w.file.size /\ w.dirsize >= CENTRAL_HEADER * Len(w.dir)
  <2>1. Len(w.dir) = 0 /\ w.ofs = 0 /\ w.dirsize = 0 /\ w.file.size = 0
    BY <1>1, <1>4, <1>5
  <2>. QED
    BY <2>1 DEF CENTRAL_HEADER
<1>7. \A k \in DOMAIN w.dir : RecOK(w.dir[k], w.ofs)
  BY <1>4, <1>5
<1>8. w.dir \in Seq(Record) /\ w.ofs \in Nat /\ w.dirsize \in Nat /\ w.zip64 \in BOOLEAN
      /\ FileOK(w.file) /\ PartsOnly(w.file)
  <2>1. 0 \in Nat /\ FALSE \in BOOLEAN
    OBVIOUS
  <2>. QED
    BY <1>3, <1>4, <1>5, <2>1, Zenon
<1>9. WriterOK(w)
  BY <1>5, <1>6, <1>7, <1>8, Zenon DEF WriterOK
<1>. QED
  BY <1>5, <1>9 DEF w
LEMMA StartStep ==
    ASSUME NEW a \in Inputs, NEW s, s = SourceOf(a), NEW b,
           b = IF a.carry.given /\ ~s.ok THEN a.carry.file.size ELSE 0
    PROVE  /\ s.ok => InCarry(a, s, writer_init, 0)
           /\ ~s.ok => InDict(a, s, writer_init, b)
           /\ b \in Nat
<1>1. /\ s.recs \in Seq(Record) /\ (s.ok => a.carry.given) /\ (~s.ok => s.recs = << >>)
      /\ a.carry.given => Carriable(a.carry)
  BY SourceIs
<1>2. b \in Nat
  BY <1>1 DEF Carriable
<1>3. \A w : CarriedAt(a, s, w, 0)
  BY DEF CarriedAt
<1>4. s.ok => InCarry(a, s, writer_init, 0)
  <2>1. Len(s.recs) \in Nat
    BY <1>1
  <2>2. Len(writer_init.dir) = 0 /\ Max16 \in Nat
    BY WriterInit, LayoutAssumption
  <2>. QED
    BY <1>3, <2>1, <2>2, WriterInit DEF InCarry
<1>5. ~s.ok => InDict(a, s, writer_init, b)
  <2>1. ~s.ok => Len(s.recs) = 0
    BY <1>1
  <2>2. ~s.ok => b = BaseOf(a, s)
    BY <1>1 DEF BaseOf
  <2>. QED
    BY <1>3, <2>1, <2>2, WriterInit DEF InDict
<1>. QED
  BY <1>2, <1>4, <1>5

(* One more entry is carried, or dropped. *)
LEMMA CarryStep ==
    ASSUME NEW a \in Inputs, NEW s, NEW w, NEW n, InCarry(a, s, w, n), n < Len(s.recs),
           file_stat(s.recs[n + 1]).ok
    PROVE  /\ Dropped(s.recs[n + 1]) => InCarry(a, s, w, n + 1)
           /\ \A r \in add_from_zip_reader(w, a.carry.file, s.zip64, s.recs[n + 1],
                                           file_stat(s.recs[n + 1]).ofs, file_stat(s.recs[n + 1]).comp) :
                r.ok => InCarry(a, s, r.w, n + 1)
<1>. DEFINE rec == s.recs[n + 1]
            from == a.carry.file
<1>1. WriterOK(w) /\ s = SourceOf(a) /\ s.ok /\ n \in Nat /\ n <= Len(s.recs) /\ Len(w.dir) <= Max16
      /\ (\A k \in 1 .. n : file_stat(s.recs[k]).ok) /\ CarriedAt(a, s, w, n)
  BY DEF InCarry
<1>2. /\ s.zip64 \in BOOLEAN /\ s.recs \in Seq(Record) /\ Carriable(a.carry)
      /\ \A k \in DOMAIN s.recs : RecordIsSane(from, s.recs[k]) /\ (~s.zip64 => ~UsesExtended(s.recs[k]))
  BY <1>1, SourceIs
<1>3. Len(s.recs) \in Nat /\ n + 1 \in DOMAIN s.recs /\ n + 1 <= Len(s.recs) /\ n + 1 \in Nat
  BY <1>1, <1>2
<1>4. rec \in Record /\ RecordIsSane(from, rec) /\ (~s.zip64 => ~UsesExtended(rec))
  BY <1>2, <1>3
<1>5. FileOK(from) /\ WellFormed(from, file_stat(rec))
  <2>1. from.size \in Nat /\ DOMAIN from.at \subseteq Nat
    BY <1>2 DEF Carriable
  <2>2. \A k \in DOMAIN read_central_dir(from).recs :
            WellFormed(from, file_stat(read_central_dir(from).recs[k]))
    BY <1>2 DEF Carriable
  <2>3. s = read_central_dir(from)
    BY <1>1, SourceIs DEF SourceOf
  <2>. QED
    BY <1>3, <2>1, <2>2, <2>3 DEF FileOK
<1>6. \A k \in 1 .. n + 1 : file_stat(s.recs[k]).ok
  BY <1>1
<1>7. \A k \in 1 .. n + 1 : k \in 1 .. n \/ k = n + 1
  BY <1>1
<1>. HIDE DEF rec
<1>8. ASSUME Dropped(rec)
      PROVE  InCarry(a, s, w, n + 1)
  <2>1. CarriedAt(a, s, w, n + 1)
    BY <1>1, <1>7, <1>8 DEF CarriedAt, rec
  <2>. QED
    BY <1>1, <1>3, <1>6, <2>1 DEF InCarry
<1>9. ASSUME NEW r \in add_from_zip_reader(w, from, s.zip64, rec, file_stat(rec).ofs, file_stat(rec).comp),
             r.ok
      PROVE  InCarry(a, s, r.w, n + 1)
  <2>1. CarryOK(w, from, rec, s.zip64)
    BY <1>1, <1>4, <1>5 DEF CarryOK, rec
  <2>2. /\ WriterOK(r.w) /\ Grows(w, r.w) /\ Len(w.dir) # Max16 /\ Len(r.w.dir) = Len(w.dir) + 1
        /\ \A data, dict : extract(from, rec, dict) = HasData(data) =>
             HeldAt(r.w, Len(r.w.dir), rec.name, data, dict)
    BY <1>2, <1>4, <1>9, <2>1, CarryOne
  <2>3. Len(r.w.dir) <= Max16
    <3>1. Len(w.dir) \in Nat /\ Max16 \in Nat
      BY <1>1, PlacesIs, LayoutAssumption
    <3>. QED
      BY <1>1, <2>2, <3>1
  <2>4. CarriedAt(a, s, r.w, n)
    BY <1>1, <2>2, WriterGrew
  <2>5. CarriedAt(a, s, r.w, n + 1)
    <3>. SUFFICES ASSUME NEW k \in 1 .. n + 1, NEW data, NEW dict, ~Dropped(s.recs[k]),
                         extract(from, s.recs[k], dict) = HasData(data)
                  PROVE  \E j : j <= Max16 /\ HeldAt(r.w, j, s.recs[k].name, data, dict)
      BY DEF CarriedAt
    <3>1. CASE k \in 1 .. n
      BY <2>4, <3>1 DEF CarriedAt
    <3>2. CASE k = n + 1
      BY <2>2, <2>3, <3>2 DEF rec
    <3>. QED
      BY <1>7, <3>1, <3>2
  <2>. QED
    BY <1>1, <1>3, <1>6, <2>2, <2>3, <2>5 DEF InCarry
<1>. QED
  BY <1>8, <1>9 DEF rec

(* The lowest offset is where the archive of FILE began. *)
LEMMA CarryEndsStep ==
    ASSUME NEW a \in Inputs, NEW s, NEW w, NEW n, InCarry(a, s, w, n), n = Len(s.recs), NEW b,
           b = IF s.recs = << >> THEN a.carry.file.size ELSE minofs(s.recs)
    PROVE  InDict(a, s, w, b) /\ b \in Nat
<1>. DEFINE offsets == {file_stat(s.recs[k]).ofs : k \in DOMAIN s.recs}
            program == a.carry.program
<1>1. WriterOK(w) /\ s = SourceOf(a) /\ s.ok /\ (\A k \in 1 .. n : file_stat(s.recs[k]).ok)
      /\ CarriedAt(a, s, w, Len(s.recs))
  BY DEF InCarry
<1>2. s.recs \in Seq(Record) /\ Carriable(a.carry) /\ a.carry.given
  BY <1>1, SourceIs
<1>3. s.recs = read_central_dir(a.carry.file).recs
  BY <1>1, <1>2 DEF SourceOf
<1>4. program \in Nat /\ a.carry.file.size \in Nat /\ BeginsAt(program, s.recs)
  BY <1>2, <1>3 DEF Carriable
<1>5. \A k \in DOMAIN s.recs : file_stat(s.recs[k]).ok /\ file_stat(s.recs[k]).ofs \in Nat
  <2>. SUFFICES ASSUME NEW k \in DOMAIN s.recs
                PROVE  file_stat(s.recs[k]).ok /\ file_stat(s.recs[k]).ofs \in Nat
    OBVIOUS
  <2>1. s.recs[k] \in Record /\ k \in 1 .. n
    BY <1>2
  <2>. QED
    BY <1>1, <2>1, StatNat
<1>6. s.recs # << >> => minofs(s.recs) = program
  <2>. SUFFICES ASSUME s.recs # << >>
                PROVE  minofs(s.recs) = program
    OBVIOUS
  <2>1. program \in offsets /\ \A o \in offsets : program <= o
    BY <1>5, <1>4 DEF BeginsAt
  <2>2. offsets \subseteq Nat
    BY <1>5
  <2>3. minofs(s.recs) = CHOOSE lowest \in offsets : \A o \in offsets : lowest <= o
    BY DEF minofs, Lowest
  <2>. HIDE DEF offsets
  <2>4. \E lowest \in offsets : \A o \in offsets : lowest <= o
    BY <2>1
  <2>5. minofs(s.recs) \in offsets /\ \A o \in offsets : minofs(s.recs) <= o
    BY <2>3, <2>4
  <2>6. minofs(s.recs) <= program /\ program <= minofs(s.recs) /\ minofs(s.recs) \in Nat
    BY <2>1, <2>2, <2>5
  <2>. QED
    BY <1>4, <2>6
<1>7. b = BaseOf(a, s)
  BY <1>2, <1>6 DEF BaseOf
<1>. QED
  BY <1>1, <1>4, <1>6, <1>7 DEF InDict

(* The dictionary is in, or lost. *)
LEMMA DictStep ==
    ASSUME NEW a \in Inputs, NEW s, NEW w, NEW b, InDict(a, s, w, b)
    PROVE  /\ \A lost : a.dict = "none" => InWalk(a, s, w, 0, b, lost)
           /\ a.dict # "none" => \A r \in add_mem(w, ZDICT_ENTRY, a.dict, "store", "none") :
                InWalk(a, s, r.w, 0, b, ~r.ok)
<1>1. WriterOK(w) /\ s = SourceOf(a) /\ CarriedAt(a, s, w, Len(s.recs)) /\ b = BaseOf(a, s)
  BY DEF InDict
<1>2. Len(a.tree) \in Nat
  BY PackerAssumption
<1>3. \A x : VisitedAt(a, x, 0)
  BY DEF VisitedAt, FilesTo
<1>4. ASSUME NEW lost, a.dict = "none"
      PROVE  InWalk(a, s, w, 0, b, lost)
  BY <1>2, <1>3, <1>4 DEF InWalk, DictAdded
<1>5. ASSUME a.dict # "none", NEW r \in add_mem(w, ZDICT_ENTRY, a.dict, "store", "none")
      PROVE  InWalk(a, s, r.w, 0, b, ~r.ok)
  <2>1. a.dict \in Content /\ ZDICT_ENTRY \in Seq(Char) /\ ~IsDirName(ZDICT_ENTRY)
    BY <1>5, PackerAssumption
  <2>2. "store" \in METHODS
    BY DEF METHODS
  <2>3. WriterOK(r.w) /\ Grows(w, r.w) /\ (r.ok => HeldAt(r.w, Len(r.w.dir), ZDICT_ENTRY, a.dict, "none"))
    BY <1>1, <1>5, <2>1, <2>2, AddMem
  <2>4. CarriedAt(a, s, r.w, Len(s.recs))
    BY <1>1, <2>3, WriterGrew
  <2>5. DictAdded(a, r.w, ~r.ok)
    BY <2>3 DEF DictAdded
  <2>. QED
    BY <1>1, <1>2, <1>3, <2>3, <2>4, <2>5 DEF InWalk, InDict
<1>. QED
  BY <1>4, <1>5

(* A directory of the tree: its record may be lost, and nothing else is.    *)
LEMMA DirStep ==
    ASSUME NEW a \in Inputs, NEW s, NEW w, NEW n, NEW b, NEW lost, InWalk(a, s, w, n, b, lost),
           n < Len(a.tree), a.tree[n + 1].type = "FTW_D",
           NEW r \in add_mem(w, Append(a.tree[n + 1].name, 47), "nothing", "store", "none")
    PROVE  InWalk(a, s, r.w, n + 1, b, lost)
<1>. DEFINE name == Append(a.tree[n + 1].name, 47)
<1>1. /\ WriterOK(w) /\ s = SourceOf(a) /\ b = BaseOf(a, s) /\ CarriedAt(a, s, w, Len(s.recs))
      /\ n \in Nat /\ n <= Len(a.tree) /\ DictAdded(a, w, lost) /\ VisitedAt(a, w, n)
  BY DEF InWalk, InDict
<1>2. /\ a.tree \in Seq({a.tree[k] : k \in DOMAIN a.tree}) /\ 47 \in Char
      /\ \A k \in DOMAIN a.tree : Visitable(a.tree[k])
  BY PackerAssumption
<1>3. Len(a.tree) \in Nat /\ n + 1 \in DOMAIN a.tree /\ n + 1 \in Nat /\ n + 1 <= Len(a.tree)
  BY <1>1, <1>2
<1>4. a.tree[n + 1].name \in Seq(Char)
  BY <1>2, <1>3 DEF Visitable
<1>5. name \in Seq(Char) /\ "nothing" \in Content /\ "store" \in METHODS
  BY <1>2, <1>4, LayoutAssumption DEF METHODS
<1>6. IsDirName(name) => "nothing" = "nothing"
  OBVIOUS
<1>. HIDE DEF name
<1>7. r \in add_mem(w, name, "nothing", "store", "none")
  BY DEF name
<1>8. WriterOK(r.w) /\ Grows(w, r.w)
  BY <1>1, <1>5, <1>6, <1>7, AddMem
<1>9. CarriedAt(a, s, r.w, Len(s.recs)) /\ DictAdded(a, r.w, lost) /\ VisitedAt(a, r.w, n)
  BY <1>1, <1>8, WriterGrew
<1>10. FilesTo(a, n + 1) \subseteq FilesTo(a, n)
  BY <1>1 DEF FilesTo
<1>11. VisitedAt(a, r.w, n + 1)
  BY <1>9, <1>10 DEF VisitedAt
<1>. QED
  BY <1>1, <1>3, <1>8, <1>9, <1>11 DEF InWalk, InDict

(* A link, or a directory that cannot be read. *)
LEMMA OtherStep ==
    ASSUME NEW a \in Inputs, NEW s, NEW w, NEW n, NEW b, NEW lost, InWalk(a, s, w, n, b, lost),
           n < Len(a.tree), a.tree[n + 1].type # "FTW_F"
    PROVE  InWalk(a, s, w, n + 1, b, lost)
<1>1. n \in Nat /\ VisitedAt(a, w, n) /\ InDict(a, s, w, b) /\ DictAdded(a, w, lost)
  BY DEF InWalk
<1>2. Len(a.tree) \in Nat
  BY PackerAssumption
<1>3. FilesTo(a, n + 1) \subseteq FilesTo(a, n)
  BY <1>1 DEF FilesTo
<1>4. VisitedAt(a, w, n + 1)
  BY <1>1, <1>3 DEF VisitedAt
<1>. QED
  BY <1>1, <1>2, <1>4 DEF InWalk

(* A file that went in. *)
LEMMA FileStep ==
    ASSUME NEW a \in Inputs, NEW s, NEW w, NEW n, NEW b, NEW lost, InWalk(a, s, w, n, b, lost),
           n < Len(a.tree), a.tree[n + 1].type = "FTW_F",
           NEW r, r.ok,
           LET f == a.tree[n + 1] IN
           r \in IF f.deflate THEN add_mem(w, f.name, f.data, "deflate", "none")
                 ELSE add_mem(w, f.name, f.data, "zstd", a.dict)
    PROVE  InWalk(a, s, r.w, n + 1, b, lost)
<1>. DEFINE f == a.tree[n + 1]
<1>1. /\ WriterOK(w) /\ s = SourceOf(a) /\ b = BaseOf(a, s) /\ CarriedAt(a, s, w, Len(s.recs))
      /\ n \in Nat /\ n <= Len(a.tree) /\ DictAdded(a, w, lost) /\ VisitedAt(a, w, n)
  BY DEF InWalk, InDict
<1>2. /\ a.tree \in Seq({a.tree[k] : k \in DOMAIN a.tree})
      /\ \A k \in DOMAIN a.tree : Visitable(a.tree[k])
  BY PackerAssumption
<1>3. Len(a.tree) \in Nat /\ n + 1 \in DOMAIN a.tree /\ n + 1 \in Nat /\ n + 1 <= Len(a.tree)
  BY <1>1, <1>2
<1>4. f.name \in Seq(Char) /\ ~IsDirName(f.name) /\ f.data \in Content
  BY <1>2, <1>3 DEF Visitable
<1>5. "deflate" \in METHODS /\ "zstd" \in METHODS
  BY DEF METHODS
<1>6. WriterOK(r.w) /\ Grows(w, r.w) /\ HeldAt(r.w, Len(r.w.dir), f.name, f.data, a.dict)
  <2>. HIDE DEF f
  <2>1. CASE f.deflate
    <3>1. r \in add_mem(w, f.name, f.data, "deflate", "none")
      BY <2>1 DEF f
    <3>2. WriterOK(r.w) /\ Grows(w, r.w) /\ HeldAt(r.w, Len(r.w.dir), f.name, f.data, "none")
      BY <1>1, <1>4, <1>5, <3>1, AddMem
    <3>. QED
      BY <3>2, HeldAny
  <2>2. CASE ~f.deflate
    <3>1. r \in add_mem(w, f.name, f.data, "zstd", a.dict)
      BY <2>2 DEF f
    <3>. QED
      BY <1>1, <1>4, <1>5, <3>1, AddMem
  <2>. QED
    BY <2>1, <2>2
<1>7. CarriedAt(a, s, r.w, Len(s.recs)) /\ DictAdded(a, r.w, lost) /\ VisitedAt(a, r.w, n)
  BY <1>1, <1>6, WriterGrew
<1>8. \A x \in FilesTo(a, n + 1) : x \in FilesTo(a, n) \/ x = f
  BY <1>1 DEF FilesTo
<1>9. VisitedAt(a, r.w, n + 1)
  BY <1>6, <1>7, <1>8 DEF VisitedAt
<1>. QED
  BY <1>1, <1>3, <1>6, <1>7, <1>9 DEF InWalk, InDict

LEMMA FinalizeStep ==
    ASSUME NEW a \in Inputs, NEW s, NEW w, NEW n, NEW b, NEW lost, InWalk(a, s, w, n, b, lost),
           n = Len(a.tree), NEW r \in finalize_archive(w), r.ok
    PROVE  InClosed(a, s, r.w, IF a.base >= 0 THEN a.base ELSE b, lost, w)
<1>1. /\ WriterOK(w) /\ s = SourceOf(a) /\ b = BaseOf(a, s) /\ CarriedAt(a, s, w, Len(s.recs))
      /\ DictAdded(a, w, lost) /\ VisitedAt(a, w, n)
  BY DEF InWalk, InDict
<1>2. a.base \in Int
  BY PackerAssumption
<1>3. a.base < 0 => (IF a.base >= 0 THEN a.base ELSE b) = BaseOf(a, s)
  BY <1>1, <1>2
<1>. QED
  BY <1>1, <1>3 DEF InClosed

-----------------------------------------------------------------------------
LEMMA InitInv == Init => IInv
<1>. SUFFICES ASSUME Init
              PROVE  IInv
  OBVIOUS
<1>1. pc = "start" /\ exit = -1 /\ TypeOK
  BY DEF Init, TypeOK
<1>2. g_zip = writer_init /\ src = NoArchive /\ i = 0
  BY DEF Init
<1>. QED
  BY <1>1, <1>2 DEF IInv, Success

(* A packer that stops without success promises nothing. *)
LEMMA Stops ==
    ASSUME TypeOK', pc' = "end", exit' # 0
    PROVE  IInv'
BY DEF IInv, Success

LEMMA StartInv ==
    ASSUME IInv, Start \/ StartFails
    PROVE  IInv'
<1>1. TypeOK /\ args \in Inputs /\ pc = "start" /\ g_zip = writer_init /\ i = 0
  BY DEF IInv, TypeOK, Start, StartFails
<1>2. CASE Start
  <2>1. /\ src' = SourceOf(args) /\ base' = IF args.carry.given /\ ~src'.ok THEN args.carry.file.size ELSE 0
        /\ pc' = IF src'.ok THEN "carry" ELSE "dict"
        /\ args' = args /\ g_zip' = g_zip /\ i' = i /\ dictLost' = dictLost /\ out' = out /\ exit' = exit
    BY <1>2 DEF Start, SourceOf
  <2>2. /\ src'.ok => InCarry(args, src', writer_init, 0)
        /\ ~src'.ok => InDict(args, src', writer_init, base')
        /\ base' \in Nat
    BY <1>1, <2>1, StartStep
  <2>3. TypeOK'
    BY <1>1, <2>1, <2>2 DEF TypeOK
  <2>4. CASE src'.ok
    <3>1. pc' = "carry" /\ InCarry(args', src', g_zip', i')
      BY <1>1, <2>1, <2>2, <2>4
    <3>. QED
      BY <2>3, <3>1 DEF IInv, Success
  <2>5. CASE ~src'.ok
    <3>1. pc' = "dict" /\ InDict(args', src', g_zip', base') /\ i' = 0
      BY <1>1, <2>1, <2>2, <2>5
    <3>. QED
      BY <2>3, <3>1 DEF IInv, Success
  <2>. QED
    BY <2>4, <2>5
<1>3. CASE StartFails
  <2>1. TypeOK' /\ pc' = "end" /\ exit' # 0
    BY <1>1, <1>3 DEF StartFails, Exit, TypeOK
  <2>. QED
    BY <2>1, Stops
<1>. QED
  BY <1>2, <1>3

LEMMA CarryInv ==
    ASSUME IInv, CarryEntry
    PROVE  IInv'
<1>. DEFINE rec == src.recs[i + 1]
            st == file_stat(rec)
            results == add_from_zip_reader(g_zip, args.carry.file, src.zip64, rec, st.ofs, st.comp)
<1>1. /\ TypeOK /\ args \in Inputs /\ pc = "carry" /\ i < Len(src.recs) /\ InCarry(args, src, g_zip, i)
      /\ i \in Nat
  BY DEF IInv, TypeOK, CarryEntry
<1>2. args' = args /\ src' = src /\ base' = base /\ dictLost' = dictLost /\ out' = out
  BY DEF CarryEntry
<1>3. \/ ~st.ok /\ exit' = 1 /\ pc' = "end" /\ i' = i
      \/ st.ok /\ Dropped(rec) /\ i' = i + 1 /\ g_zip' = g_zip /\ exit' = exit /\ pc' = pc
      \/ st.ok /\ \E r \in results : g_zip' = r.w /\ r.ok /\ i' = i + 1 /\ exit' = exit /\ pc' = pc
      \/ exit' = 1 /\ pc' = "end" /\ i' = i
  BY DEF CarryEntry, Exit
<1>. HIDE DEF results, rec
<1>4. CASE exit' = 1 /\ pc' = "end" /\ i' = i
  <2>1. TypeOK'
    BY <1>1, <1>2, <1>4 DEF TypeOK
  <2>. QED
    BY <1>4, <2>1, Stops
<1>5. CASE st.ok /\ Dropped(rec) /\ i' = i + 1 /\ g_zip' = g_zip /\ exit' = exit /\ pc' = pc
  <2>1. InCarry(args, src, g_zip, i + 1)
    BY <1>1, <1>5, CarryStep DEF rec
  <2>2. TypeOK' /\ pc' = "carry" /\ InCarry(args', src', g_zip', i')
    BY <1>1, <1>2, <1>5, <2>1 DEF TypeOK
  <2>. QED
    BY <2>2 DEF IInv, Success
<1>6. CASE st.ok /\ \E r \in results : g_zip' = r.w /\ r.ok /\ i' = i + 1 /\ exit' = exit /\ pc' = pc
  <2>1. PICK r \in results : g_zip' = r.w /\ r.ok /\ i' = i + 1 /\ exit' = exit /\ pc' = pc
    BY <1>6
  <2>2. InCarry(args, src, r.w, i + 1)
    BY <1>1, <1>6, <2>1, CarryStep DEF rec, results
  <2>3. TypeOK' /\ pc' = "carry" /\ InCarry(args', src', g_zip', i')
    BY <1>1, <1>2, <2>1, <2>2 DEF TypeOK
  <2>. QED
    BY <2>3 DEF IInv, Success
<1>. QED
  BY <1>3, <1>4, <1>5, <1>6

LEMMA CarryEndsInv ==
    ASSUME IInv, CarryEnds
    PROVE  IInv'
<1>1. TypeOK /\ args \in Inputs /\ pc = "carry" /\ i = Len(src.recs) /\ InCarry(args, src, g_zip, i)
  BY DEF IInv, TypeOK, CarryEnds
<1>2. /\ base' = IF src.recs = << >> THEN args.carry.file.size ELSE minofs(src.recs)
      /\ i' = 0 /\ pc' = "dict"
      /\ args' = args /\ g_zip' = g_zip /\ src' = src /\ dictLost' = dictLost /\ out' = out /\ exit' = exit
  BY DEF CarryEnds
<1>3. InDict(args, src, g_zip, base') /\ base' \in Nat
  BY <1>1, <1>2, CarryEndsStep
<1>4. TypeOK' /\ InDict(args', src', g_zip', base')
  BY <1>1, <1>2, <1>3 DEF TypeOK
<1>. QED
  BY <1>2, <1>4 DEF IInv, Success

LEMMA DictInv ==
    ASSUME IInv, StoreDict
    PROVE  IInv'
<1>1. TypeOK /\ args \in Inputs /\ pc = "dict" /\ i = 0 /\ InDict(args, src, g_zip, base)
  BY DEF IInv, TypeOK, StoreDict
<1>2. /\ pc' = "walk" /\ args' = args /\ src' = src /\ i' = i /\ base' = base /\ out' = out /\ exit' = exit
  BY DEF StoreDict
<1>3. InWalk(args, src, g_zip', 0, base, dictLost') /\ dictLost' \in BOOLEAN
  <2>1. CASE args.dict = "none"
    <3>1. g_zip' = g_zip /\ dictLost' = dictLost
      BY <2>1 DEF StoreDict
    <3>. QED
      BY <1>1, <2>1, <3>1, DictStep DEF TypeOK
  <2>2. CASE args.dict # "none"
    <3>1. PICK r \in add_mem(g_zip, ZDICT_ENTRY, args.dict, "store", "none") :
                g_zip' = r.w /\ dictLost' = ~r.ok
      BY <2>2 DEF StoreDict
    <3>. QED
      BY <1>1, <2>2, <3>1, DictStep
  <2>. QED
    BY <2>1, <2>2
<1>4. TypeOK'
  BY <1>1, <1>2, <1>3 DEF TypeOK
<1>5. InWalk(args', src', g_zip', i', base', dictLost')
  BY <1>1, <1>2, <1>3
<1>. QED
  BY <1>2, <1>4, <1>5 DEF IInv, Success

LEMMA VisitInv ==
    ASSUME IInv, VisitDir \/ VisitOther \/ VisitFile \/ ReadFails
    PROVE  IInv'
<1>. DEFINE f == args.tree[i + 1]
<1>1. /\ TypeOK /\ args \in Inputs /\ pc = "walk" /\ i < Len(args.tree) /\ i \in Nat
      /\ InWalk(args, src, g_zip, i, base, dictLost)
  BY DEF IInv, TypeOK, VisitDir, VisitOther, VisitFile, ReadFails, Walking
<1>2. args' = args /\ src' = src /\ base' = base /\ dictLost' = dictLost /\ out' = out
  BY DEF VisitDir, VisitOther, VisitFile, ReadFails
<1>3. ASSUME i' = i + 1, pc' = pc, exit' = exit, InWalk(args, src, g_zip', i + 1, base, dictLost)
      PROVE  IInv'
  <2>1. TypeOK' /\ pc' = "walk" /\ InWalk(args', src', g_zip', i', base', dictLost')
    BY <1>1, <1>2, <1>3 DEF TypeOK
  <2>. QED
    BY <2>1 DEF IInv, Success
<1>4. ASSUME i' = i, pc' = "end", exit' = 1
      PROVE  IInv'
  <2>1. TypeOK'
    BY <1>1, <1>2, <1>4 DEF TypeOK
  <2>. QED
    BY <1>4, <2>1, Stops
<1>5. CASE VisitDir
  <2>1. PICK r \in add_mem(g_zip, Append(f.name, 47), "nothing", "store", "none") : g_zip' = r.w
    BY <1>5 DEF VisitDir, Visited
  <2>2. f.type = "FTW_D" /\ i' = i + 1 /\ pc' = pc /\ exit' = exit
    BY <1>5 DEF VisitDir, Visited
  <2>3. InWalk(args, src, r.w, i + 1, base, dictLost)
    BY <1>1, <2>1, <2>2, DirStep
  <2>. QED
    BY <1>3, <2>1, <2>2, <2>3
<1>6. CASE VisitOther
  <2>1. f.type # "FTW_F" /\ i' = i + 1 /\ pc' = pc /\ exit' = exit /\ g_zip' = g_zip
    BY <1>6 DEF VisitOther, Visited
  <2>2. InWalk(args, src, g_zip, i + 1, base, dictLost)
    BY <1>1, <2>1, OtherStep
  <2>. QED
    BY <1>3, <2>1, <2>2
<1>7. CASE VisitFile
  <2>1. f.type = "FTW_F"
    BY <1>7 DEF VisitFile, Visited
  <2>2. PICK r \in AddFile(f) :
            /\ g_zip' = r.w
            /\ IF r.ok THEN i' = i + 1 /\ exit' = exit /\ pc' = pc ELSE exit' = 1 /\ pc' = "end" /\ i' = i
    BY <1>7 DEF VisitFile, Visited, Exit
  <2>3. CASE r.ok
    <3>1. r \in IF f.deflate THEN add_mem(g_zip, f.name, f.data, "deflate", "none")
                ELSE add_mem(g_zip, f.name, f.data, "zstd", args.dict)
      BY <2>2 DEF AddFile
    <3>2. InWalk(args, src, r.w, i + 1, base, dictLost)
      BY <1>1, <2>1, <2>3, <3>1, FileStep
    <3>. QED
      BY <1>3, <2>2, <2>3, <3>2
  <2>4. CASE ~r.ok
    BY <1>4, <2>2, <2>4
  <2>. QED
    BY <2>3, <2>4
<1>8. CASE ReadFails
  <2>1. i' = i /\ pc' = "end" /\ exit' = 1
    BY <1>8 DEF ReadFails, Exit
  <2>. QED
    BY <1>4, <2>1
<1>. QED
  BY <1>5, <1>6, <1>7, <1>8

LEMMA FinalizeInv ==
    ASSUME IInv, Finalize
    PROVE  IInv'
<1>1. /\ TypeOK /\ args \in Inputs /\ pc = "walk" /\ i = Len(args.tree)
      /\ InWalk(args, src, g_zip, i, base, dictLost)
  BY DEF IInv, TypeOK, Finalize
<1>2. args' = args /\ src' = src /\ i' = i /\ dictLost' = dictLost
      /\ base' = IF args.base >= 0 THEN args.base ELSE base
  BY DEF Finalize
<1>3. PICK r \in finalize_archive(g_zip) :
        /\ g_zip' = r.w /\ out' = r.w.file
        /\ IF r.ok THEN pc' = "adjust" /\ exit' = exit ELSE exit' = 1 /\ pc' = "end"
  BY DEF Finalize, Exit
<1>4. TypeOK'
  <2>1. args.base \in Int
    BY <1>1, PackerAssumption
  <2>2. base' \in Nat
    BY <1>1, <1>2, <2>1 DEF TypeOK
  <2>. QED
    BY <1>1, <1>2, <1>3, <2>2 DEF TypeOK
<1>5. CASE r.ok
  <2>1. InClosed(args, src, r.w, IF args.base >= 0 THEN args.base ELSE base, dictLost, g_zip)
    BY <1>1, <1>3, <1>5, FinalizeStep
  <2>2. InClosed(args', src', g_zip', base', dictLost', g_zip)
    BY <1>2, <1>3, <2>1
  <2>3. pc' = "adjust" /\ i' = Len(args'.tree) /\ out' = g_zip'.file
    BY <1>1, <1>2, <1>3, <1>5
  <2>. QED
    BY <1>4, <2>2, <2>3 DEF IInv, Success
<1>6. CASE ~r.ok
  <2>1. pc' = "end" /\ exit' # 0
    BY <1>3, <1>6
  <2>. QED
    BY <1>4, <2>1, Stops
<1>. QED
  BY <1>5, <1>6

LEMMA AdjustInv ==
    ASSUME IInv, Adjust \/ AdjustFails \/ NoAdjust
    PROVE  IInv'
<1>1. /\ TypeOK /\ args \in Inputs /\ pc = "adjust" /\ out = g_zip.file /\ base \in Nat
      /\ \E w : InClosed(args, src, g_zip, base, dictLost, w)
  BY DEF IInv, TypeOK, Adjust, AdjustFails, NoAdjust
<1>2. args' = args /\ src' = src /\ i' = i /\ dictLost' = dictLost /\ base' = base /\ g_zip' = g_zip
  BY DEF Adjust, AdjustFails, NoAdjust
<1>3. TypeOK'
  BY <1>1, <1>2 DEF TypeOK, Adjust, AdjustFails, NoAdjust, Exit
<1>4. PICK w : InClosed(args, src, g_zip, base, dictLost, w)
  BY <1>1
<1>5. ASSUME pc' = "end", exit' = 0,
             base = 0 => out' = g_zip.file,
             base # 0 => ~Refuses(g_zip.file, base)
                         /\ out' = WithEnd(WithDirectory(g_zip.file, base), base)
      PROVE  IInv'
  <2>1. Made(w, g_zip, base, out')
    BY <1>1, <1>4, <1>5 DEF InClosed, Made
  <2>2. InClosed(args', src', g_zip', base', dictLost', w) /\ Made(w, g_zip', base', out')
    BY <1>2, <1>4, <2>1
  <2>. QED
    BY <1>3, <1>5, <2>2 DEF IInv
<1>6. CASE Adjust
  BY <1>1, <1>5, <1>6 DEF Adjust, Exit
<1>7. CASE AdjustFails
  <2>1. pc' = "end" /\ exit' # 0
    BY <1>7 DEF AdjustFails, Exit
  <2>. QED
    BY <1>3, <2>1, Stops
<1>8. CASE NoAdjust
  BY <1>1, <1>5, <1>8 DEF NoAdjust, Exit
<1>. QED
  BY <1>6, <1>7, <1>8

LEMMA StepInv == IInv /\ [Next]_vars => IInv'
<1>. SUFFICES ASSUME IInv, [Next]_vars
              PROVE  IInv'
  OBVIOUS
<1>1. CASE Start \/ StartFails
  BY <1>1, StartInv
<1>2. CASE CarryEntry
  BY <1>2, CarryInv
<1>3. CASE CarryEnds
  BY <1>3, CarryEndsInv
<1>4. CASE StoreDict
  BY <1>4, DictInv
<1>5. CASE VisitDir \/ VisitOther \/ VisitFile \/ ReadFails
  BY <1>5, VisitInv
<1>6. CASE Finalize
  BY <1>6, FinalizeInv
<1>7. CASE Adjust \/ AdjustFails \/ NoAdjust
  BY <1>7, AdjustInv
<1>8. CASE UNCHANGED vars
  BY <1>8 DEF vars, IInv, TypeOK, Success
<1>. QED
  BY <1>1, <1>2, <1>3, <1>4, <1>5, <1>6, <1>7, <1>8 DEF Next

LEMMA Inv == Spec => []IInv
BY InitInv, StepInv, PTL DEF Spec

-----------------------------------------------------------------------------
(* At every moment the packer is of a sound type, and when it has succeeded *)
(* with --carry and without --base, the base it prints is the place where   *)
(* the archive of FILE began, or the size of a FILE without one             *)
(* (unpin-vfs-pack.c:32-35, 78-128).                                        *)
THEOREM BaseHolds == Spec => []BaseIsWhereItBegan
<1>1. IInv => BaseIsWhereItBegan
  <2>. SUFFICES ASSUME IInv
                PROVE  BaseIsWhereItBegan
    OBVIOUS
  <2>1. TypeOK
    BY DEF IInv
  <2>2. ASSUME Success, args.carry.given, args.base < 0
        PROVE  base = IF src.recs # << >> THEN args.carry.program ELSE args.carry.file.size
    <3>1. PICK w : InClosed(args, src, g_zip, base, dictLost, w)
      BY <2>2 DEF IInv
    <3>2. base = BaseOf(args, src)
      BY <2>2, <3>1 DEF InClosed
    <3>. QED
      BY <2>2, <3>2 DEF BaseOf
  <2>. QED
    BY <2>1, <2>2 DEF BaseIsWhereItBegan
<1>. QED
  BY <1>1, Inv, PTL

LEMMA OkGives ==
    ASSUME NEW file, NEW rec, NEW dict, extract(file, rec, dict).ok
    PROVE  extract(file, rec, dict) = HasData(extract(file, rec, dict).data)
<1>1. ~NoData.ok /\ \A d : HasData(d).data = d
  BY DEF NoData, HasData
<1>2. \E d : extract(file, rec, dict) = HasData(d)
  BY <1>1 DEF extract
<1>. QED
  BY <1>1, <1>2

(* Between any two steps of the packer, and while it closes the archive,    *)
(* the writer holds everything carried over and every file visited so far,  *)
(* on intact records, whatever calls have failed on the way                 *)
(* (unpin-vfs-pack.c:92-121, 200-214; miniz.c:6251-6541).                   *)
THEOREM EntriesAreHeld == Spec => []EntriesHeld
<1>1. ASSUME NEW w, NEW n, CarriedAt(args, src, w, n)
      PROVE  \A k \in 1 .. n, dict \in CarriedDicts :
                (~Dropped(src.recs[k]) /\ Before(src.recs[k], dict).ok) =>
                    Holds(w, src.recs[k].name, Before(src.recs[k], dict).data, dict)
  <2>. SUFFICES ASSUME NEW k \in 1 .. n, NEW dict \in CarriedDicts,
                       ~Dropped(src.recs[k]), Before(src.recs[k], dict).ok
                PROVE  Holds(w, src.recs[k].name, Before(src.recs[k], dict).data, dict)
    OBVIOUS
  <2>1. extract(args.carry.file, src.recs[k], dict) = HasData(Before(src.recs[k], dict).data)
    BY OkGives DEF Before
  <2>2. \E j : HeldAt(w, j, src.recs[k].name, Before(src.recs[k], dict).data, dict)
    BY <1>1, <2>1 DEF CarriedAt
  <2>. QED
    BY <2>2 DEF HeldAt, Holds
<1>2. ASSUME NEW w, NEW n, VisitedAt(args, w, n)
      PROVE  \A f \in FilesOf(n) : Holds(w, f.name, f.data, args.dict)
  BY <1>2 DEF VisitedAt, FilesTo, FilesOf, HeldAt, Holds
<1>3. FilesOf(0) = {}
  BY DEF FilesOf
<1>4. IInv => EntriesHeld
  <2>. SUFFICES ASSUME IInv, pc # "end"
                PROVE  /\ \A k \in 1 .. Carried, dict \in CarriedDicts :
                            (~Dropped(src.recs[k]) /\ Before(src.recs[k], dict).ok) =>
                                Holds(g_zip, src.recs[k].name, Before(src.recs[k], dict).data, dict)
                       /\ \A f \in FilesOf(Visits) : Holds(g_zip, f.name, f.data, args.dict)
    BY DEF EntriesHeld
  <2>1. CASE pc = "start"
    <3>1. src.recs = << >>
      BY <2>1 DEF IInv, NoArchive
    <3>2. Carried = 0 /\ Visits = 0
      BY <2>1, <3>1 DEF Carried, Visits
    <3>. QED
      BY <1>3, <3>2
  <2>2. CASE pc = "carry"
    <3>1. CarriedAt(args, src, g_zip, i) /\ Carried = i /\ Visits = 0
      BY <2>2 DEF IInv, InCarry, Carried, Visits
    <3>. QED
      BY <1>1, <1>3, <3>1
  <2>3. CASE pc = "dict"
    <3>1. CarriedAt(args, src, g_zip, Len(src.recs)) /\ Carried = Len(src.recs) /\ Visits = 0
      BY <2>3 DEF IInv, InDict, Carried, Visits
    <3>. QED
      BY <1>1, <1>3, <3>1
  <2>4. CASE pc = "walk"
    <3>1. /\ CarriedAt(args, src, g_zip, Len(src.recs)) /\ Carried = Len(src.recs)
          /\ VisitedAt(args, g_zip, i) /\ Visits = i
      BY <2>4 DEF IInv, InDict, InWalk, Carried, Visits
    <3>. QED
      BY <1>1, <1>2, <3>1
  <2>5. CASE pc = "adjust"
    <3>1. PICK w : InClosed(args, src, g_zip, base, dictLost, w)
      BY <2>5 DEF IInv
    <3>2. /\ WriterOK(w) /\ CarriedAt(args, src, w, Len(src.recs)) /\ VisitedAt(args, w, Len(args.tree))
          /\ \E r \in finalize_archive(w) : r.ok /\ r.w = g_zip
      BY <3>1 DEF InClosed
    <3>3. g_zip.ofs \in Nat /\ FileOK(g_zip.file) /\ Grows(w, g_zip)
      BY <3>2, Finalized
    <3>4. \A k, name, data, dict : HeldAt(w, k, name, data, dict) => HeldAt(g_zip, k, name, data, dict)
      BY <3>2, <3>3, HeldOn
    <3>5. CarriedAt(args, src, g_zip, Len(src.recs))
      BY <3>2, <3>4, Zenon DEF CarriedAt
    <3>6. VisitedAt(args, g_zip, Len(args.tree))
      BY <3>2, <3>4, Zenon DEF VisitedAt
    <3>7. Carried = Len(src.recs) /\ Visits = Len(args.tree)
      BY <2>5 DEF IInv, Carried, Visits
    <3>. QED
      BY <1>1, <1>2, <3>5, <3>6, <3>7
  <2>6. pc \in {"start", "carry", "dict", "walk", "adjust", "end"}
    BY DEF IInv, TypeOK
  <2>. QED
    BY <2>1, <2>2, <2>3, <2>4, <2>5, <2>6
<1>. QED
  BY <1>4, Inv, PTL

(* What a reader finds in the end, it serves. *)
LEMMA FindsServes ==
    ASSUME NEW name, NEW data, NEW dict, Finds(base, out, name, data, dict)
    PROVE  Serves(dict, name, data)
BY DEF Finds, Serves, Opened, Shipped

LEMMA SuccessIs ==
    ASSUME IInv, Success
    PROVE  \E w :
            /\ InClosed(args, src, g_zip, base, dictLost, w)
            /\ Opened.ok /\ g_zip.dir = w.dir /\ Len(w.dir) \in Nat /\ DOMAIN w.dir = 1 .. Len(w.dir)
            /\ \A j, name, data, dict :
                (HeldAt(w, j, name, data, dict) /\ Clear(name) /\ (base # 0 => j <= Max16))
                    => Finds(base, out, name, data, dict)
<1>1. PICK w : InClosed(args, src, g_zip, base, dictLost, w) /\ Made(w, g_zip, base, out)
  BY DEF IInv
<1>2. g_zip.dir = w.dir /\ Opened.ok
  BY <1>1, MadeIs, Found DEF Opened, Shipped
<1>3. Len(w.dir) \in Nat /\ DOMAIN w.dir = 1 .. Len(w.dir)
  BY <1>1, PlacesIs DEF InClosed
<1>4. \A name : Clear(name) <=> ClearIn(w.dir, name)
  BY <1>2 DEF Clear, ClearIn
<1>. QED
  BY <1>1, <1>2, <1>3, <1>4, Found

(* A packer that reports success has made an archive that opens at the base *)
(* it printed and serves every file it visited, byte for byte, whatever the *)
(* limits of 16 and 32 bits, the sizes and the calls that failed, unless    *)
(* the dictionary was lost or one of the two departures applies             *)
(* (unpin-vfs-pack.c:7-13, 15-20, 131-171).                                 *)
THEOREM FilesAreServed == Spec => []FilesServed
<1>1. IInv => FilesServed
  <2>. SUFFICES ASSUME IInv, Success, ~Uncounted, DictServes
                PROVE  /\ Opened.ok
                       /\ \A f \in FilesOf(Len(args.tree)), dict \in Loaded :
                            Clear(f.name) => Serves(dict, f.name, f.data)
    BY DEF FilesServed
  <2>1. PICK w :
            /\ InClosed(args, src, g_zip, base, dictLost, w)
            /\ Opened.ok /\ g_zip.dir = w.dir /\ Len(w.dir) \in Nat /\ DOMAIN w.dir = 1 .. Len(w.dir)
            /\ \A j, name, data, dict :
                (HeldAt(w, j, name, data, dict) /\ Clear(name) /\ (base # 0 => j <= Max16))
                    => Finds(base, out, name, data, dict)
    BY SuccessIs
  <2>2. \A j, name, data, dict : HeldAt(w, j, name, data, dict) => (base # 0 => j <= Max16)
    <3>1. base # 0 => Len(w.dir) < Max16
      BY <2>1, LayoutAssumption DEF Uncounted, TotalFiles
    <3>2. \A j, name, data, dict : HeldAt(w, j, name, data, dict) => j \in 1 .. Len(w.dir)
      BY <2>1 DEF HeldAt
    <3>. QED
      BY <2>1, <3>1, <3>2, LayoutAssumption
  <2>3. \A j, name, data, dict :
            HeldAt(w, j, name, data, dict) /\ Clear(name) => Finds(base, out, name, data, dict)
    BY <2>1, <2>2
  <2>4. VisitedAt(args, w, Len(args.tree)) /\ DictAdded(args, w, dictLost)
    BY <2>1 DEF InClosed
  <2>5. ASSUME NEW f \in FilesOf(Len(args.tree)), NEW dict \in Loaded, Clear(f.name)
        PROVE  Serves(dict, f.name, f.data)
    <3>1. PICK j : HeldAt(w, j, f.name, f.data, args.dict)
      BY <2>4 DEF VisitedAt, FilesTo, FilesOf
    <3>2. CASE args.dict = "none"
      <4>1. HeldAt(w, j, f.name, f.data, dict)
        BY <3>1, <3>2, HeldAny
      <4>. QED
        BY <2>3, <2>5, <4>1, FindsServes
    <3>3. CASE args.dict # "none"
      <4>1. PICK k : HeldAt(w, k, ZDICT_ENTRY, args.dict, "none")
        BY <2>4, <3>3 DEF DictAdded, DictServes
      <4>2. Finds(base, out, ZDICT_ENTRY, args.dict, "none")
        BY <2>3, <3>3, <4>1 DEF DictServes
      <4>3. PICK m : /\ locate_file(Opened.recs, ZDICT_ENTRY) = {m} /\ m # 0
                     /\ extract(Shipped, Opened.recs[m], "none") = HasData(args.dict)
        BY <4>2 DEF Finds, Opened, Shipped
      <4>4. DictAt(m) = args.dict
        BY <4>3 DEF DictAt, HasData
      <4>5. dict = args.dict
        BY <4>3, <4>4 DEF Loaded
      <4>. QED
        BY <2>3, <2>5, <3>1, <4>5, FindsServes
    <3>. QED
      BY <3>2, <3>3
  <2>. QED
    BY <2>1, <2>5
<1>. QED
  BY <1>1, Inv, PTL

(* If the archive has one dictionary, and FILE brought one along, that is   *)
(* the one a program has loaded.                                            *)
LEMMA OwnIsLoaded ==
    ASSUME IInv, Success, OneDict, NEW own \in CarriedDicts, own # "none"
    PROVE  \A dict \in Loaded : dict = own
<1>1. PICK m \in locate_file(src.recs, ZDICT_ENTRY) : own = OwnDict(m)
  BY DEF CarriedDicts
<1>2. m # 0 /\ Before(src.recs[m], "none").ok /\ own = Before(src.recs[m], "none").data
  BY <1>1 DEF OwnDict
<1>3. m \in DOMAIN src.recs /\ SameName(src.recs[m].name, ZDICT_ENTRY)
  BY <1>1, <1>2 DEF locate_file
<1>4. ~Dropped(src.recs[m])
  BY <1>3, PackerAssumption DEF Dropped
<1>. DEFINE name == src.recs[m].name
<1>5. \A other : SameName(other, name) <=> SameName(other, ZDICT_ENTRY)
  BY <1>3 DEF SameName
<1>6. PICK w :
          /\ InClosed(args, src, g_zip, base, dictLost, w) /\ g_zip.dir = w.dir
          /\ \A j, n, d, x :
              (HeldAt(w, j, n, d, x) /\ Clear(n) /\ (base # 0 => j <= Max16))
                  => Finds(base, out, n, d, x)
  BY SuccessIs
<1>7. CarriedAt(args, src, w, Len(src.recs)) /\ m \in 1 .. Len(src.recs)
  BY <1>3, <1>6, SourceIs DEF InClosed, IInv, TypeOK
<1>8. extract(args.carry.file, src.recs[m], "none") = HasData(own)
  BY <1>2, OkGives DEF Before
<1>9. PICK j : j <= Max16 /\ HeldAt(w, j, name, own, "none")
  BY <1>4, <1>7, <1>8 DEF CarriedAt
<1>10. j \in DOMAIN g_zip.dir /\ g_zip.dir[j].name = name
  BY <1>6, <1>9 DEF HeldAt
<1>11. SameName(name, ZDICT_ENTRY)
  BY <1>3
<1>12. Clear(name)
  BY <1>5, <1>10, <1>11 DEF Clear, OneDict
<1>13. Finds(base, out, name, own, "none")
  BY <1>6, <1>9, <1>12
<1>14. PICK k : /\ locate_file(Opened.recs, name) = {k} /\ k # 0
                /\ extract(Shipped, Opened.recs[k], "none") = HasData(own)
  BY <1>13 DEF Finds, Opened, Shipped
<1>15. locate_file(Opened.recs, ZDICT_ENTRY) = {k}
  BY <1>5, <1>14 DEF locate_file
<1>16. DictAt(k) = own
  BY <1>14 DEF DictAt, HasData
<1>. QED
  BY <1>15, <1>16 DEF Loaded

(* Every entry carried over is served from the new archive as it was in the *)
(* file it came from, one that needs the dictionary of its own archive with *)
(* that, which is then the one loaded (unpin-vfs-pack.c:25-31, 92-121,      *)
(* 200-211, 260-262).                                                       *)
THEOREM CarriedAreServed == Spec => []CarriedServed
<1>1. IInv => CarriedServed
  <2>. SUFFICES ASSUME IInv, Success, NEW k \in DOMAIN src.recs, NEW own \in CarriedDicts,
                       NEW dict \in Loaded, ~Dropped(src.recs[k]), Clear(src.recs[k].name),
                       Before(src.recs[k], own).ok, own # "none" => OneDict
                PROVE  Serves(dict, src.recs[k].name, Before(src.recs[k], own).data)
    BY DEF CarriedServed
  <2>. DEFINE data == Before(src.recs[k], own).data
  <2>1. PICK w :
            /\ InClosed(args, src, g_zip, base, dictLost, w)
            /\ \A j, name, d, x :
                (HeldAt(w, j, name, d, x) /\ Clear(name) /\ (base # 0 => j <= Max16))
                    => Finds(base, out, name, d, x)
    BY SuccessIs
  <2>2. args \in Inputs /\ src = SourceOf(args) /\ CarriedAt(args, src, w, Len(src.recs))
    BY <2>1 DEF InClosed, IInv, TypeOK
  <2>3. k \in 1 .. Len(src.recs)
    BY <2>2, SourceIs
  <2>4. extract(args.carry.file, src.recs[k], own) = HasData(data)
    BY OkGives DEF Before
  <2>5. PICK j : j <= Max16 /\ HeldAt(w, j, src.recs[k].name, data, own)
    BY <2>2, <2>3, <2>4 DEF CarriedAt
  <2>6. HeldAt(w, j, src.recs[k].name, data, dict)
    <3>1. CASE own = "none"
      BY <2>5, <3>1, HeldAny
    <3>2. CASE own # "none"
      BY <2>5, <3>2, OwnIsLoaded
    <3>. QED
      BY <3>1, <3>2
  <2>7. Finds(base, out, src.recs[k].name, data, dict)
    BY <2>1, <2>5, <2>6
  <2>. QED
    BY <2>7, FindsServes
<1>. QED
  BY <1>1, Inv, PTL
=============================================================================

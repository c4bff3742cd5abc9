-------------------------- MODULE PathCanonProofs --------------------------
(***************************************************************************)
(* What path_canon leaves is a key, whatever the text, the capacity of      *)
(* segs[] and the size of the buffer: no empty segment, no "." and no ".."  *)
(* comes through.                                                           *)
(***************************************************************************)
EXTENDS PathCanon, FiniteSetTheorems, WellFoundedInduction, TLAPS

(* TypeOK says what `out` is, not why: the segments segs[] points at are    *)
(* names, and they stay where they are.                                     *)
SegsAreNames == \A k \in 1 .. Len(segs) : input[segs[k]] \in Name

Inv == TypeOK /\ SegsAreNames

LEMMA InputIsText ==
    ASSUME input \in Inputs
    PROVE  /\ Len(input) \in Nat
           /\ \A i \in 1 .. Len(input) : input[i] \in Seg
  BY InputsAssumption

LEMMA Lengths ==
    /\ PathMax \in Nat /\ PathMax > 0
    /\ \A n \in Name : SegLen[n] \in Nat
<1>1. PathMax \in Nat \ {0}
  BY PathAssumption, Zenon
<1>2. \A n \in Name : SegLen[n] \in Nat
  BY PathAssumption DEF Seg
<1>. QED
  BY <1>1, <1>2

LEMMA Capacity == MaxSegs \in Nat /\ MaxSegs > 0
<1>1. MaxSegs \in Nat \ {0}
  BY PathAssumption, Zenon
<1>. QED
  BY <1>1

LEMMA InitInv == Init => Inv
<1>. SUFFICES ASSUME Init PROVE Inv
  OBVIOUS
<1>1. Len(input) \in Nat
  BY InputIsText DEF Init
<1>2. segs \in Seq(1 .. p) /\ Len(segs) = 0 /\ Len(segs) <= MaxSegs /\ out \in Seq(Name)
  BY Capacity DEF Init
<1>3. o \in 0 .. PathMax - 1
  BY Lengths DEF Init
<1>. QED
  BY <1>1, <1>2, <1>3 DEF Init, Inv, TypeOK, SegsAreNames

(* Positions up to p are positions up to p + 1. *)
LEMMA SegsGrow ==
    ASSUME NEW n \in Nat, NEW s \in Seq(1 .. n), NEW m \in Nat, n <= m
    PROVE  s \in Seq(1 .. m)
<1>1. \A k \in 1 .. Len(s) : s[k] \in 1 .. m
  OBVIOUS
<1>. QED
  BY <1>1

LEMMA StepInv == Inv /\ [Next]_vars => Inv'
<1>. SUFFICES ASSUME Inv, [Next]_vars PROVE Inv'
  OBVIOUS
<1>. USE DEF Inv
<1>1. /\ input \in Inputs /\ Len(input) \in Nat /\ p \in 0 .. Len(input) /\ p \in Nat
      /\ \A i \in 1 .. Len(input) : input[i] \in Seg
      /\ segs \in Seq(1 .. p) /\ Len(segs) \in Nat /\ Len(segs) <= MaxSegs
      /\ out \in Seq(Name) /\ Len(out) \in Nat /\ o \in 0 .. PathMax - 1
      /\ pc \in {"scan", "join", "done"}
  BY InputIsText DEF TypeOK
<1>2. CASE SkipSeg
  <2>1. p + 1 \in 0 .. Len(input) /\ p + 1 \in Nat /\ p <= p + 1
    <3>1. p < Len(input)
      BY <1>2 DEF SkipSeg
    <3>. QED
      BY <1>1, <3>1
  <2>2. segs \in Seq(1 .. p + 1)
    BY <1>1, <2>1, SegsGrow
  <2>. QED
    BY <1>1, <1>2, <2>1, <2>2 DEF SkipSeg, TypeOK, SegsAreNames
<1>3. CASE PopSeg
  <2>1. p + 1 \in 0 .. Len(input) /\ p' = p + 1
    BY <1>1, <1>3 DEF PopSeg
  <2>2. /\ segs' \in Seq(1 .. p) /\ Len(segs') <= Len(segs)
        /\ \A k \in 1 .. Len(segs') : k \in 1 .. Len(segs) /\ segs'[k] = segs[k]
    <3>1. CASE Len(segs) = 0
      BY <1>1, <1>3, <3>1 DEF PopSeg
    <3>2. CASE Len(segs) > 0
      <4>1. segs' = SubSeq(segs, 1, Len(segs) - 1)
        BY <1>3, <3>2 DEF PopSeg
      <4>. QED
        BY <1>1, <3>2, <4>1
    <3>. QED
      BY <1>1, <3>1, <3>2
  <2>3. segs' \in Seq(1 .. p + 1)
    <3>1. p + 1 \in Nat /\ p <= p + 1
      BY <1>1
    <3>. QED
      BY <1>1, <2>2, <3>1, SegsGrow
  <2>4. Len(segs') <= MaxSegs
    <3>1. Len(segs') \in Nat
      BY <2>2
    <3>. QED
      BY <1>1, <2>2, <3>1, Capacity
  <2>5. SegsAreNames'
    <3>1. input' = input
      BY <1>3 DEF PopSeg
    <3>. QED
      BY <2>2, <3>1 DEF SegsAreNames
  <2>. QED
    BY <1>1, <1>3, <2>1, <2>3, <2>4, <2>5 DEF PopSeg, TypeOK
<1>4. CASE PushSeg
  <2>1. p + 1 \in 0 .. Len(input) /\ p' = p + 1 /\ input' = input /\ input[p + 1] \in Name
    BY <1>1, <1>4 DEF PushSeg
  <2>2. segs \in Seq(1 .. p + 1)
    <3>1. p + 1 \in Nat /\ p <= p + 1
      BY <1>1
    <3>. QED
      BY <1>1, <3>1, SegsGrow
  <2>3. segs' \in Seq(1 .. p + 1) /\ Len(segs') <= MaxSegs /\ SegsAreNames'
    <3>1. CASE segs' = segs
      BY <1>1, <2>1, <2>2, <3>1 DEF SegsAreNames
    <3>2. CASE segs' = Append(segs, p + 1) /\ Len(segs) < MaxSegs
      <4>1. /\ Len(segs') = Len(segs) + 1 /\ segs' \in Seq(1 .. p + 1)
            /\ \A k \in 1 .. Len(segs) : segs'[k] = segs[k]
            /\ segs'[Len(segs) + 1] = p + 1
        BY <1>1, <2>2, <3>2
      <4>2. \A k \in 1 .. Len(segs') : k \in 1 .. Len(segs) \/ k = Len(segs) + 1
        BY <1>1, <4>1
      <4>3. Len(segs') <= MaxSegs
        BY <1>1, <3>2, <4>1, Capacity
      <4>4. SegsAreNames'
        BY <2>1, <4>1, <4>2 DEF SegsAreNames
      <4>. QED
        BY <4>1, <4>3, <4>4
    <3>. QED
      BY <1>4, <3>1, <3>2 DEF PushSeg
  <2>. QED
    BY <1>1, <1>4, <2>1, <2>3 DEF PushSeg, TypeOK
<1>5. CASE EndScan
  BY <1>1, <1>5 DEF EndScan, TypeOK, SegsAreNames
<1>6. CASE JoinSeg
  <2>1. Len(out) + 1 \in 1 .. Len(segs)
    BY <1>1, <1>6 DEF JoinSeg
  <2>2. input[segs[Len(out) + 1]] \in Name
    BY <2>1 DEF SegsAreNames
  <2>3. out' \in Seq(Name)
    BY <1>1, <1>6, <2>2 DEF JoinSeg, Writes
  <2>4. o' \in 0 .. PathMax - 1
    <3>. DEFINE n == NextLen
    <3>1. n \in Nat /\ PathMax \in Nat
      BY <2>2, Lengths DEF NextLen
    <3>2. o + n + 1 < PathMax /\ (o' = o + 0 + n \/ o' = o + 1 + n)
      BY <1>6 DEF JoinSeg, Room, Writes, NextLen
    <3>. HIDE DEF n
    <3>. QED
      BY <1>1, <3>1, <3>2
  <2>. QED
    BY <1>1, <1>6, <2>3, <2>4 DEF JoinSeg, TypeOK, SegsAreNames
<1>7. CASE EndJoin
  BY <1>1, <1>7 DEF EndJoin, TypeOK, SegsAreNames
<1>8. CASE UNCHANGED vars
  BY <1>1, <1>8 DEF vars, TypeOK, SegsAreNames
<1>. QED
  BY <1>2, <1>3, <1>4, <1>5, <1>6, <1>7, <1>8 DEF Next

(* The scan stays inside segs[] and the loop behind it inside buf[], NUL    *)
(* included, and what is written back is a sequence of names (vfs.c:198-221): *)
(* the key the other calls look up.                                         *)
THEOREM KeysAreNames == Spec => []TypeOK
<1>1. Inv => TypeOK
  BY DEF Inv
<1>. QED
  BY InitInv, StepInv, <1>1, PTL DEF Spec
-----------------------------------------------------------------------------
(* Rising enumerations.  A set of positions has one.                        *)

LEMMA LeastPlace ==
    ASSUME NEW S \in SUBSET Nat, S # {}
    PROVE  \E m \in S : \A x \in S : m <= x
<1>. DEFINE Smaller == {ss \in Nat \X Nat : ss[1] < ss[2]}
<1>1. IsWellFoundedOn(Smaller, Nat)
  BY NatLessThanWellFounded DEF OpToRel
<1>2. PICK m \in S : \A x \in S : <<x, m>> \notin Smaller
  <2>. HIDE DEF Smaller
  <2>. QED
    BY <1>1, WFMin
<1>3. ASSUME NEW x \in S
      PROVE  m <= x
  <2>1. <<x, m>> \in Nat \X Nat /\ m \in Nat /\ x \in Nat
    OBVIOUS
  <2>2. ~(<<x, m>>[1] < <<x, m>>[2])
    BY <1>2, <2>1
  <2>. QED
    BY <2>1, <2>2
<1>. QED
  BY <1>3

Onto(t, S) == \A x \in S : \E k \in DOMAIN t : t[k] = x

(* Where two of them part, neither is below: the other would have skipped   *)
(* its value.                                                               *)
LEMMA NothingSkipped ==
    ASSUME NEW n \in Nat, NEW S \in SUBSET Nat,
           NEW s \in [1 .. n -> S], NEW t \in [1 .. n -> S],
           Rising(s), Rising(t), Onto(t, S),
           NEW k \in 1 .. n, \A l \in 1 .. n : l < k => s[l] = t[l]
    PROVE  ~(s[k] < t[k])
<1>. SUFFICES ASSUME s[k] < t[k] PROVE FALSE
  OBVIOUS
<1>1. PICK m \in 1 .. n : t[m] = s[k]
  BY DEF Onto
<1>2. \A l \in 1 .. n : s[l] \in Nat /\ t[l] \in Nat
  OBVIOUS
<1>3. CASE m < k
  BY <1>1, <1>2, <1>3 DEF Rising
<1>4. CASE k < m
  BY <1>1, <1>2, <1>4 DEF Rising
<1>. QED
  BY <1>1, <1>2, <1>3, <1>4

LEMMA RisingIsUnique ==
    ASSUME NEW n \in Nat, NEW S \in SUBSET Nat,
           NEW s \in [1 .. n -> S], NEW t \in [1 .. n -> S],
           Rising(s), Rising(t), Onto(s, S), Onto(t, S)
    PROVE  s = t
<1>. DEFINE Differ == {k \in 1 .. n : s[k] # t[k]}
<1>1. SUFFICES ASSUME Differ # {} PROVE FALSE
  OBVIOUS
<1>2. PICK k \in Differ : \A x \in Differ : k <= x
  <2>1. Differ \in SUBSET Nat
    OBVIOUS
  <2>. QED
    BY <1>1, <2>1, LeastPlace
<1>3. k \in 1 .. n /\ s[k] # t[k] /\ s[k] \in Nat /\ t[k] \in Nat
  OBVIOUS
<1>4. \A l \in 1 .. n : l < k => s[l] = t[l]
  BY <1>2
<1>5. ~(s[k] < t[k])
  BY <1>3, <1>4, NothingSkipped
<1>6. ~(t[k] < s[k])
  BY <1>3, <1>4, NothingSkipped
<1>. QED
  BY <1>3, <1>5, <1>6

LEMMA Enumerates ==
    ASSUME NEW n \in Nat, NEW S \in SUBSET Nat, NEW s \in [1 .. n -> S],
           Rising(s), Onto(s, S)
    PROVE  Cardinality(S) = n /\ Ascending(S) = s
<1>1. ASSUME NEW t \in [1 .. n -> S], Rising(t)
      PROVE  t \in Injection(1 .. n, S)
  <2>1. \A k \in 1 .. n : t[k] \in Nat
    OBVIOUS
  <2>2. \A k, l \in 1 .. n : t[k] = t[l] => k = l
    BY <1>1, <2>1 DEF Rising
  <2>. QED
    BY <2>2 DEF Injection, IsInjective
<1>2. s \in Bijection(1 .. n, S)
  BY <1>1 DEF Bijection, Surjection, Onto
<1>3. Cardinality(S) = n
  BY <1>2, FS_CountingElements DEF ExistsBijection
<1>4. IsFiniteSet(1 .. n) /\ Cardinality(1 .. n) = n
  BY FS_Interval
<1>5. IsFiniteSet(S)
  BY <1>2, <1>4, FS_Bijection DEF ExistsBijection
<1>6. Ascending(S) \in [1 .. n -> S] /\ Rising(Ascending(S))
  BY <1>3 DEF Ascending
<1>7. Onto(Ascending(S), S)
  <2>1. Ascending(S) \in Injection(1 .. n, S)
    BY <1>1, <1>6
  <2>2. Ascending(S) \in Surjection(1 .. n, S)
    BY <1>3, <1>4, <1>5, <2>1, FS_Injection
  <2>. QED
    BY <1>6, <2>2 DEF Onto, Surjection
<1>. QED
  BY <1>3, <1>6, <1>7, RisingIsUnique

-----------------------------------------------------------------------------
(* Counting, and what one more segment changes.                             *)

LEMMA CountNone ==
    ASSUME NEW S, NEW lo \in Nat, NEW hi \in Nat, hi < lo
    PROVE  Count(S, lo, hi) = 0
<1>1. {k \in lo .. hi : input[k] \in S} = {}
  OBVIOUS
<1>. QED
  BY <1>1, FS_EmptySet DEF Count

LEMMA CountNext ==
    ASSUME NEW S, NEW lo \in Nat, NEW hi \in Nat, lo <= hi + 1
    PROVE  /\ Count(S, lo, hi) \in Nat
           /\ input[hi + 1] \in S => Count(S, lo, hi + 1) = Count(S, lo, hi) + 1
           /\ input[hi + 1] \notin S => Count(S, lo, hi + 1) = Count(S, lo, hi)
<1>. DEFINE A == {k \in lo .. hi : input[k] \in S}
            B == {k \in lo .. hi + 1 : input[k] \in S}
<1>1. IsFiniteSet(A) /\ Cardinality(A) \in Nat
  <2>1. IsFiniteSet(lo .. hi) /\ A \in SUBSET (lo .. hi)
    BY FS_Interval
  <2>. QED
    BY <2>1, FS_Subset, FS_CardinalityType
<1>2. \A k \in lo .. hi + 1 : k \in lo .. hi \/ k = hi + 1
  OBVIOUS
<1>3. hi + 1 \notin A /\ A \subseteq B
  OBVIOUS
<1>4. CASE input[hi + 1] \in S
  <2>1. B = A \cup {hi + 1}
    BY <1>2, <1>4
  <2>. HIDE DEF A, B
  <2>2. Cardinality(B) = Cardinality(A) + 1
    BY <1>1, <1>3, <2>1, FS_AddElement
  <2>. QED
    BY <1>1, <1>4, <2>2 DEF Count, A, B
<1>5. CASE input[hi + 1] \notin S
  <2>1. B = A
    BY <1>2, <1>5
  <2>. QED
    BY <1>1, <1>5, <2>1 DEF Count
<1>. QED
  BY <1>4, <1>5

Ups(i, j) == Count({".."}, i + 1, j)
Names(i, j) == Count(Name, i + 1, j)

(* The names behind a survivor are at least as many as the "..".            *)
LEMMA Covered ==
    ASSUME NEW j \in Nat, NEW i \in Survivors(j)
    PROVE  /\ i \in 1 .. j /\ Ups(i, j) \in Nat /\ Names(i, j) \in Nat
           /\ Ups(i, j) <= Names(i, j)
<1>1. i \in 1 .. j /\ i + 1 \in Nat /\ i + 1 <= j + 1
  BY DEF Survivors
<1>2. Ups(i, j) \in Nat /\ Names(i, j) \in Nat
  BY <1>1, CountNext DEF Ups, Names
<1>3. CASE i = j
  BY <1>1, <1>3, CountNone DEF Ups, Names
<1>4. CASE i < j
  <2>1. j \in i + 1 .. j
    BY <1>1, <1>4
  <2>. QED
    BY <1>1, <1>2, <2>1 DEF Survivors, Ups, Names
<1>. QED
  BY <1>1, <1>2, <1>3, <1>4

LEMMA SurvivorsNext ==
    ASSUME NEW j \in Nat, NEW i
    PROVE  i \in Survivors(j + 1) <=>
             \/ i \in Survivors(j) /\ Ups(i, j + 1) <= Names(i, j + 1)
             \/ i = j + 1 /\ input[j + 1] \in Name
<1>1. CASE i \in 1 .. j
  <2>1. i \in 1 .. j + 1 /\ i # j + 1
    BY <1>1
  <2>2. \A k : k \in i + 1 .. j + 1 <=> k \in i + 1 .. j \/ k = j + 1
    BY <1>1
  <2>. QED
    BY <1>1, <2>1, <2>2 DEF Survivors, Ups, Names
<1>2. CASE i = j + 1
  <2>1. i \notin 1 .. j /\ i \in 1 .. j + 1 /\ i + 1 .. j + 1 = {}
    BY <1>2
  <2>. QED
    BY <1>2, <2>1 DEF Survivors
<1>3. CASE i \notin 1 .. j + 1
  <2>1. i \notin 1 .. j /\ i # j + 1
    BY <1>3
  <2>. QED
    BY <1>3, <2>1 DEF Survivors
<1>4. i \in 1 .. j + 1 => i \in 1 .. j \/ i = j + 1
  OBVIOUS
<1>. QED
  BY <1>1, <1>2, <1>3, <1>4

-----------------------------------------------------------------------------
(* What segs[] is while the scan has room: the survivors in their order,    *)
(* and each has as many names to spare, against the ".." behind it, as      *)
(* there are entries above it.  So one more ".." costs the top one only.    *)
Balance(s, j) == \A k \in 1 .. Len(s) : Names(s[k], j) = Ups(s[k], j) + (Len(s) - k)
Tracks(s, j) ==
    /\ Rising(s) /\ Balance(s, j)
    /\ \A i : i \in Survivors(j) <=> \E k \in 1 .. Len(s) : s[k] = i

TrackInv == (pc = "scan" /\ Shallow) => Tracks(segs, p)

(* What every case starts from. *)
LEMMA Spare ==
    ASSUME NEW j \in Nat, NEW s \in Seq(1 .. j), Tracks(s, j), NEW k \in 1 .. Len(s)
    PROVE  /\ s[k] \in 1 .. j /\ s[k] \in Survivors(j)
           /\ Ups(s[k], j) \in Nat
           /\ Names(s[k], j) = Ups(s[k], j) + (Len(s) - k)
           /\ Ups(s[k], j + 1) = IF input[j + 1] = ".." THEN Ups(s[k], j) + 1 ELSE Ups(s[k], j)
           /\ Names(s[k], j + 1) = IF input[j + 1] \in Name THEN Names(s[k], j) + 1 ELSE Names(s[k], j)
<1>1. s[k] \in 1 .. j /\ s[k] \in Survivors(j)
  BY DEF Tracks
<1>2. s[k] + 1 \in Nat /\ s[k] + 1 <= j + 1
  BY <1>1
<1>3. Ups(s[k], j) \in Nat /\ Names(s[k], j) = Ups(s[k], j) + (Len(s) - k)
  BY <1>1, Covered DEF Tracks, Balance
<1>4. Ups(s[k], j + 1) = IF input[j + 1] = ".." THEN Ups(s[k], j) + 1 ELSE Ups(s[k], j)
  BY <1>2, CountNext DEF Ups
<1>5. Names(s[k], j + 1) = IF input[j + 1] \in Name THEN Names(s[k], j) + 1 ELSE Names(s[k], j)
  BY <1>2, CountNext DEF Names
<1>. QED
  BY <1>1, <1>3, <1>4, <1>5

LEMMA SkipTracks ==
    ASSUME NEW j \in Nat, NEW s \in Seq(1 .. j), Tracks(s, j),
           input[j + 1] # "..", input[j + 1] \notin Name
    PROVE  Tracks(s, j + 1)
<1>1. input[j + 1] # ".." /\ input[j + 1] \notin Name
  OBVIOUS
<1>2. \A k \in 1 .. Len(s) : /\ Names(s[k], j + 1) = Ups(s[k], j + 1) + (Len(s) - k)
                             /\ Ups(s[k], j + 1) <= Names(s[k], j + 1)
  <2>. TAKE k \in 1 .. Len(s)
  <2>1. /\ Ups(s[k], j) \in Nat /\ Names(s[k], j) = Ups(s[k], j) + (Len(s) - k)
        /\ Ups(s[k], j + 1) = Ups(s[k], j) /\ Names(s[k], j + 1) = Names(s[k], j)
    BY <1>1, Spare
  <2>2. Len(s) \in Nat /\ k \in Nat /\ k <= Len(s)
    OBVIOUS
  <2>. QED
    BY <2>1, <2>2
<1>3. Balance(s, j + 1)
  BY <1>2 DEF Balance
<1>4. \A i : i \in Survivors(j + 1) <=> \E k \in 1 .. Len(s) : s[k] = i
  BY <1>1, <1>2, SurvivorsNext DEF Tracks
<1>. QED
  BY <1>3, <1>4 DEF Tracks

LEMMA PopTracks ==
    ASSUME NEW j \in Nat, NEW s \in Seq(1 .. j), Tracks(s, j), input[j + 1] = "..",
           NEW t \in Seq(1 .. j), Len(s) = Len(t) + 1 \/ (Len(s) = 0 /\ Len(t) = 0),
           \A k \in 1 .. Len(t) : t[k] = s[k]
    PROVE  Tracks(t, j + 1)
<1>1. input[j + 1] \notin Name
  BY PathAssumption
<1>2. \A k \in 1 .. Len(s) : /\ s[k] \in 1 .. j
                             /\ Ups(s[k], j) \in Nat
                             /\ Names(s[k], j + 1) = Ups(s[k], j) + (Len(s) - k)
                             /\ Ups(s[k], j + 1) = Ups(s[k], j) + 1
  <2>. TAKE k \in 1 .. Len(s)
  <2>1. s[k] \in 1 .. j /\ Ups(s[k], j) \in Nat
    BY Spare
  <2>2. Names(s[k], j) = Ups(s[k], j) + (Len(s) - k)
    BY Spare
  <2>3. Ups(s[k], j + 1) = Ups(s[k], j) + 1
    BY Spare
  <2>4. Names(s[k], j + 1) = Names(s[k], j)
    BY <1>1, Spare
  <2>. QED
    BY <2>1, <2>2, <2>3, <2>4
<1>3. /\ Len(t) \in Nat /\ Len(s) \in Nat /\ DOMAIN t = 1 .. Len(t)
      /\ \A k \in 1 .. Len(t) : k \in 1 .. Len(s) /\ t[k] = s[k]
  OBVIOUS
<1>4. Rising(t)
  <2>1. DOMAIN s = 1 .. Len(s)
    OBVIOUS
  <2>. QED
    BY <1>3, <2>1 DEF Tracks, Rising
<1>5. Balance(t, j + 1)
  <2>. SUFFICES ASSUME NEW k \in 1 .. Len(t)
                PROVE  Names(t[k], j + 1) = Ups(t[k], j + 1) + (Len(t) - k)
    BY DEF Balance
  <2>1. k \in 1 .. Len(s) /\ t[k] = s[k] /\ Len(t) = Len(s) - 1 /\ Len(s) \in Nat
    BY <1>3
  <2>2. /\ Ups(s[k], j) \in Nat /\ Names(s[k], j + 1) = Ups(s[k], j) + (Len(s) - k)
        /\ Ups(s[k], j + 1) = Ups(s[k], j) + 1
    BY <1>2, <2>1
  <2>. QED
    BY <2>1, <2>2
<1>6. \A k \in 1 .. Len(s) : Ups(s[k], j + 1) <= Names(s[k], j + 1) <=> k \in 1 .. Len(t)
  <2>. TAKE k \in 1 .. Len(s)
  <2>1. /\ Ups(s[k], j) \in Nat /\ Names(s[k], j + 1) = Ups(s[k], j) + (Len(s) - k)
        /\ Ups(s[k], j + 1) = Ups(s[k], j) + 1
    BY <1>2
  <2>2. Len(s) \in Nat
    OBVIOUS
  <2>3. k \in Nat /\ 1 <= k /\ k <= Len(s)
    BY <2>2
  <2>4. Len(t) = Len(s) - 1
    <3>1. Len(s) # 0
      BY <2>2, <2>3
    <3>. QED
      BY <1>3, <3>1
  <2>5. Len(t) \in Nat
    BY <1>3
  <2>6. k \in 1 .. Len(t) <=> k < Len(s)
    BY <2>2, <2>3, <2>4, <2>5
  <2>. QED
    BY <2>1, <2>2, <2>3, <2>6
<1>7. \A i : i \in Survivors(j + 1) <=> \E k \in 1 .. Len(t) : t[k] = i
  <2>1. ASSUME NEW i \in Survivors(j + 1)
        PROVE  \E k \in 1 .. Len(t) : t[k] = i
    <3>1. i \in Survivors(j) /\ Ups(i, j + 1) <= Names(i, j + 1)
      BY <1>1, SurvivorsNext
    <3>2. PICK k \in 1 .. Len(s) : s[k] = i
      BY <3>1 DEF Tracks
    <3>. QED
      BY <1>3, <1>6, <3>1, <3>2
  <2>2. ASSUME NEW k \in 1 .. Len(t)
        PROVE  t[k] \in Survivors(j + 1)
    <3>1. k \in 1 .. Len(s) /\ t[k] = s[k] /\ Ups(s[k], j + 1) <= Names(s[k], j + 1)
      BY <1>3, <1>6
    <3>2. s[k] \in Survivors(j)
      BY <3>1 DEF Tracks
    <3>. QED
      BY <3>1, <3>2, SurvivorsNext
  <2>. QED
    BY <2>1, <2>2
<1>. QED
  BY <1>4, <1>5, <1>7 DEF Tracks

LEMMA PushTracks ==
    ASSUME NEW j \in Nat, NEW s \in Seq(1 .. j), Tracks(s, j), input[j + 1] \in Name,
           NEW t, t = Append(s, j + 1)
    PROVE  Tracks(t, j + 1)
<1>1. input[j + 1] # ".."
  BY PathAssumption
<1>2. \A k \in 1 .. Len(s) : /\ s[k] \in 1 .. j /\ s[k] \in Survivors(j)
                             /\ Ups(s[k], j) \in Nat
                             /\ Names(s[k], j + 1) = Ups(s[k], j) + (Len(s) - k) + 1
                             /\ Ups(s[k], j + 1) = Ups(s[k], j)
  <2>. TAKE k \in 1 .. Len(s)
  <2>. QED
    BY <1>1, Spare
<1>3. /\ t \in Seq(1 .. j + 1) /\ Len(t) = Len(s) + 1 /\ DOMAIN t = 1 .. Len(t)
      /\ \A k \in 1 .. Len(s) : t[k] = s[k]
      /\ t[Len(s) + 1] = j + 1
      /\ DOMAIN s = 1 .. Len(s) /\ Len(s) \in Nat
      /\ \A k \in 1 .. Len(t) : k \in 1 .. Len(s) \/ k = Len(s) + 1
  OBVIOUS
<1>4. Rising(t)
  <2>. SUFFICES ASSUME NEW k \in 1 .. Len(t), NEW l \in 1 .. Len(t), k < l
                PROVE  t[k] < t[l]
    BY <1>3 DEF Rising
  <2>1. k \in 1 .. Len(s)
    BY <1>3
  <2>2. CASE l \in 1 .. Len(s)
    BY <1>3, <2>1, <2>2 DEF Tracks, Rising
  <2>3. CASE l = Len(s) + 1
    BY <1>2, <1>3, <2>1, <2>3
  <2>. QED
    BY <1>3, <2>2, <2>3
<1>5. Balance(t, j + 1)
  <2>. SUFFICES ASSUME NEW k \in 1 .. Len(t)
                PROVE  Names(t[k], j + 1) = Ups(t[k], j + 1) + (Len(t) - k)
    BY DEF Balance
  <2>1. CASE k \in 1 .. Len(s)
    BY <1>2, <1>3, <2>1
  <2>2. CASE k = Len(s) + 1
    <3>1. Names(j + 1, j + 1) = 0 /\ Ups(j + 1, j + 1) = 0
      BY CountNone DEF Names, Ups
    <3>. QED
      BY <1>3, <2>2, <3>1
  <2>. QED
    BY <1>3, <2>1, <2>2
<1>6. \A k \in 1 .. Len(s) : s[k] \in Survivors(j + 1)
  <2>. TAKE k \in 1 .. Len(s)
  <2>1. Ups(s[k], j + 1) <= Names(s[k], j + 1)
    BY <1>2
  <2>. QED
    BY <1>2, <2>1, SurvivorsNext
<1>7. \A i : i \in Survivors(j + 1) <=> \E k \in 1 .. Len(t) : t[k] = i
  <2>1. ASSUME NEW i \in Survivors(j + 1)
        PROVE  \E k \in 1 .. Len(t) : t[k] = i
    <3>1. i \in Survivors(j) \/ i = j + 1
      BY SurvivorsNext
    <3>2. i \in Survivors(j) => \E k \in 1 .. Len(s) : s[k] = i
      BY DEF Tracks
    <3>3. 1 .. Len(s) \subseteq 1 .. Len(t) /\ Len(s) + 1 \in 1 .. Len(t)
      BY <1>3
    <3>. QED
      BY <1>3, <3>1, <3>2, <3>3
  <2>2. ASSUME NEW k \in 1 .. Len(t)
        PROVE  t[k] \in Survivors(j + 1)
    <3>1. j + 1 \in Survivors(j + 1)
      BY SurvivorsNext
    <3>. QED
      BY <1>3, <1>6, <3>1
  <2>. QED
    BY <2>1, <2>2
<1>. QED
  BY <1>4, <1>5, <1>7 DEF Tracks

(* A sequence that tracks the survivors is their rising enumeration.        *)
LEMMA TracksEnumerates ==
    ASSUME NEW j \in Nat, NEW s \in Seq(1 .. j), Tracks(s, j)
    PROVE  Cardinality(Survivors(j)) = Len(s) /\ Ascending(Survivors(j)) = s
<1>1. Survivors(j) \in SUBSET Nat
  BY DEF Survivors
<1>2. Len(s) \in Nat /\ DOMAIN s = 1 .. Len(s)
  OBVIOUS
<1>3. s \in [1 .. Len(s) -> Survivors(j)] /\ Onto(s, Survivors(j)) /\ Rising(s)
  BY <1>2 DEF Tracks, Onto
<1>. QED
  BY <1>1, <1>2, <1>3, Enumerates

-----------------------------------------------------------------------------
LEMMA Topless ==
    ASSUME NEW n \in Nat, NEW s \in Seq(1 .. n), Len(s) > 0
    PROVE  /\ SubSeq(s, 1, Len(s) - 1) \in Seq(1 .. n)
           /\ Len(s) = Len(SubSeq(s, 1, Len(s) - 1)) + 1
           /\ \A k \in 1 .. Len(SubSeq(s, 1, Len(s) - 1)) : SubSeq(s, 1, Len(s) - 1)[k] = s[k]
<1>1. Len(s) \in Nat /\ Len(s) - 1 \in Nat
  OBVIOUS
<1>. DEFINE t == SubSeq(s, 1, Len(s) - 1)
<1>2. t \in Seq(1 .. n)
  BY <1>1
<1>3. Len(t) = Len(s) - 1
  <2>1. CASE Len(s) = 1
    BY <2>1
  <2>2. CASE Len(s) > 1
    BY <1>1, <2>2
  <2>. QED
    BY <1>1, <2>1, <2>2
<1>4. \A k \in 1 .. Len(s) - 1 : t[k] = s[k]
  BY <1>1
<1>. QED
  BY <1>1, <1>2, <1>3, <1>4

LEMMA InitTracks == Init => TrackInv
<1>. SUFFICES ASSUME Init PROVE Tracks(segs, p)
  BY DEF TrackInv
<1>1. p = 0 /\ segs = << >>
  BY DEF Init
<1>2. Survivors(0) = {}
  BY DEF Survivors
<1>. QED
  BY <1>1, <1>2 DEF Tracks, Rising, Balance

LEMMA StepTracks == Inv /\ TrackInv /\ [Next]_vars => TrackInv'
<1>. SUFFICES ASSUME Inv, TrackInv, [Next]_vars, (pc = "scan" /\ Shallow)'
              PROVE  Tracks(segs, p)'
  BY DEF TrackInv
<1>1. input' = input
  BY DEF Next, SkipSeg, PopSeg, PushSeg, EndScan, JoinSeg, EndJoin, vars
<1>2. pc = "scan" /\ pc' = "scan"
  BY DEF Next, SkipSeg, PopSeg, PushSeg, EndScan, JoinSeg, EndJoin, vars, Inv, TypeOK
<1>3. Shallow
  BY <1>1 DEF Shallow, Survivors, Count
<1>4. Tracks(segs, p) /\ p \in Nat /\ segs \in Seq(1 .. p)
  BY <1>2, <1>3, InputIsText DEF TrackInv, Inv, TypeOK
<1>5. SUFFICES Tracks(segs', p')
  BY <1>1 DEF Tracks, Rising, Balance, Survivors, Names, Ups, Count
<1>6. CASE SkipSeg
  <2>1. p' = p + 1 /\ segs' = segs /\ input[p + 1] # ".." /\ input[p + 1] \notin Name
    BY <1>6, PathAssumption, Zenon DEF SkipSeg
  <2>. QED
    BY <1>4, <2>1, SkipTracks
<1>7. CASE PopSeg
  <2>1. p' = p + 1 /\ input[p + 1] = ".."
    BY <1>7 DEF PopSeg
  <2>2. /\ segs' \in Seq(1 .. p)
        /\ Len(segs) = Len(segs') + 1 \/ (Len(segs) = 0 /\ Len(segs') = 0)
        /\ \A k \in 1 .. Len(segs') : segs'[k] = segs[k]
    <3>1. CASE Len(segs) = 0
      BY <1>4, <1>7, <3>1 DEF PopSeg
    <3>2. CASE Len(segs) > 0
      <4>1. segs' = SubSeq(segs, 1, Len(segs) - 1)
        BY <1>7, <3>2 DEF PopSeg
      <4>. QED
        BY <1>4, <3>2, <4>1, Topless
    <3>. QED
      BY <1>4, <3>1, <3>2
  <2>. QED
    BY <1>4, <2>1, <2>2, PopTracks
<1>8. CASE PushSeg
  <2>1. p' = p + 1 /\ input[p + 1] \in Name /\ p + 1 \in 0 .. Len(input)
    BY <1>4, <1>8, InputIsText DEF PushSeg, Inv, TypeOK
  <2>2. Tracks(Append(segs, p + 1), p + 1)
    BY <1>4, <2>1, PushTracks
  <2>3. Append(segs, p + 1) \in Seq(1 .. p + 1) /\ Len(Append(segs, p + 1)) = Len(segs) + 1
    BY <1>4
  <2>4. Cardinality(Survivors(p + 1)) = Len(segs) + 1
    <3>1. p + 1 \in Nat
      BY <1>4
    <3>. QED
      BY <2>2, <2>3, <3>1, TracksEnumerates
  <2>5. Len(segs) < MaxSegs
    <3>1. Cardinality(Survivors(p + 1)) <= MaxSegs
      BY <1>3, <2>1 DEF Shallow
    <3>. QED
      BY <1>4, <2>4, <3>1, Capacity
  <2>6. segs' = Append(segs, p + 1)
    BY <1>8, <2>5 DEF PushSeg
  <2>. QED
    BY <2>1, <2>2, <2>6
<1>9. CASE UNCHANGED vars
  BY <1>4, <1>9 DEF vars
<1>. QED
  BY <1>2, <1>6, <1>7, <1>8, <1>9 DEF Next, EndScan, JoinSeg, EndJoin

(* While the survivors fit, segs[] holds exactly the names that no ".." so  *)
(* far takes back, in their order, after every segment (vfs.c:203-211): for *)
(* texts of any length and any capacity.                                    *)
THEOREM ScanIsLexical == Spec => []ScanTracksSurvivors
<1>1. Inv /\ TrackInv => ScanTracksSurvivors
  <2>. SUFFICES ASSUME Inv, TrackInv, pc = "scan", Shallow
                PROVE  segs = Ascending(Survivors(p))
    BY DEF ScanTracksSurvivors
  <2>1. p \in Nat /\ segs \in Seq(1 .. p) /\ Tracks(segs, p)
    BY InputIsText DEF TrackInv, Inv, TypeOK
  <2>. QED
    BY <2>1, TracksEnumerates
<1>. QED
  BY InitInv, StepInv, InitTracks, StepTracks, <1>1, PTL DEF Spec
=============================================================================

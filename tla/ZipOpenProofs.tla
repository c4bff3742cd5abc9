--------------------------- MODULE ZipOpenProofs ---------------------------
(***************************************************************************)
(* Proofs about opening an archive: the backward search for the end record, *)
(* the order of names, the heap sort of the directory and the binary search *)
(* in it.                                                                   *)
(***************************************************************************)
EXTENDS ZipOpen, FiniteSetTheorems, WellFoundedInduction, TLAPS

LEMMA LeastElement ==
    ASSUME NEW S \in SUBSET Nat, S # {}
    PROVE  \E m \in S : \A x \in S : m <= x
<1>. DEFINE Smaller == {ss \in Nat \X Nat : ss[1] < ss[2]}
<1>1. IsWellFoundedOn(Smaller, Nat)
  BY NatLessThanWellFounded DEF OpToRel
<1>2. PICK m \in S : \A x \in S : <<x, m>> \notin Smaller
  <2>. HIDE DEF Smaller
  <2>. QED
    BY <1>1, WFMin
<1>3. ASSUME NEW x \in S
      PROVE  m <= x
  <2>1. <<x, m>> \in Nat \X Nat /\ m \in Nat /\ x \in Nat
    OBVIOUS
  <2>2. ~(<<x, m>>[1] < <<x, m>>[2])
    BY <1>2, <2>1
  <2>. QED
    BY <2>1, <2>2
<1>. QED
  BY <1>3

-----------------------------------------------------------------------------
(* The order of names. *)

(* A name as miniz compares it: its folded bytes, then an end below them.   *)
Digit(a, k) == IF k \in 1 .. Len(a) THEN Lower[a[k]] ELSE -1

Precedes(a, b, k) ==
    /\ \A i \in 1 .. k - 1 : Digit(a, i) = Digit(b, i)
    /\ Digit(a, k) < Digit(b, k)

LEMMA DigitTyped ==
    ASSUME NEW a \in Seq(Char), NEW k \in Nat
    PROVE  /\ Digit(a, k) \in Int /\ Digit(a, k) >= -1
           /\ k \in 1 .. Len(a) => Digit(a, k) = Lower[a[k]] /\ Digit(a, k) \in Nat
           /\ k > Len(a) => Digit(a, k) = -1
<1>1. CASE k \in 1 .. Len(a)
  <2>1. a[k] \in Char
    BY <1>1
  <2>2. Lower[a[k]] \in Nat
    BY <2>1, CharAssumption
  <2>. QED
    BY <1>1, <2>2 DEF Digit
<1>2. CASE k \notin 1 .. Len(a)
  BY <1>2 DEF Digit
<1>. QED
  BY <1>1, <1>2

LEMMA DifferSymmetric ==
    ASSUME NEW a \in Seq(Char), NEW b \in Seq(Char)
    PROVE  /\ Differ(a, b) = Differ(b, a) /\ FirstDiff(a, b) = FirstDiff(b, a)
           /\ ShorterLen(a, b) \in Nat
           /\ ShorterLen(a, b) <= Len(a) /\ ShorterLen(a, b) <= Len(b)
           /\ ShorterLen(a, b) = Len(a) \/ ShorterLen(a, b) = Len(b)
<1>1. /\ ShorterLen(a, b) = ShorterLen(b, a) /\ ShorterLen(a, b) \in Nat
      /\ ShorterLen(a, b) <= Len(a) /\ ShorterLen(a, b) <= Len(b)
      /\ ShorterLen(a, b) = Len(a) \/ ShorterLen(a, b) = Len(b)
  BY DEF ShorterLen
<1>2. Differ(a, b) = Differ(b, a)
  BY <1>1 DEF Differ
<1>. QED
  BY <1>1, <1>2 DEF FirstDiff

LEMMA DifferMeans ==
    ASSUME NEW a \in Seq(Char), NEW b \in Seq(Char)
    PROVE  /\ Differ(a, b) \subseteq Nat
           /\ \A i \in Nat : i \in Differ(a, b) <=>
                i \in 1 .. ShorterLen(a, b) /\ Digit(a, i) # Digit(b, i)
           /\ Differ(a, b) # {} =>
                /\ FirstDiff(a, b) \in Differ(a, b)
                /\ \A j \in Differ(a, b) : FirstDiff(a, b) <= j
<1>1. ShorterLen(a, b) \in Nat /\ ShorterLen(a, b) <= Len(a) /\ ShorterLen(a, b) <= Len(b)
  BY DifferSymmetric
<1>2. Differ(a, b) \subseteq Nat
  BY <1>1 DEF Differ
<1>3. ASSUME NEW i \in Nat
      PROVE  i \in Differ(a, b) <=> i \in 1 .. ShorterLen(a, b) /\ Digit(a, i) # Digit(b, i)
  <2>1. CASE i \in 1 .. ShorterLen(a, b)
    <3>1. i \in 1 .. Len(a) /\ i \in 1 .. Len(b)
      BY <1>1, <2>1
    <3>. QED
      BY <2>1, <3>1 DEF Differ, Digit
  <2>2. CASE i \notin 1 .. ShorterLen(a, b)
    BY <2>2 DEF Differ
  <2>. QED
    BY <2>1, <2>2
<1>4. ASSUME Differ(a, b) # {}
      PROVE  /\ FirstDiff(a, b) \in Differ(a, b)
             /\ \A j \in Differ(a, b) : FirstDiff(a, b) <= j
  <2>1. \E m \in Differ(a, b) : \A j \in Differ(a, b) : m <= j
    BY <1>2, <1>4, LeastElement
  <2>. QED
    BY <2>1 DEF FirstDiff
<1>. QED
  BY <1>2, <1>3, <1>4

LEMMA LessMeans ==
    ASSUME NEW a \in Seq(Char), NEW b \in Seq(Char)
    PROVE  filename_less(a, b) <=> \E k \in Nat \ {0} : Precedes(a, b, k)
<1>. DEFINE n == ShorterLen(a, b)
<1>0. n \in Nat /\ n <= Len(a) /\ n <= Len(b) /\ (n = Len(a) \/ n = Len(b))
  BY DifferSymmetric
<1>1. ASSUME Differ(a, b) = {}, Len(a) < Len(b)
      PROVE  \E k \in Nat \ {0} : Precedes(a, b, k)
  <2>1. n = Len(a)
    BY <1>0, <1>1
  <2>2. \A i \in 1 .. n : Digit(a, i) = Digit(b, i)
    BY <1>0, <1>1, DifferMeans
  <2>3. Digit(a, n + 1) = -1 /\ Digit(b, n + 1) \in Nat
    BY <1>0, <1>1, <2>1, DigitTyped
  <2>4. Precedes(a, b, n + 1)
    BY <1>0, <2>2, <2>3 DEF Precedes
  <2>. QED
    BY <1>0, <2>4
<1>2. ASSUME Differ(a, b) # {}, Lower[a[FirstDiff(a, b)]] < Lower[b[FirstDiff(a, b)]]
      PROVE  \E k \in Nat \ {0} : Precedes(a, b, k)
  <2>. DEFINE k == FirstDiff(a, b)
  <2>1. k \in Differ(a, b) /\ \A j \in Differ(a, b) : k <= j
    BY <1>2, DifferMeans
  <2>2. k \in 1 .. n /\ k \in Nat
    BY <2>1, DifferMeans
  <2>3. Digit(a, k) < Digit(b, k)
    <3>. HIDE DEF k, n
    <3>1. k \in 1 .. Len(a) /\ k \in 1 .. Len(b)
      BY <1>0, <2>2
    <3>2. Digit(a, k) = Lower[a[k]] /\ Digit(b, k) = Lower[b[k]]
      BY <2>2, <3>1, DigitTyped
    <3>. QED
      BY <1>2, <3>2 DEF k
  <2>4. ASSUME NEW i \in 1 .. k - 1
        PROVE  Digit(a, i) = Digit(b, i)
    <3>1. i \notin Differ(a, b) /\ i \in 1 .. n
      BY <1>0, <2>1, <2>2
    <3>. QED
      BY <3>1, DifferMeans
  <2>5. Precedes(a, b, k)
    BY <2>3, <2>4 DEF Precedes
  <2>. QED
    BY <2>2, <2>5
<1>3. ASSUME NEW k \in Nat \ {0}, Precedes(a, b, k)
      PROVE  filename_less(a, b)
  <2>1. CASE k <= n
    <3>1. k \in Differ(a, b)
      <4>1. Digit(a, k) # Digit(b, k)
        BY <1>3, DigitTyped DEF Precedes
      <4>. QED
        BY <1>0, <2>1, <4>1, DifferMeans
    <3>2. FirstDiff(a, b) \in Differ(a, b) /\ FirstDiff(a, b) <= k
      BY <3>1, DifferMeans
    <3>3. FirstDiff(a, b) \in 1 .. n /\ Digit(a, FirstDiff(a, b)) # Digit(b, FirstDiff(a, b))
      BY <3>2, DifferMeans
    <3>4. FirstDiff(a, b) = k
      BY <1>0, <1>3, <3>2, <3>3 DEF Precedes
    <3>5. Lower[a[k]] < Lower[b[k]]
      <4>1. k \in 1 .. Len(a) /\ k \in 1 .. Len(b) /\ k \in Nat
        BY <1>0, <2>1
      <4>2. Digit(a, k) = Lower[a[k]] /\ Digit(b, k) = Lower[b[k]]
        BY <4>1, DigitTyped
      <4>. QED
        BY <1>3, <4>2 DEF Precedes
    <3>. QED
      BY <3>1, <3>4, <3>5 DEF filename_less
  <2>2. CASE k > n
    <3>1. Differ(a, b) = {}
      <4>1. ASSUME NEW i \in 1 .. n
            PROVE  i \notin Differ(a, b)
        <5>1. Digit(a, i) = Digit(b, i)
          BY <1>0, <1>3, <2>2 DEF Precedes
        <5>. QED
          BY <1>0, <5>1, DifferMeans
      <4>. QED
        BY <1>0, <4>1, DifferMeans
    <3>2. Len(a) < Len(b)
      <4>1. Digit(a, k) < Digit(b, k)
        BY <1>3 DEF Precedes
      <4>2. Digit(b, k) # -1
        BY <4>1, DigitTyped
      <4>3. k <= Len(b)
        BY <4>2, DigitTyped
      <4>. QED
        BY <1>0, <2>2, <4>3
    <3>. QED
      BY <3>1, <3>2 DEF filename_less
  <2>. QED
    BY <1>0, <2>1, <2>2
<1>. QED
  BY <1>1, <1>2, <1>3 DEF filename_less

(* A name is below another only if each third one is below or above one of  *)
(* the two.                                                                 *)
LEMMA LessSplits ==
    ASSUME NEW a \in Seq(Char), NEW b \in Seq(Char), NEW c \in Seq(Char),
           filename_less(c, a)
    PROVE  filename_less(b, a) \/ filename_less(c, b)
<1>1. PICK k \in Nat \ {0} : Precedes(c, a, k)
  BY LessMeans
<1>. DEFINE Off == {i \in 1 .. k - 1 : Digit(b, i) # Digit(a, i)}
<1>2. CASE Off = {}
  <2>1. \A i \in 1 .. k - 1 : Digit(b, i) = Digit(a, i) /\ Digit(c, i) = Digit(b, i)
    BY <1>1, <1>2 DEF Precedes
  <2>2. Digit(b, k) < Digit(a, k) \/ Digit(c, k) < Digit(b, k)
    <3>1. k \in Nat
      OBVIOUS
    <3>2. Digit(a, k) \in Int /\ Digit(b, k) \in Int /\ Digit(c, k) \in Int
      BY <3>1, DigitTyped
    <3>3. Digit(c, k) < Digit(a, k)
      BY <1>1 DEF Precedes
    <3>. QED
      BY <3>2, <3>3
  <2>3. Precedes(b, a, k) \/ Precedes(c, b, k)
    BY <2>1, <2>2 DEF Precedes
  <2>. QED
    BY <2>3, LessMeans
<1>3. CASE Off # {}
  <2>1. PICK j \in Off : \A i \in Off : j <= i
    <3>1. Off \in SUBSET Nat
      OBVIOUS
    <3>. QED
      BY <1>3, <3>1, LeastElement
  <2>2. j \in Nat \ {0} /\ j \in 1 .. k - 1
    OBVIOUS
  <2>3. ASSUME NEW i \in 1 .. j - 1
        PROVE  Digit(b, i) = Digit(a, i) /\ Digit(c, i) = Digit(b, i)
    <3>1. i \in 1 .. k - 1 /\ i \notin Off
      BY <2>1, <2>2
    <3>. QED
      BY <1>1, <3>1 DEF Precedes
  <2>4. Digit(c, j) = Digit(a, j)
    BY <1>1, <2>2 DEF Precedes
  <2>5. Digit(b, j) < Digit(a, j) \/ Digit(c, j) < Digit(b, j)
    <3>1. j \in Nat
      BY <2>2
    <3>2. Digit(a, j) \in Int /\ Digit(b, j) \in Int
      BY <3>1, DigitTyped
    <3>. QED
      BY <2>4, <3>2
  <2>6. Precedes(b, a, j) \/ Precedes(c, b, j)
    BY <2>3, <2>5 DEF Precedes
  <2>. QED
    BY <2>2, <2>6, LessMeans
<1>. QED
  BY <1>2, <1>3

(* The sort and the search use one order, and it is total: names that       *)
(* neither is below are spellings of one another (miniz.c:3535, 4352).      *)
LEMMA OrderIsTotal ==
    \A a, b \in Names :
        /\ filename_compare(a, b) \in Int
        /\ filename_less(a, b) <=> filename_compare(a, b) < 0
        /\ filename_less(b, a) <=> filename_compare(a, b) > 0
        /\ SameName(a, b) <=> filename_compare(a, b) = 0
        /\ \A c \in Names : ~filename_less(b, a) /\ ~filename_less(c, b) => ~filename_less(c, a)
<1>. SUFFICES ASSUME NEW a \in Names, NEW b \in Names
              PROVE  /\ filename_compare(a, b) \in Int
                     /\ filename_less(a, b) <=> filename_compare(a, b) < 0
                     /\ filename_less(b, a) <=> filename_compare(a, b) > 0
                     /\ SameName(a, b) <=> filename_compare(a, b) = 0
                     /\ \A c \in Names : ~filename_less(b, a) /\ ~filename_less(c, b) => ~filename_less(c, a)
  OBVIOUS
<1>1. Names \subseteq Seq(Char)
  BY IndexAssumption
<1>2. a \in Seq(Char) /\ b \in Seq(Char)
  BY <1>1
<1>3. \A c \in Names : ~filename_less(b, a) /\ ~filename_less(c, b) => ~filename_less(c, a)
  BY <1>1, <1>2, LessSplits
<1>. DEFINE k == FirstDiff(a, b)
<1>. DEFINE n == ShorterLen(a, b)
<1>4. /\ Differ(a, b) = Differ(b, a) /\ FirstDiff(b, a) = k
      /\ n \in Nat /\ n <= Len(a) /\ n <= Len(b) /\ (n = Len(a) \/ n = Len(b))
  BY <1>2, DifferSymmetric
<1>5. CASE Differ(a, b) = {}
  <2>1. filename_compare(a, b) = Len(a) - Len(b)
    BY <1>5 DEF filename_compare
  <2>2. /\ filename_less(a, b) <=> Len(a) < Len(b)
        /\ filename_less(b, a) <=> Len(b) < Len(a)
    BY <1>4, <1>5 DEF filename_less
  <2>3. ASSUME Len(a) = Len(b)
        PROVE  \A i \in 1 .. Len(a) : Lower[a[i]] = Lower[b[i]]
    BY <1>4, <1>5, <2>3 DEF Differ
  <2>4. SameName(a, b) <=> Len(a) = Len(b)
    BY <2>3 DEF SameName
  <2>5. Len(a) \in Nat /\ Len(b) \in Nat
    BY <1>2
  <2>. QED
    BY <1>3, <2>1, <2>2, <2>4, <2>5
<1>6. CASE Differ(a, b) # {}
  <2>1. k \in Differ(a, b)
    BY <1>2, <1>6, DifferMeans
  <2>2. k \in 1 .. Len(a) /\ k \in 1 .. Len(b) /\ Lower[a[k]] # Lower[b[k]]
    BY <1>4, <2>1 DEF Differ
  <2>3. Lower[a[k]] \in Nat /\ Lower[b[k]] \in Nat
    <3>. HIDE DEF k
    <3>1. a[k] \in Char /\ b[k] \in Char
      BY <1>2, <2>2
    <3>. QED
      BY <3>1, CharAssumption
  <2>4. filename_compare(a, b) = Lower[a[k]] - Lower[b[k]]
    BY <1>6 DEF filename_compare
  <2>5. /\ filename_less(a, b) <=> Lower[a[k]] < Lower[b[k]]
        /\ filename_less(b, a) <=> Lower[b[k]] < Lower[a[k]]
    BY <1>4, <1>6 DEF filename_less
  <2>6. ~SameName(a, b)
    BY <2>2 DEF SameName
  <2>. QED
    BY <1>3, <2>2, <2>3, <2>4, <2>5, <2>6
<1>. QED
  BY <1>5, <1>6

-----------------------------------------------------------------------------
(* The search for the end record. *)

(* While it reads: no record stands behind the block it is to read next,    *)
(* but for the part of one that began in it.  In front of the file there is *)
(* no block; the last one read is then all there was.                       *)
Unread == \A s \in Records : IF cur_file_ofs < 0 THEN s < LowestRead
                             ELSE s + SIG <= cur_file_ofs + BlockSize

ScanInv ==
    /\ ScanTypeOK
    /\ scan = "read" => archive_size >= RecSize /\ Unread
    /\ FoundIsLast /\ MissedIsOutOfReach

LEMMA ScanConstants ==
    /\ BufSize \in Nat /\ BufSize > SIG /\ RecSize \in Nat /\ RecSize >= SIG /\ SIG = 4
    /\ TailLimit \in Nat /\ MaxSize \in Nat
    /\ Word \in Nat /\ Word \div 2 \in Nat /\ Word = 2 * (Word \div 2) /\ Word \div 2 > MaxSize + BufSize
  BY ScanAssumption DEF SIG

LEMMA SignaturesTyped ==
    ASSUME ScanTypeOK
    PROVE  /\ archive_size \in Nat /\ archive_size <= MaxSize
           /\ \A s \in sigs : s \in Nat /\ s + SIG <= archive_size
           /\ Records \subseteq sigs /\ Candidates \subseteq Records
<1>1. archive_size \in Nat /\ archive_size <= MaxSize
  BY ScanConstants DEF ScanTypeOK
<1>2. ASSUME NEW s \in sigs
      PROVE  s \in Nat /\ s + SIG <= archive_size
  <2>1. s \in 0 .. archive_size - SIG
    BY <1>2 DEF ScanTypeOK, SignaturesIn
  <2>. QED
    BY <1>1, <2>1, ScanConstants
<1>. QED
  BY <1>1, <1>2 DEF Records, Candidates

(* There is a last one among the candidates. *)
LEMMA LatestIsLast ==
    ASSUME ScanTypeOK, Candidates # {}
    PROVE  Latest(Candidates) \in Candidates /\ \A t \in Candidates : t <= Latest(Candidates)
<1>1. \A s \in Candidates : s \in Nat /\ s <= archive_size
  BY SignaturesTyped, ScanConstants
<1>. DEFINE Behind == {n \in Nat : \E s \in Candidates : n = archive_size - s}
<1>2. Behind \in SUBSET Nat /\ Behind # {}
  <2>1. \A s \in Candidates : archive_size - s \in Behind
    BY <1>1, SignaturesTyped
  <2>. QED
    BY <2>1
<1>3. PICK n \in Behind : \A x \in Behind : n <= x
  <2>. HIDE DEF Behind
  <2>. QED
    BY <1>2, LeastElement
<1>4. PICK s \in Candidates : n = archive_size - s
  BY <1>3
<1>5. ASSUME NEW t \in Candidates
      PROVE  s >= t
  <2>1. archive_size - t \in Behind
    BY <1>1, SignaturesTyped
  <2>2. archive_size - s <= archive_size - t
    BY <1>3, <1>4, <2>1
  <2>. QED
    BY <1>1, <2>2, SignaturesTyped
<1>6. /\ Latest(Candidates) \in Candidates
      /\ \A t \in Candidates : Latest(Candidates) >= t
  BY <1>5 DEF Latest
<1>. QED
  BY <1>1, <1>6

(* The unsigned step back is the plain one: for the offset and the words    *)
(* there are, going below zero and back to a signed number lose nothing.    *)
LEMMA StepBackIsPlain ==
    ASSUME ScanTypeOK, cur_file_ofs >= 0
    PROVE  StepBack = cur_file_ofs - (BufSize - 3)
<1>. DEFINE x == cur_file_ofs - (BufSize - 3)
<1>. DEFINE half == Word \div 2
<1>1. /\ x \in Int /\ x < half /\ -x < half /\ half \in Nat /\ Word = 2 * half /\ half > 0
  BY ScanConstants, SignaturesTyped DEF ScanTypeOK
<1>2. x % Word = IF x >= 0 THEN x ELSE x + Word
  <2>. HIDE DEF x, half
  <2>1. Word \in Nat /\ Word > 0 /\ x < Word /\ -x < Word
    BY <1>1
  <2>. DEFINE r == x % Word
  <2>. DEFINE q == x \div Word
  <2>2. x = Word * q + r /\ r \in 0 .. Word - 1 /\ q \in Int
    BY <1>1, <2>1
  <2>. HIDE DEF q, r
  <2>3. q = 0 \/ q = -1
    <3>1. r \in Int /\ 0 <= r /\ r < Word
      BY <2>1, <2>2
    <3>2. ASSUME q >= 1
          PROVE  FALSE
      <4>1. Word * q >= Word
        BY <2>1, <2>2, <3>2
      <4>. QED
        BY <1>1, <2>1, <2>2, <3>1, <4>1
    <3>3. ASSUME q <= -2
          PROVE  FALSE
      <4>1. Word * q <= -2 * Word
        BY <2>1, <2>2, <3>3
      <4>. QED
        BY <1>1, <2>1, <2>2, <3>1, <4>1
    <3>. QED
      BY <2>2, <3>2, <3>3
  <2>. QED
    BY <1>1, <2>1, <2>2, <2>3 DEF r
<1>3. AtLeast0(x % Word) = x % Word
  BY <1>1, <1>2 DEF AtLeast0
<1>4. Signed(x % Word) = x
  <2>. HIDE DEF x
  <2>. QED
    BY <1>1, <1>2 DEF Signed
<1>. QED
  BY <1>3, <1>4 DEF StepBack

LEMMA ScanInitOK == ScanInit => ScanInv
<1>. SUFFICES ASSUME ScanInit PROVE ScanInv
  OBVIOUS
<1>0. archive_size \in Nat /\ archive_size <= MaxSize
  BY ScanConstants DEF ScanInit
<1>1. /\ cur_file_ofs \in 0 .. archive_size /\ cur_file_ofs >= archive_size - BufSize
  BY <1>0, ScanConstants DEF ScanInit, AtLeast0
<1>2. ScanTypeOK
  BY <1>0, <1>1, ScanConstants DEF ScanInit, ScanTypeOK
<1>3. BlockSize = archive_size - cur_file_ofs
  BY <1>0, <1>1, ScanConstants DEF BlockSize, AtMostBuf
<1>4. Unread
  BY <1>1, <1>2, <1>3, SignaturesTyped, ScanConstants DEF Unread
<1>5. scan = "none" => archive_size < RecSize
  BY DEF ScanInit
<1>. QED
  BY <1>0, <1>2, <1>4, <1>5, ScanConstants DEF ScanInit, ScanInv, FoundIsLast, MissedIsOutOfReach

LEMMA SigFoundKeeps == ScanInv /\ SigFound => ScanInv'
<1>. SUFFICES ASSUME ScanInv, SigFound PROVE ScanInv'
  OBVIOUS
<1>1. ScanTypeOK /\ cur_file_ofs >= 0 /\ Unread /\ Candidates # {}
  BY DEF ScanInv, SigFound
<1>. DEFINE c == Latest(Candidates)
<1>2. c \in Candidates /\ \A t \in Candidates : t <= c
  BY <1>1, LatestIsLast
<1>3. c \in Records /\ c \in Nat /\ c <= archive_size /\ cur_file_ofs <= c
  BY <1>1, <1>2, SignaturesTyped, ScanConstants DEF Candidates
<1>4. ASSUME NEW s \in Records
      PROVE  s <= c
  <2>1. s \in Nat /\ c \in Nat /\ cur_file_ofs \in Int /\ s \in sigs
    BY <1>1, <1>3, SignaturesTyped DEF ScanTypeOK
  <2>2. CASE cur_file_ofs <= s
    <3>1. s \in Candidates
      BY <1>1, <2>1, <2>2 DEF Candidates, Unread, Records
    <3>. QED
      BY <1>2, <3>1
  <2>3. CASE s < cur_file_ofs
    BY <1>3, <2>1, <2>3
  <2>. QED
    BY <2>1, <2>2, <2>3
<1>5. archive_size' = archive_size /\ sigs' = sigs /\ cur_file_ofs' = c /\ scan' = "found"
  BY DEF SigFound
<1>6. ScanTypeOK'
  <2>1. c \in -BufSize .. archive_size
    BY <1>1, <1>3, SignaturesTyped, ScanConstants
  <2>. QED
    BY <1>1, <1>5, <2>1 DEF ScanTypeOK
<1>7. FoundIsLast'
  BY <1>3, <1>4, <1>5 DEF FoundIsLast, Records
<1>. QED
  BY <1>5, <1>6, <1>7 DEF ScanInv, MissedIsOutOfReach

LEMMA NoneHere ==
    ASSUME ScanInv, scan = "read", cur_file_ofs >= 0, Candidates = {}
    PROVE  \A s \in Records : s < cur_file_ofs
<1>. SUFFICES ASSUME NEW s \in Records PROVE s < cur_file_ofs
  OBVIOUS
<1>1. ScanTypeOK /\ Unread
  BY DEF ScanInv
<1>2. s \in Nat /\ cur_file_ofs \in Int /\ s \in sigs /\ archive_size - s >= RecSize
  BY <1>1, SignaturesTyped DEF ScanTypeOK, Records
<1>. QED
  BY <1>1, <1>2 DEF Candidates, Unread

LEMMA GoBackKeeps == ScanInv /\ GoBack => ScanInv'
<1>. SUFFICES ASSUME ScanInv, GoBack PROVE ScanInv'
  OBVIOUS
<1>1. /\ ScanTypeOK /\ archive_size >= RecSize /\ cur_file_ofs \in Int /\ cur_file_ofs > 0
      /\ cur_file_ofs <= archive_size
  BY SignaturesTyped, ScanConstants DEF ScanInv, GoBack, TooFar, ScanTypeOK
<1>2. \A s \in Records : s < cur_file_ofs
  BY NoneHere DEF GoBack
<1>3. /\ archive_size' = archive_size /\ sigs' = sigs /\ scan' = scan /\ scan = "read"
      /\ cur_file_ofs' = cur_file_ofs - (BufSize - 3)
  BY <1>1, StepBackIsPlain DEF GoBack
<1>4. ScanTypeOK'
  <2>1. cur_file_ofs' \in -BufSize .. archive_size
    BY <1>1, <1>3, ScanConstants, SignaturesTyped
  <2>. QED
    BY <1>1, <1>3, <2>1 DEF ScanTypeOK
<1>5. Records' = Records
  BY <1>3 DEF Records
<1>6. ASSUME NEW s \in Records
      PROVE  /\ cur_file_ofs' < 0 => s < LowestRead'
             /\ cur_file_ofs' >= 0 => s + SIG <= cur_file_ofs' + BlockSize'
  <2>1. s \in Nat /\ s < cur_file_ofs /\ s + SIG <= archive_size
    BY <1>1, <1>2, SignaturesTyped
  <2>2. cur_file_ofs' < 0 => LowestRead' = cur_file_ofs
    BY <1>1, <1>3, ScanConstants DEF LowestRead
  <2>3. BlockSize' = IF archive_size - cur_file_ofs' < BufSize THEN archive_size - cur_file_ofs' ELSE BufSize
    BY <1>3 DEF BlockSize, AtMostBuf
  <2>. QED
    BY <1>1, <1>3, <2>1, <2>2, <2>3, ScanConstants, SignaturesTyped
<1>7. Unread'
  BY <1>1, <1>3, <1>5, <1>6, ScanConstants DEF Unread
<1>. QED
  BY <1>1, <1>3, <1>4, <1>7 DEF ScanInv, FoundIsLast, MissedIsOutOfReach

LEMMA GiveUpKeeps == ScanInv /\ GiveUp => ScanInv'
<1>. SUFFICES ASSUME ScanInv, GiveUp PROVE ScanInv'
  OBVIOUS
<1>1. /\ ScanTypeOK /\ cur_file_ofs \in Int /\ cur_file_ofs >= 0 /\ TooFar
  BY DEF ScanInv, GiveUp, ScanTypeOK
<1>2. \A s \in Records : s < cur_file_ofs
  BY NoneHere DEF GiveUp
<1>3. /\ archive_size' = archive_size /\ sigs' = sigs /\ scan' = "none" /\ cur_file_ofs' = cur_file_ofs
  BY DEF GiveUp
<1>4. LowestRead' = cur_file_ofs /\ Records' = Records
  BY <1>1, <1>3 DEF LowestRead, Records
<1>5. cur_file_ofs < BufSize - 3 \/ archive_size - cur_file_ofs >= TailLimit + RecSize
  BY <1>1, ScanConstants DEF TooFar
<1>. QED
  BY <1>1, <1>2, <1>3, <1>4, <1>5 DEF ScanInv, ScanTypeOK, FoundIsLast, MissedIsOutOfReach

LEMMA ReadNothingKeeps == ScanInv /\ ReadNothing => ScanInv'
<1>. SUFFICES ASSUME ScanInv, ReadNothing PROVE ScanInv'
  OBVIOUS
<1>1. /\ ScanTypeOK /\ cur_file_ofs \in Int /\ cur_file_ofs < 0 /\ Unread
  BY DEF ScanInv, ReadNothing, ScanTypeOK
<1>2. \A s \in Records : s < LowestRead
  BY <1>1 DEF Unread
<1>3. /\ archive_size' = archive_size /\ sigs' = sigs /\ scan' = "none" /\ cur_file_ofs' = cur_file_ofs
  BY DEF ReadNothing
<1>4. LowestRead' = LowestRead /\ Records' = Records /\ LowestRead < BufSize - 3
  BY <1>1, <1>3, ScanConstants DEF LowestRead, Records
<1>. QED
  BY <1>1, <1>2, <1>3, <1>4 DEF ScanInv, ScanTypeOK, FoundIsLast, MissedIsOutOfReach

LEMMA EndFoundKeeps == ScanInv /\ EndFound => ScanInv'
<1>. SUFFICES ASSUME ScanInv, EndFound PROVE ScanInv'
  OBVIOUS
<1>1. archive_size' = 0 /\ sigs' = {} /\ cur_file_ofs' = 0 /\ scan' = "over"
  BY DEF EndFound
<1>2. {} \in SignaturesIn(0)
  BY DEF SignaturesIn, Apart
<1>3. ScanTypeOK'
  BY <1>1, <1>2, ScanConstants DEF ScanTypeOK
<1>. QED
  BY <1>1, <1>3 DEF ScanInv, FoundIsLast, MissedIsOutOfReach

LEMMA ScanUnchanged == ScanInv /\ UNCHANGED scan_vars => ScanInv'
  BY DEF ScanInv, scan_vars, ScanTypeOK, Unread, Records, LowestRead, BlockSize, FoundIsLast, MissedIsOutOfReach
-----------------------------------------------------------------------------
(* The index: heap sort and binary search. *)

Record == 0 .. size - 1

LEMMA SizeTyped ==
    ASSUME IndexTypeOK
    PROVE  /\ size \in Nat /\ DOMAIN recs = Record /\ recs \in [Record -> Names]
           /\ pIndices \in [Record -> Record] /\ IsFiniteSet(Record)
<1>1. \E n \in Nat : recs \in [0 .. n - 1 -> Names]
  <2>1. CASE recs \in Directories
    BY <2>1, IndexAssumption DEF Directories
  <2>2. CASE recs = << >>
    <3>1. 0 .. 0 - 1 = {}
      OBVIOUS
    <3>2. recs \in [0 .. 0 - 1 -> Names]
      BY <2>2, <3>1
    <3>. QED
      BY <3>2
  <2>. QED
    BY <2>1, <2>2 DEF IndexTypeOK
<1>2. PICK n \in Nat : recs \in [0 .. n - 1 -> Names]
  BY <1>1
<1>3. DOMAIN recs = 0 .. n - 1
  BY <1>2
<1>4. IsFiniteSet(0 .. n - 1) /\ Cardinality(0 .. n - 1) = n
  <2>1. n - 1 \in Int /\ 0 \in Int
    BY <1>2
  <2>2. /\ IsFiniteSet(0 .. n - 1)
        /\ Cardinality(0 .. n - 1) = IF 0 > n - 1 THEN 0 ELSE n - 1 - 0 + 1
    BY <2>1, FS_Interval
  <2>. QED
    BY <1>2, <2>2
<1>5. size = n
  BY <1>3, <1>4 DEF size
<1>. QED
  BY <1>2, <1>3, <1>4, <1>5 DEF IndexTypeOK, Record

LEMMA PlaceTyped ==
    ASSUME IndexTypeOK, NEW i \in Record
    PROVE  i \in Nat /\ i < size /\ pIndices[i] \in Record /\ recs[pIndices[i]] \in Names
<1>1. size \in Nat /\ recs \in [Record -> Names] /\ pIndices \in [Record -> Record]
  BY SizeTyped
<1>. QED
  BY <1>1 DEF Record

LEMMA PlacesOrdered ==
    ASSUME IndexTypeOK
    PROVE  /\ \A i \in Record : NotAbove(i, i)
           /\ \A i, j \in Record : NotAbove(i, j) \/ NotAbove(j, i)
           /\ \A i, j, k \in Record : NotAbove(i, j) /\ NotAbove(j, k) => NotAbove(i, k)
<1>1. ASSUME NEW i \in Record, NEW j \in Record
      PROVE  NotAbove(i, j) \/ NotAbove(j, i)
  <2>1. recs[pIndices[i]] \in Names /\ recs[pIndices[j]] \in Names
    BY PlaceTyped
  <2>2. ~(filename_less(recs[pIndices[i]], recs[pIndices[j]]) /\ filename_less(recs[pIndices[j]], recs[pIndices[i]]))
    BY <2>1, OrderIsTotal
  <2>. QED
    BY <2>2 DEF NotAbove, Below
<1>2. ASSUME NEW i \in Record, NEW j \in Record, NEW k \in Record, NotAbove(i, j), NotAbove(j, k)
      PROVE  NotAbove(i, k)
  <2>1. recs[pIndices[i]] \in Names /\ recs[pIndices[j]] \in Names /\ recs[pIndices[k]] \in Names
    BY PlaceTyped
  <2>2. /\ ~filename_less(recs[pIndices[j]], recs[pIndices[i]])
        /\ ~filename_less(recs[pIndices[k]], recs[pIndices[j]])
    BY <1>2 DEF NotAbove, Below
  <2>3. ~filename_less(recs[pIndices[k]], recs[pIndices[i]])
    BY <2>1, <2>2, OrderIsTotal
  <2>. QED
    BY <2>3 DEF NotAbove, Below
<1>. QED
  BY <1>1, <1>2

LEMMA ParentOf ==
    ASSUME NEW i \in Nat \ {0}
    PROVE  /\ Parent(i) \in Nat /\ Parent(i) < i
           /\ \A r \in Nat : Parent(i) = r <=> i = 2 * r + 1 \/ i = 2 * r + 2
  BY DEF Parent

(* What an exchange does to the order of the places. *)
Partner(i, a, b) == IF i = a THEN b ELSE IF i = b THEN a ELSE i

LEMMA Exchanged ==
    ASSUME IndexTypeOK, NEW a \in Record, NEW b \in Record,
           recs' = recs, pIndices' = Swap(pIndices, a, b)
    PROVE  /\ pIndices' \in [Record -> Record]
           /\ Permutation => Permutation'
           /\ \A i \in Record : pIndices'[i] = pIndices[Partner(i, a, b)] /\ Partner(i, a, b) \in Record
           /\ \A i, j \in Record : NotAbove(i, j)' <=> NotAbove(Partner(i, a, b), Partner(j, a, b))
<1>1. pIndices \in [Record -> Record] /\ DOMAIN recs = Record
  BY SizeTyped
<1>2. ASSUME NEW i \in Record
      PROVE  pIndices'[i] = pIndices[Partner(i, a, b)] /\ Partner(i, a, b) \in Record
  BY <1>1 DEF Swap, Partner
<1>3. pIndices' \in [Record -> Record]
  BY <1>1 DEF Swap
<1>4. Permutation => Permutation'
  <2>. SUFFICES ASSUME Permutation, NEW i \in Record, NEW j \in Record, pIndices'[i] = pIndices'[j]
                PROVE  i = j
    BY <1>1 DEF Permutation
  <2>1. Partner(i, a, b) = Partner(j, a, b)
    BY <1>1, <1>2 DEF Permutation
  <2>. QED
    BY <2>1 DEF Partner
<1>5. ASSUME NEW i \in Record, NEW j \in Record
      PROVE  NotAbove(i, j)' <=> NotAbove(Partner(i, a, b), Partner(j, a, b))
  <2>1. pIndices'[i] = pIndices[Partner(i, a, b)] /\ pIndices'[j] = pIndices[Partner(j, a, b)]
    BY <1>2
  <2>. QED
    BY <2>1 DEF NotAbove, Below
<1>. QED
  BY <1>2, <1>3, <1>4, <1>5

(* The heap of the phase and the larger child of the root in it. *)
LEMMA ChildIsLarger ==
    ASSUME IndexTypeOK, root \in Nat, HeapEnd(pc) \in 0 .. size, HasChild
    PROVE  /\ Child(root) = 2 * root + 1 \/ Child(root) = 2 * root + 2
           /\ Child(root) \in 0 .. HeapEnd(pc) - 1 /\ Child(root) > root
           /\ \A i \in 1 .. HeapEnd(pc) - 1 : Parent(i) = root => NotAbove(i, Child(root))
<1>. DEFINE c == 2 * root + 1
<1>0. size \in Nat /\ HeapEnd(pc) \in Nat /\ HeapEnd(pc) <= size /\ c \in Nat /\ c < HeapEnd(pc)
  BY SizeTyped DEF HasChild
<1>1. c \in Record
  BY <1>0 DEF Record
<1>2. ASSUME NEW i \in 1 .. HeapEnd(pc) - 1, Parent(i) = root
      PROVE  i \in Record /\ (i = c \/ i = c + 1)
  BY <1>0, <1>2, ParentOf DEF Record
<1>3. CASE c + 1 < HeapEnd(pc) /\ Below(c, c + 1)
  <2>1. Child(root) = c + 1
    BY <1>3 DEF Child
  <2>2. c + 1 \in Record
    BY <1>0, <1>3 DEF Record
  <2>3. NotAbove(c, c + 1) /\ NotAbove(c + 1, c + 1)
    BY <1>1, <1>3, <2>2, PlacesOrdered DEF NotAbove
  <2>. QED
    BY <1>0, <1>2, <1>3, <2>1, <2>3
<1>4. CASE ~(c + 1 < HeapEnd(pc) /\ Below(c, c + 1))
  <2>1. Child(root) = c
    BY <1>4 DEF Child
  <2>2. ASSUME NEW i \in 1 .. HeapEnd(pc) - 1, Parent(i) = root
        PROVE  NotAbove(i, c)
    <3>1. CASE i = c
      BY <1>1, <3>1, PlacesOrdered
    <3>2. CASE i = c + 1
      BY <1>0, <1>4, <2>2, <3>2 DEF NotAbove
    <3>. QED
      BY <1>2, <2>2, <3>1, <3>2
  <2>. QED
    BY <1>0, <2>1, <2>2
<1>. QED
  BY <1>3, <1>4

(* When nothing sinks any more, the exception for the root is gone. *)
LEMMA RootSettled ==
    ASSUME IndexTypeOK, root \in Nat, HeapEnd(pc) \in 0 .. size, NEW lo \in Nat,
           HeapFrom(lo, HeapEnd(pc)), ~Sinks
    PROVE  \A i \in 1 .. HeapEnd(pc) - 1 : Parent(i) >= lo => NotAbove(i, Parent(i))
<1>. SUFFICES ASSUME NEW i \in 1 .. HeapEnd(pc) - 1, Parent(i) >= lo
              PROVE  NotAbove(i, Parent(i))
  OBVIOUS
<1>0. size \in Nat /\ HeapEnd(pc) \in Nat /\ HeapEnd(pc) <= size
  BY SizeTyped
<1>1. CASE Parent(i) # root
  BY <1>1 DEF HeapFrom
<1>2. CASE Parent(i) = root
  <2>1. HasChild
    BY <1>0, <1>2, ParentOf DEF HasChild
  <2>2. NotAbove(i, Child(root)) /\ Child(root) \in 0 .. HeapEnd(pc) - 1
    BY <1>2, <2>1, ChildIsLarger
  <2>3. NotAbove(Child(root), root)
    BY <2>1 DEF Sinks, NotAbove
  <2>4. i \in Record /\ root \in Record /\ Child(root) \in Record
    BY <1>0, <1>2, <2>2, ParentOf DEF Record
  <2>. QED
    BY <1>2, <2>2, <2>3, <2>4, PlacesOrdered
<1>. QED
  BY <1>1, <1>2

(* The first of a heap is its largest: else take the least place above it.  *)
LEMMA FirstIsLargest ==
    ASSUME IndexTypeOK, NEW bound \in 1 .. size,
           \A i \in 1 .. bound - 1 : NotAbove(i, Parent(i))
    PROVE  \A i \in 0 .. bound - 1 : NotAbove(i, 0)
<1>0. size \in Nat /\ bound \in Nat /\ bound >= 1 /\ bound <= size
  BY SizeTyped
<1>. DEFINE Larger == {i \in 0 .. bound - 1 : ~NotAbove(i, 0)}
<1>. SUFFICES ASSUME Larger # {} PROVE FALSE
  OBVIOUS
<1>1. PICK m \in Larger : \A i \in Larger : m <= i
  <2>1. Larger \in SUBSET Nat
    BY <1>0
  <2>. QED
    BY <2>1, LeastElement
<1>2. m \in 0 .. bound - 1 /\ ~NotAbove(m, 0) /\ 0 \in Record /\ m \in Record /\ m \in Nat
  BY <1>0 DEF Record
<1>3. m # 0
  BY <1>2, PlacesOrdered
<1>4. Parent(m) \in Nat /\ Parent(m) < m
  BY <1>2, <1>3, ParentOf
<1>5. Parent(m) \in 0 .. bound - 1 /\ Parent(m) \in Record /\ Parent(m) \notin Larger
  BY <1>0, <1>1, <1>2, <1>4 DEF Record
<1>6. NotAbove(Parent(m), 0) /\ NotAbove(m, Parent(m))
  BY <1>0, <1>2, <1>3, <1>5
<1>. QED
  BY <1>2, <1>5, <1>6, PlacesOrdered

(* Sifting keeps the heap, with the next place as the exception. *)
LEMMA SiftKeepsHeap ==
    ASSUME IndexTypeOK, Sift, NEW b \in 0 .. size, b = HeapEnd(pc), NEW lo \in Nat, root \in lo .. b - 1,
           HeapFrom(lo, b)
    PROVE  HeapFrom(lo, b)'
<1>. DEFINE r == root
<1>. DEFINE c == Child(root)
<1>0. size \in Nat /\ b \in Nat /\ b <= size /\ r \in Nat /\ r >= lo /\ r < b
  BY SizeTyped
<1>1. /\ c = 2 * r + 1 \/ c = 2 * r + 2
      /\ c \in 0 .. b - 1 /\ c > r
      /\ \A i \in 1 .. b - 1 : Parent(i) = r => NotAbove(i, c)
      /\ Below(r, c) /\ root' = c
  BY <1>0, ChildIsLarger DEF Sift, Sinks
<1>2. r \in Record /\ c \in Record /\ c \in Nat \ {0} /\ Parent(c) = r
  BY <1>0, <1>1, ParentOf DEF Record
<1>3. \A i, j \in Record : NotAbove(i, j)' <=> NotAbove(Partner(i, r, c), Partner(j, r, c))
  BY <1>2, Exchanged DEF Sift
<1>4. ASSUME NEW i \in 1 .. b - 1
      PROVE  /\ i \in Record /\ i \in Nat \ {0} /\ Parent(i) \in Record /\ Parent(i) \in Nat /\ Parent(i) < i
             /\ (Parent(i) >= lo /\ Parent(i) # r) => NotAbove(i, Parent(i))
             /\ (Parent(i) = r /\ r > 0 /\ Parent(r) >= lo) => NotAbove(i, Parent(r))
  BY <1>0, ParentOf DEF Record, HeapFrom
<1>5. ASSUME NEW i \in 1 .. b - 1, Parent(i) >= lo, Parent(i) # c
      PROVE  NotAbove(i, Parent(i))'
  <2>1. NotAbove(i, Parent(i))' <=> NotAbove(Partner(i, r, c), Partner(Parent(i), r, c))
    BY <1>3, <1>4
  <2>. HIDE DEF r, c
  <2>2. CASE i = c
    BY <1>1, <1>2, <2>1, <2>2, PlacesOrdered DEF Partner, NotAbove
  <2>3. CASE i # c /\ Parent(i) = r
    BY <1>1, <1>2, <1>4, <2>1, <2>3 DEF Partner
  <2>4. CASE i = r
    <3>1. c \in 1 .. b - 1 /\ r > 0
      BY <1>1, <1>2, <2>4, <1>4
    <3>2. NotAbove(c, Parent(r))
      BY <1>2, <1>4, <1>5, <2>4, <3>1
    <3>. QED
      BY <1>2, <1>4, <1>5, <2>1, <2>4, <3>2 DEF Partner
  <2>5. CASE i # c /\ i # r /\ Parent(i) # r
    BY <1>4, <1>5, <2>1, <2>5 DEF Partner
  <2>. QED
    BY <2>2, <2>3, <2>4, <2>5
<1>6. ASSUME NEW i \in 1 .. b - 1, Parent(i) = c, NEW q \in Record, q = r
      PROVE  NotAbove(i, q)'
  <2>1. NotAbove(i, q)' <=> NotAbove(Partner(i, r, c), Partner(q, r, c))
    BY <1>2, <1>3, <1>4
  <2>. HIDE DEF r, c
  <2>2. i # c /\ i # r /\ c # r /\ NotAbove(i, c)
    BY <1>0, <1>1, <1>2, <1>4, <1>6
  <2>. QED
    BY <1>6, <2>1, <2>2 DEF Partner
<1>7. ASSUME NEW i \in 1 .. b - 1, Parent(i) = root'
      PROVE  NotAbove(i, Parent(root))'
  BY <1>1, <1>2, <1>6, <1>7
<1>. QED
  BY <1>1, <1>5, <1>7 DEF HeapFrom
(* What every step keeps.  To the invariants of ZipIndex come what the      *)
(* variables are before and after they matter, that the index holds every   *)
(* record once at all times, and what an answer means of the index.         *)
Idle == pc = "closed" => l = 0 /\ h = -1 /\ found = -1

Asked == pc \in {"search", "answered"} => key \in Names /\ (pc = "search" => found = -1)

Answered ==
    pc = "answered" =>
        IF found = -1 THEN \A i \in Record : ~SameName(recs[pIndices[i]], key)
        ELSE SameName(recs[found], key)

DirInv ==
    /\ IndexTypeOK /\ Permutation /\ Idle /\ Asked
    /\ pc = "build" => size > 1
    /\ SortInv /\ Sorted /\ SearchInv /\ Answered

LEMMA DirectorySize ==
    ASSUME NEW D \in Directories
    PROVE  /\ Cardinality(DOMAIN D) \in Nat /\ DOMAIN D = 0 .. Cardinality(DOMAIN D) - 1
           /\ D \in [DOMAIN D -> Names]
<1>1. PICK n \in Nat : D \in [0 .. n - 1 -> Names]
  BY IndexAssumption DEF Directories
<1>2. DOMAIN D = 0 .. n - 1
  BY <1>1
<1>3. Cardinality(0 .. n - 1) = n
  <2>1. n - 1 \in Int /\ 0 \in Int
    BY <1>1
  <2>2. Cardinality(0 .. n - 1) = IF 0 > n - 1 THEN 0 ELSE n - 1 - 0 + 1
    BY <2>1, FS_Interval
  <2>. QED
    BY <1>1, <2>2
<1>. QED
  BY <1>1, <1>2, <1>3

LEMMA DirInitOK == IndexInit => DirInv
<1>. SUFFICES ASSUME IndexInit PROVE DirInv
  OBVIOUS
<1>1. recs = << >> /\ DOMAIN recs = {}
  BY DEF IndexInit
<1>2. size = 0
  BY <1>1, FS_EmptySet DEF size
<1>3. pIndices \in [DOMAIN recs -> DOMAIN recs]
  BY <1>1 DEF IndexInit
<1>4. IndexTypeOK
  BY <1>1, <1>2, <1>3 DEF IndexInit, IndexTypeOK
<1>. QED
  BY <1>1, <1>4 DEF IndexInit, DirInv, Permutation, Idle, Asked, SortInv, Sorted, SearchInv, Answered

LEMMA ReadDirectoryKeeps == DirInv /\ ReadDirectory => DirInv'
<1>. SUFFICES ASSUME DirInv, ReadDirectory PROVE DirInv'
  OBVIOUS
<1>1. PICK n \in Nat : size' = n /\ DOMAIN recs' = 0 .. n - 1
  BY DirectorySize DEF ReadDirectory, size
<1>2. recs' \in Directories /\ recs' \in [0 .. n - 1 -> Names]
  BY <1>1, DirectorySize DEF ReadDirectory
<1>3. pIndices' = [i \in 0 .. n - 1 |-> i]
  BY <1>1 DEF ReadDirectory
<1>4. /\ l' = 0 /\ h' = -1 /\ found' = -1 /\ end' \in Nat /\ key' \in Names \cup {<< >>}
  BY DEF ReadDirectory, DirInv, IndexTypeOK, Idle
<1>5. /\ recs' \in Directories \cup {<< >>} /\ pIndices' \in [DOMAIN recs' -> DOMAIN recs']
      /\ l' \in 0 .. size' /\ h' \in -1 .. size' - 1 /\ found' \in {-1} \cup DOMAIN recs'
  BY <1>1, <1>2, <1>3, <1>4
<1>6. Permutation'
  BY <1>1, <1>3 DEF Permutation
<1>7. CASE n <= 1
  <2>1. start' = 0 /\ root' = 0 /\ pc' = "ready"
    BY <1>1, <1>7 DEF ReadDirectory
  <2>2. IndexTypeOK'
    BY <1>1, <1>4, <1>5, <1>7, <2>1 DEF IndexTypeOK
  <2>3. ASSUME NEW i \in 0 .. n - 1, NEW j \in 0 .. n - 1
        PROVE  NotAbove(i, j)'
    <3>1. i = j /\ pIndices'[i] = i /\ recs'[i] \in Names
      BY <1>2, <1>3, <1>7
    <3>2. ~filename_less(recs'[i], recs'[i])
      BY <3>1, OrderIsTotal
    <3>. QED
      BY <3>1, <3>2 DEF NotAbove, Below
  <2>4. Sorted'
    BY <1>1, <1>6, <2>3 DEF Sorted
  <2>. QED
    BY <1>4, <1>6, <2>1, <2>2, <2>4 DEF DirInv, Idle, Asked, SortInv, SearchInv, Answered
<1>8. CASE n > 1
  <2>. DEFINE s == (n - 2) \div 2
  <2>1. start' = s /\ root' = s /\ pc' = "build"
    BY <1>1, <1>8 DEF ReadDirectory
  <2>2. s \in Nat /\ s <= n - 1
    BY <1>8
  <2>3. IndexTypeOK'
    BY <1>1, <1>4, <1>5, <1>8, <2>1, <2>2 DEF IndexTypeOK
  <2>4. ASSUME NEW i \in 1 .. n - 1
        PROVE  /\ ~(Parent(i) >= s /\ Parent(i) # s)
               /\ ~(s > 0 /\ Parent(s) >= s)
    <3>1. i \in Nat /\ i <= n - 1
      OBVIOUS
    <3>2. Parent(i) <= s /\ Parent(i) \in Nat
      BY <1>8, <3>1 DEF Parent
    <3>3. s > 0 => Parent(s) < s
      BY <2>2 DEF Parent
    <3>. QED
      BY <2>2, <3>2, <3>3 DEF Parent
  <2>5. HeapFrom(start, size)'
    BY <1>1, <2>1, <2>4 DEF HeapFrom
  <2>. QED
    BY <1>1, <1>4, <1>6, <1>8, <2>1, <2>3, <2>5 DEF DirInv, Idle, Asked, SortInv, Sorted, SearchInv, Answered
<1>. QED
  BY <1>7, <1>8

(* The bounds of the heap of the phase. *)
LEMMA HeapTyped ==
    ASSUME DirInv, pc \in {"build", "drain"}
    PROVE  /\ size \in Nat /\ size > 1 /\ HeapEnd(pc) \in 1 .. size
           /\ root \in Nat /\ root < HeapEnd(pc)
           /\ pc = "build" => start \in Nat /\ root >= start /\ HeapEnd(pc) = size
           /\ pc = "drain" => end \in Nat /\ HeapEnd(pc) = end /\ end < size
           /\ HeapFrom(IF pc = "build" THEN start ELSE 0, HeapEnd(pc))
<1>1. IndexTypeOK /\ size \in Nat
  BY SizeTyped DEF DirInv
<1>2. CASE pc = "build"
  BY <1>1, <1>2 DEF DirInv, IndexTypeOK, SortInv, HeapEnd
<1>3. CASE pc = "drain"
  BY <1>1, <1>3 DEF DirInv, IndexTypeOK, SortInv, HeapEnd
<1>. QED
  BY <1>2, <1>3

LEMMA SiftKeeps == DirInv /\ Sift => DirInv'
<1>. SUFFICES ASSUME DirInv, Sift PROVE DirInv'
  OBVIOUS
<1>. DEFINE b == HeapEnd(pc)
<1>. DEFINE c == Child(root)
<1>1. /\ IndexTypeOK /\ pc \in {"build", "drain"} /\ HasChild
      /\ size \in Nat /\ size > 1 /\ b \in 1 .. size /\ root \in Nat /\ root < b
      /\ DOMAIN recs = Record
  BY HeapTyped, SizeTyped DEF DirInv, Sift, Sinks
<1>2. c \in 0 .. b - 1 /\ c > root
  BY <1>1, ChildIsLarger
<1>3. root \in Record /\ c \in Record
  BY <1>1, <1>2 DEF Record
<1>4. /\ pIndices' \in [Record -> Record] /\ Permutation'
      /\ \A i, j \in Record : NotAbove(i, j)' <=> NotAbove(Partner(i, root, c), Partner(j, root, c))
  BY <1>1, <1>3, Exchanged DEF Sift, DirInv
<1>5. /\ recs' = recs /\ size' = size /\ start' = start /\ end' = end /\ key' = key
      /\ l' = l /\ h' = h /\ found' = found /\ pc' = pc /\ root' = c
  BY DEF Sift, size
<1>6. IndexTypeOK'
  <2>1. c \in Nat /\ (pc = "build" => c \in start .. size - 1) /\ (pc = "drain" => c \in 0 .. end - 1)
    BY <1>1, <1>2, HeapTyped
  <2>2. IndexTypeOK
    BY <1>1
  <2>. HIDE DEF c
  <2>. QED
    BY <1>1, <1>4, <1>5, <2>1, <2>2 DEF IndexTypeOK
<1>7. ASSUME NEW lo \in Nat, NEW q \in 0 .. size, q = b, root >= lo, HeapFrom(lo, q)
      PROVE  HeapFrom(lo, q)'
  <2>1. root \in lo .. q - 1 /\ q = HeapEnd(pc)
    BY <1>1, <1>7
  <2>. QED
    BY <1>1, <1>7, <2>1, SiftKeepsHeap
<1>8. CASE pc = "build"
  <2>1. HeapFrom(start, size)'
    <3>1. start \in Nat /\ size \in 0 .. size /\ size = b /\ root >= start /\ HeapFrom(start, size)
      BY <1>1, <1>8, HeapTyped
    <3>2. ASSUME NEW lo \in Nat, NEW q \in 0 .. size, lo = start, q = size
          PROVE  HeapFrom(lo, q)'
      BY <1>7, <3>1, <3>2
    <3>. QED
      BY <1>5, <3>1, <3>2
  <2>. QED
    BY <1>1, <1>4, <1>5, <1>6, <1>8, <2>1 DEF DirInv, Idle, Asked, SortInv, Sorted, SearchInv, Answered
<1>9. CASE pc = "drain"
  <2>0. b = end /\ end \in Nat /\ end < size /\ end >= 1
    BY <1>1, <1>9, HeapTyped
  <2>1. HeapFrom(0, end)'
    <3>1. HeapFrom(0, end) /\ end \in 0 .. size
      BY <1>1, <1>9, <2>0, HeapTyped
    <3>2. ASSUME NEW q \in 0 .. size, q = end
          PROVE  HeapFrom(0, q)'
      BY <1>1, <1>7, <2>0, <3>1, <3>2
    <3>. QED
      BY <1>5, <3>1, <3>2
  <2>2. ASSUME NEW i \in 0 .. end - 1, NEW j \in end .. size - 1
        PROVE  NotAbove(i, j)'
    <3>1. i \in Record /\ j \in Record /\ j # root /\ j # c /\ Partner(i, root, c) \in 0 .. end - 1
      BY <1>1, <1>2, <2>0 DEF Record, Partner
    <3>2. Partner(j, root, c) = j
      BY <3>1 DEF Partner
    <3>3. \A k \in 0 .. end - 1 : NotAbove(k, j)
      BY <1>9 DEF DirInv, SortInv
    <3>. QED
      BY <1>4, <3>1, <3>2, <3>3
  <2>3. ASSUME NEW i \in end .. size - 1, NEW j \in end .. size - 1, i <= j
        PROVE  NotAbove(i, j)'
    <3>1. /\ i \in Record /\ j \in Record /\ i # root /\ i # c /\ j # root /\ j # c
      BY <1>1, <1>2, <2>0 DEF Record
    <3>2. Partner(i, root, c) = i /\ Partner(j, root, c) = j
      BY <3>1 DEF Partner
    <3>3. NotAbove(i, j)
      BY <1>9, <2>3 DEF DirInv, SortInv
    <3>. QED
      BY <1>4, <3>1, <3>2, <3>3
  <2>4. SortInv'
    BY <1>5, <1>9, <2>1, <2>2, <2>3 DEF SortInv
  <2>. QED
    BY <1>1, <1>4, <1>5, <1>6, <1>9, <2>4 DEF DirInv, Idle, Asked, Sorted, SearchInv, Answered
<1>. QED
  BY <1>1, <1>8, <1>9

LEMMA BuildNextKeeps == DirInv /\ BuildNext => DirInv'
<1>. SUFFICES ASSUME DirInv, BuildNext PROVE DirInv'
  OBVIOUS
<1>1. /\ IndexTypeOK /\ pc = "build" /\ ~Sinks /\ start > 0
      /\ size \in Nat /\ size > 1 /\ HeapEnd(pc) = size /\ HeapEnd(pc) \in 0 .. size
      /\ root \in Nat /\ root < size /\ start \in Nat /\ root >= start
      /\ HeapFrom(start, HeapEnd(pc))
  BY HeapTyped DEF DirInv, BuildNext
<1>2. \A i \in 1 .. size - 1 : Parent(i) >= start => NotAbove(i, Parent(i))
  BY <1>1, RootSettled
<1>3. /\ recs' = recs /\ pIndices' = pIndices /\ size' = size /\ end' = end /\ key' = key
      /\ l' = l /\ h' = h /\ found' = found /\ pc' = pc /\ root' = start - 1 /\ start' = start - 1
  BY DEF BuildNext, size
<1>4. IndexTypeOK'
  <2>1. start - 1 \in Nat /\ start - 1 <= (size - 2) \div 2 /\ start - 1 \in start - 1 .. size - 1
    BY <1>1 DEF IndexTypeOK
  <2>. QED
    BY <1>1, <1>3, <2>1 DEF IndexTypeOK
<1>5. \A i, j \in Record : NotAbove(i, j)' <=> NotAbove(i, j)
  BY <1>3 DEF NotAbove, Below
<1>6. ASSUME NEW i \in 1 .. size - 1
      PROVE  /\ (Parent(i) >= start - 1 /\ Parent(i) # start - 1) => NotAbove(i, Parent(i))'
             /\ ~(start - 1 > 0 /\ Parent(start - 1) >= start - 1)
  <2>1. i \in Record /\ Parent(i) \in Record /\ Parent(i) \in Nat
    BY <1>1, ParentOf DEF Record
  <2>2. start - 1 > 0 => Parent(start - 1) \in Nat /\ Parent(start - 1) < start - 1
    BY <1>1, ParentOf
  <2>. QED
    BY <1>1, <1>2, <1>5, <2>1, <2>2
<1>7. HeapFrom(start, size)'
  BY <1>3, <1>6 DEF HeapFrom
<1>. QED
  BY <1>1, <1>3, <1>4, <1>7 DEF DirInv, Permutation, Idle, Asked, SortInv, Sorted, SearchInv, Answered
(* The two steps that take the first of the heap to its end. *)
LEMMA TakeKeeps ==
    ASSUME DirInv, pc \in {"build", "drain"}, ~Sinks, pc = "build" => start = 0,
           NEW e \in Nat, e = HeapEnd(pc) - 1, e >= 1,
           pIndices' = Swap(pIndices, e, 0), end' = e, root' = 0, pc' = "drain",
           UNCHANGED <<recs, start, key, l, h, found>>
    PROVE  DirInv'
<1>1. /\ IndexTypeOK /\ size \in Nat /\ size > 1 /\ e < size /\ HeapEnd(pc) = e + 1
      /\ HeapEnd(pc) \in 0 .. size /\ HeapEnd(pc) \in 1 .. size /\ root \in Nat
      /\ HeapFrom(0, HeapEnd(pc)) /\ DOMAIN recs = Record
  BY HeapTyped, SizeTyped DEF DirInv
<1>2. \A i \in 1 .. HeapEnd(pc) - 1 : NotAbove(i, Parent(i))
  BY <1>1, RootSettled, ParentOf
<1>3. \A i \in 0 .. e : NotAbove(i, 0)
  BY <1>1, <1>2, FirstIsLargest
<1>4. e \in Record /\ 0 \in Record
  BY <1>1 DEF Record
<1>5. /\ pIndices' \in [Record -> Record] /\ Permutation'
      /\ \A i, j \in Record : NotAbove(i, j)' <=> NotAbove(Partner(i, e, 0), Partner(j, e, 0))
  BY <1>1, <1>4, Exchanged DEF DirInv
<1>6. size' = size
  BY DEF size
<1>7. IndexTypeOK'
  BY <1>1, <1>5, <1>6 DEF IndexTypeOK
<1>8. HeapFrom(0, e)'
  <2>1. ASSUME NEW i \in 1 .. e - 1, Parent(i) # 0
        PROVE  NotAbove(i, Parent(i))'
    <3>1. i \in Nat \ {0} /\ Parent(i) \in Nat /\ Parent(i) < i
      BY ParentOf
    <3>2. /\ i \in Record /\ Parent(i) \in Record
          /\ Partner(i, e, 0) = i /\ Partner(Parent(i), e, 0) = Parent(i)
      BY <1>1, <2>1, <3>1 DEF Record, Partner
    <3>3. NotAbove(i, Parent(i))
      BY <1>1, <1>2, <3>1
    <3>. QED
      BY <1>5, <3>2, <3>3
  <2>. QED
    BY <2>1 DEF HeapFrom
(* The places behind the heap, unless they were there before. *)
<1>9. ASSUME NEW i \in 0 .. size - 1, NEW j \in e + 1 .. size - 1, i <= j
      PROVE  NotAbove(i, j)
  <2>1. pc = "drain" /\ HeapEnd(pc) = end
    BY <1>1, <1>9, HeapTyped
  <2>2. /\ \A a \in 0 .. end - 1 : \A b \in end .. size - 1 : NotAbove(a, b)
        /\ \A a, b \in end .. size - 1 : a <= b => NotAbove(a, b)
    BY <2>1 DEF DirInv, SortInv
  <2>3. end = e + 1 /\ i \in Nat /\ j \in Nat /\ j \in end .. size - 1
    <3>1. end = e + 1
      BY <1>1, <2>1
    <3>2. i \in Nat /\ j \in Nat /\ j \in e + 1 .. size - 1
      BY <1>1
    <3>. QED
      BY <3>1, <3>2
  <2>4. CASE i < end
    BY <2>2, <2>3, <2>4
  <2>5. CASE i >= end
    BY <1>1, <1>9, <2>2, <2>3, <2>5
  <2>. QED
    BY <2>3, <2>4, <2>5
<1>10. ASSUME NEW i \in 0 .. size - 1, NEW j \in e .. size - 1, i <= j
       PROVE  NotAbove(i, j)'
  <2>1. i \in Record /\ j \in Record /\ i \in Nat /\ j \in Nat
    BY <1>1 DEF Record
  <2>2. CASE j = e
    <3>1. Partner(j, e, 0) = 0 /\ Partner(i, e, 0) \in 0 .. e
      BY <1>1, <1>10, <2>1, <2>2 DEF Partner
    <3>. QED
      BY <1>3, <1>5, <2>1, <3>1
  <2>3. CASE j # e
    <3>1. j \in e + 1 .. size - 1 /\ Partner(j, e, 0) = j
      BY <1>1, <2>1, <2>3 DEF Partner
    <3>2. Partner(i, e, 0) \in 0 .. size - 1 /\ Partner(i, e, 0) <= j
      BY <1>1, <1>10, <2>1, <3>1 DEF Partner
    <3>. QED
      BY <1>5, <1>9, <2>1, <3>1, <3>2
  <2>. QED
    BY <2>2, <2>3
<1>11. SortInv'
  <2>1. \A i \in 0 .. e - 1 : \A j \in e .. size - 1 : NotAbove(i, j)'
    BY <1>1, <1>10
  <2>2. \A i, j \in e .. size - 1 : i <= j => NotAbove(i, j)'
    BY <1>1, <1>10
  <2>3. HeapFrom(0, end)'
    <3>1. ASSUME NEW q, q = e
          PROVE  HeapFrom(0, q)'
      BY <1>8, <3>1
    <3>. QED
      BY <3>1
  <2>. QED
    BY <1>6, <2>1, <2>2, <2>3 DEF SortInv
<1>. QED
  BY <1>1, <1>5, <1>6, <1>7, <1>11 DEF DirInv, Idle, Asked, Sorted, SearchInv, Answered

LEMMA TakeFirstKeeps == DirInv /\ TakeFirst => DirInv'
<1>. SUFFICES ASSUME DirInv, TakeFirst PROVE DirInv'
  OBVIOUS
<1>1. size \in Nat /\ size > 1 /\ HeapEnd(pc) = size /\ pc = "build" /\ start = 0 /\ ~Sinks
  BY HeapTyped DEF TakeFirst
<1>. DEFINE e == size - 1
<1>2. /\ e \in Nat /\ e = HeapEnd(pc) - 1 /\ e >= 1
      /\ pIndices' = Swap(pIndices, e, 0) /\ end' = e /\ root' = 0 /\ pc' = "drain"
      /\ UNCHANGED <<recs, start, key, l, h, found>>
  BY <1>1 DEF TakeFirst
<1>. HIDE DEF e
<1>. QED
  BY <1>1, <1>2, TakeKeeps

LEMMA TakeNextKeeps == DirInv /\ TakeNext => DirInv'
<1>. SUFFICES ASSUME DirInv, TakeNext PROVE DirInv'
  OBVIOUS
<1>1. pc = "drain" /\ end \in Nat /\ end > 1 /\ HeapEnd(pc) = end /\ ~Sinks
  BY HeapTyped DEF TakeNext
<1>. DEFINE e == end - 1
<1>2. /\ e \in Nat /\ e = HeapEnd(pc) - 1 /\ e >= 1
      /\ pIndices' = Swap(pIndices, e, 0) /\ end' = e /\ root' = 0 /\ pc' = "drain"
      /\ UNCHANGED <<recs, start, key, l, h, found>>
  BY <1>1 DEF TakeNext
<1>. HIDE DEF e
<1>. QED
  BY <1>1, <1>2, TakeKeeps

LEMMA TakeLastKeeps == DirInv /\ TakeLast => DirInv'
<1>. SUFFICES ASSUME DirInv, TakeLast PROVE DirInv'
  OBVIOUS
<1>1. IndexTypeOK /\ size \in Nat /\ DOMAIN recs = Record /\ pc = "drain" /\ end = 1
  BY SizeTyped DEF DirInv, TakeLast
<1>2. /\ recs' = recs /\ pIndices' = pIndices /\ size' = size /\ end' = 0 /\ key' = key /\ start' = start
      /\ l' = l /\ h' = h /\ found' = found /\ pc' = "ready" /\ root' = root
  BY DEF TakeLast, size
<1>3. ASSUME NEW i \in Record, NEW j \in Record, i <= j
      PROVE  NotAbove(i, j)
  <2>1. i \in Nat /\ j \in Nat /\ i < size /\ j < size
    BY <1>1, PlaceTyped
  <2>2. CASE j = 0
    BY <1>1, <1>3, <2>1, <2>2, PlacesOrdered
  <2>3. CASE j > 0 /\ i = 0
    BY <1>1, <2>1, <2>3 DEF DirInv, SortInv
  <2>4. CASE j > 0 /\ i > 0
    BY <1>1, <1>3, <2>1, <2>4 DEF DirInv, SortInv
  <2>. QED
    BY <2>1, <2>2, <2>3, <2>4
<1>4. \A i, j \in Record : NotAbove(i, j)' <=> NotAbove(i, j)
  BY <1>2 DEF NotAbove, Below
<1>5. IndexTypeOK'
  BY <1>1, <1>2 DEF IndexTypeOK
<1>6. Permutation' /\ Sorted'
  BY <1>1, <1>2, <1>3, <1>4 DEF DirInv, Sorted, Permutation
<1>. QED
  BY <1>2, <1>5, <1>6 DEF DirInv, Idle, Asked, SortInv, SearchInv, Answered

-----------------------------------------------------------------------------
LEMMA LocateKeeps == DirInv /\ Locate => DirInv'
<1>. SUFFICES ASSUME DirInv, Locate PROVE DirInv'
  OBVIOUS
<1>1. /\ IndexTypeOK /\ size \in Nat /\ DOMAIN recs = Record
      /\ recs' = recs /\ pIndices' = pIndices /\ size' = size /\ end' = end /\ start' = start /\ root' = root
      /\ key' \in Names /\ l' = 0 /\ h' = size - 1 /\ found' = -1 /\ pc' = "search" /\ pc = "ready"
  BY SizeTyped DEF DirInv, Locate, size
<1>2. IndexTypeOK'
  BY <1>1 DEF IndexTypeOK
<1>3. SearchInv'
  BY <1>1 DEF SearchInv, Record
<1>4. Permutation' /\ Sorted'
  BY <1>1 DEF DirInv, Permutation, Sorted, NotAbove, Below
<1>. QED
  BY <1>1, <1>2, <1>3, <1>4 DEF DirInv, Idle, Asked, SortInv, Answered

(* The middle of the interval, and what lies on either side of it. *)
LEMMA MiddleOf ==
    ASSUME DirInv, pc = "search", l <= h
    PROVE  /\ Middle \in Record /\ l <= Middle /\ Middle <= h /\ Middle \in Nat
           /\ Comp < 0 => \A i \in Record : i <= Middle => ~SameName(recs[pIndices[i]], key)
           /\ Comp > 0 => \A i \in Record : i >= Middle => ~SameName(recs[pIndices[i]], key)
           /\ Comp = 0 <=> SameName(recs[pIndices[Middle]], key)
           /\ Comp \in Int
<1>1. /\ IndexTypeOK /\ size \in Nat /\ DOMAIN recs = Record /\ key \in Names
      /\ l \in Nat /\ h \in Int /\ h <= size - 1
  BY SizeTyped DEF DirInv, Asked, IndexTypeOK
<1>2. l <= Middle /\ Middle <= h /\ Middle \in Nat
  BY <1>1 DEF Middle
<1>. DEFINE m == Middle
<1>. DEFINE name == recs[pIndices[m]]
<1>3. m \in Record
  BY <1>1, <1>2 DEF Record
<1>4. name \in Names
  BY <1>1, <1>3, PlaceTyped
<1>5. /\ Comp \in Int /\ (Comp < 0 <=> filename_less(name, key)) /\ (Comp > 0 <=> filename_less(key, name))
      /\ Comp = 0 <=> SameName(name, key)
  BY <1>1, <1>4, OrderIsTotal DEF Comp
<1>6. ASSUME NEW i \in Record, SameName(recs[pIndices[i]], key)
      PROVE  /\ Comp < 0 => ~(i <= m)
             /\ Comp > 0 => ~(i >= m)
  <2>. DEFINE other == recs[pIndices[i]]
  <2>1. other \in Names
    BY <1>1, PlaceTyped
  <2>2. ~filename_less(other, key) /\ ~filename_less(key, other)
    BY <1>1, <1>6, <2>1, OrderIsTotal
  <2>3. i <= m => ~filename_less(name, other)
    BY <1>1, <1>3 DEF DirInv, Sorted, NotAbove, Below
  <2>4. i >= m => ~filename_less(other, name)
    BY <1>1, <1>3, PlaceTyped DEF DirInv, Sorted, NotAbove, Below
  <2>. HIDE DEF name, other, m
  <2>5. i <= m => ~filename_less(name, key)
    BY <1>1, <1>4, <2>1, <2>2, <2>3, OrderIsTotal
  <2>6. i >= m => ~filename_less(key, name)
    BY <1>1, <1>4, <2>1, <2>2, <2>4, OrderIsTotal
  <2>. QED
    BY <1>5, <2>5, <2>6
<1>. QED
  BY <1>2, <1>3, <1>5, <1>6

LEMMA GoRightKeeps == DirInv /\ GoRight => DirInv'
<1>. SUFFICES ASSUME DirInv, GoRight PROVE DirInv'
  OBVIOUS
<1>1. /\ IndexTypeOK /\ size \in Nat /\ DOMAIN recs = Record /\ pc = "search" /\ l <= h /\ Comp < 0
      /\ recs' = recs /\ pIndices' = pIndices /\ size' = size /\ end' = end /\ start' = start /\ root' = root
      /\ key' = key /\ l' = Middle + 1 /\ h' = h /\ found' = found /\ pc' = pc
  BY SizeTyped DEF DirInv, GoRight, size
<1>2. /\ Middle \in Nat /\ Middle < size
      /\ \A i \in Record : i <= Middle => ~SameName(recs[pIndices[i]], key)
  BY <1>1, MiddleOf, PlaceTyped
<1>3. IndexTypeOK'
  BY <1>1, <1>2 DEF IndexTypeOK
<1>4. SearchInv'
  BY <1>1, <1>2, PlaceTyped DEF DirInv, SearchInv
<1>5. Permutation' /\ Sorted'
  BY <1>1 DEF DirInv, Permutation, Sorted, NotAbove, Below
<1>. QED
  BY <1>1, <1>3, <1>4, <1>5 DEF DirInv, Idle, Asked, SortInv, Answered

LEMMA GoLeftKeeps == DirInv /\ GoLeft => DirInv'
<1>. SUFFICES ASSUME DirInv, GoLeft PROVE DirInv'
  OBVIOUS
<1>1. /\ IndexTypeOK /\ size \in Nat /\ DOMAIN recs = Record /\ pc = "search" /\ l <= h /\ Comp > 0
      /\ recs' = recs /\ pIndices' = pIndices /\ size' = size /\ end' = end /\ start' = start /\ root' = root
      /\ key' = key /\ l' = l /\ h' = Middle - 1 /\ found' = found /\ pc' = pc
  BY SizeTyped DEF DirInv, GoLeft, size
<1>2. /\ Middle \in Nat /\ Middle < size
      /\ \A i \in Record : i >= Middle => ~SameName(recs[pIndices[i]], key)
  BY <1>1, MiddleOf, PlaceTyped
<1>3. IndexTypeOK'
  BY <1>1, <1>2 DEF IndexTypeOK
<1>4. SearchInv'
  BY <1>1, <1>2, PlaceTyped DEF DirInv, SearchInv
<1>5. Permutation' /\ Sorted'
  BY <1>1 DEF DirInv, Permutation, Sorted, NotAbove, Below
<1>. QED
  BY <1>1, <1>3, <1>4, <1>5 DEF DirInv, Idle, Asked, SortInv, Answered

LEMMA HitKeeps == DirInv /\ Hit => DirInv'
<1>. SUFFICES ASSUME DirInv, Hit PROVE DirInv'
  OBVIOUS
<1>1. /\ IndexTypeOK /\ size \in Nat /\ DOMAIN recs = Record /\ pc = "search" /\ l <= h /\ Comp = 0
      /\ recs' = recs /\ pIndices' = pIndices /\ size' = size /\ end' = end /\ start' = start /\ root' = root
      /\ key' = key /\ l' = l /\ h' = h /\ found' = pIndices[Middle] /\ pc' = "answered"
  BY SizeTyped DEF DirInv, Hit, size
<1>2. SameName(recs[pIndices[Middle]], key) /\ pIndices[Middle] \in Record
  BY <1>1, MiddleOf, PlaceTyped
<1>3. IndexTypeOK'
  BY <1>1, <1>2 DEF IndexTypeOK
<1>4. found' # -1 /\ SearchInv'
  BY <1>1, <1>2 DEF DirInv, SearchInv, Record
<1>5. Permutation' /\ Sorted'
  BY <1>1 DEF DirInv, Permutation, Sorted, NotAbove, Below
<1>6. Answered'
  BY <1>1, <1>2, <1>4 DEF Answered
<1>. QED
  BY <1>1, <1>3, <1>4, <1>5, <1>6 DEF DirInv, Idle, Asked, SortInv

(* Nothing is left between l and h, and what is outside is of other names.  *)
LEMMA MissKeeps == DirInv /\ Miss => DirInv'
<1>. SUFFICES ASSUME DirInv, Miss PROVE DirInv'
  OBVIOUS
<1>1. /\ IndexTypeOK /\ size \in Nat /\ DOMAIN recs = Record /\ pc = "search" /\ l > h
      /\ recs' = recs /\ pIndices' = pIndices /\ size' = size /\ end' = end /\ start' = start /\ root' = root
      /\ key' = key /\ l' = l /\ h' = h /\ found' = found /\ found = -1 /\ pc' = "answered"
  BY SizeTyped DEF DirInv, Asked, Miss, size
<1>2. ASSUME NEW i \in Record
      PROVE  ~SameName(recs[pIndices[i]], key)
  <2>1. i \in Int /\ l \in Int /\ h \in Int
    BY <1>1 DEF Record, IndexTypeOK
  <2>2. i < l \/ i > h
    BY <1>1, <2>1
  <2>. QED
    BY <1>1, <2>2 DEF DirInv, SearchInv
<1>3. IndexTypeOK' /\ SearchInv' /\ Permutation' /\ Sorted'
  BY <1>1 DEF DirInv, IndexTypeOK, SearchInv, Permutation, Sorted, NotAbove, Below
<1>4. Answered'
  BY <1>1, <1>2 DEF Answered, Record
<1>. QED
  BY <1>1, <1>3, <1>4 DEF DirInv, Idle, Asked, SortInv

LEMMA ReturnKeeps == DirInv /\ Return => DirInv'
<1>. SUFFICES ASSUME DirInv, Return PROVE DirInv'
  OBVIOUS
<1>1. /\ IndexTypeOK /\ size \in Nat /\ DOMAIN recs = Record /\ pc = "answered"
      /\ recs' = recs /\ pIndices' = pIndices /\ size' = size /\ end' = end /\ start' = start /\ root' = root
      /\ key' = << >> /\ l' = 0 /\ h' = -1 /\ found' = -1 /\ pc' = "ready"
  BY SizeTyped DEF DirInv, Return, size
<1>2. IndexTypeOK' /\ Permutation' /\ Sorted'
  BY <1>1 DEF DirInv, IndexTypeOK, Permutation, Sorted, NotAbove, Below
<1>. QED
  BY <1>1, <1>2 DEF DirInv, Idle, Asked, SortInv, SearchInv, Answered

LEMMA DirUnchanged == DirInv /\ UNCHANGED index_vars => DirInv'
<1>. SUFFICES ASSUME DirInv, UNCHANGED index_vars PROVE DirInv'
  OBVIOUS
<1>1. /\ recs' = recs /\ pIndices' = pIndices /\ size' = size /\ end' = end /\ start' = start /\ root' = root
      /\ key' = key /\ l' = l /\ h' = h /\ found' = found /\ pc' = pc
  BY DEF index_vars, size
<1>2. ASSUME NEW lo, NEW b
      PROVE  HeapFrom(lo, b)' = HeapFrom(lo, b)
  BY <1>1 DEF HeapFrom, NotAbove, Below
<1>3. HeapFrom(start, size)' = HeapFrom(start, size) /\ HeapFrom(0, end)' = HeapFrom(0, end)
  BY <1>1, <1>2
<1>4. SortInv'
  BY <1>1, <1>3 DEF DirInv, SortInv, NotAbove, Below
<1>5. IndexTypeOK' /\ Permutation' /\ Sorted' /\ SearchInv'
  BY <1>1 DEF DirInv, IndexTypeOK, Permutation, Sorted, SearchInv, NotAbove, Below
<1>. QED
  BY <1>1, <1>4, <1>5 DEF DirInv, Idle, Asked, Answered, Record

(* The index, without doubles among finitely many records, has them all. *)
LEMMA IndexHasAll ==
    ASSUME IndexTypeOK, Permutation
    PROVE  \A i \in Record : \E j \in Record : pIndices[j] = i
<1>1. pIndices \in [Record -> Record] /\ IsFiniteSet(Record) /\ DOMAIN recs = Record
  BY SizeTyped
<1>2. pIndices \in Injection(Record, Record)
  BY <1>1 DEF Permutation, Injection, IsInjective
<1>3. pIndices \in Surjection(Record, Record)
  BY <1>1, <1>2, FS_Injection
<1>. QED
  BY <1>3 DEF Surjection

LEMMA AnswersAreExact == DirInv => LocateIsExact
<1>. SUFFICES ASSUME DirInv, pc = "answered" PROVE LocateIsExact
  BY DEF LocateIsExact
<1>1. DOMAIN recs = Record /\ IndexTypeOK /\ Permutation
  BY SizeTyped DEF DirInv
<1>2. CASE found = -1
  <2>1. \A i \in Record : ~SameName(recs[pIndices[i]], key)
    BY <1>2 DEF DirInv, Answered
  <2>2. \A i \in Record : ~SameName(recs[i], key)
    BY <1>1, <2>1, IndexHasAll
  <2>. QED
    BY <1>1, <1>2, <2>2 DEF LocateIsExact
<1>3. CASE found # -1
  <2>1. SameName(recs[found], key) /\ found \in DOMAIN recs
    BY <1>3 DEF DirInv, Answered, IndexTypeOK
  <2>. QED
    BY <1>3, <2>1 DEF LocateIsExact
<1>. QED
  BY <1>2, <1>3

-----------------------------------------------------------------------------
OpenInv == ScanInv /\ DirInv

LEMMA OpenInitOK == Init => OpenInv
  BY ScanInitOK, DirInitOK DEF Init, OpenInv

LEMMA OpenInductive == OpenInv /\ [Next]_vars => OpenInv'
<1>. SUFFICES ASSUME OpenInv, [Next]_vars PROVE OpenInv'
  OBVIOUS
<1>1. CASE FindEnd
  <2>1. ScanInv'
    BY <1>1, SigFoundKeeps, GoBackKeeps, GiveUpKeeps, ReadNothingKeeps DEF FindEnd, ScanNext, OpenInv
  <2>2. DirInv'
    BY <1>1, DirUnchanged DEF FindEnd, OpenInv
  <2>. QED
    BY <2>1, <2>2 DEF OpenInv
<1>2. CASE EndFound
  BY <1>2, EndFoundKeeps, DirUnchanged DEF EndFound, OpenInv
<1>3. CASE ReadCentralDir
  BY <1>3, ScanUnchanged, ReadDirectoryKeeps DEF ReadCentralDir, OpenInv
<1>4. CASE Sort /\ UNCHANGED scan_vars
  <2>1. DirInv'
    BY <1>4, SiftKeeps, BuildNextKeeps, TakeFirstKeeps, TakeNextKeeps, TakeLastKeeps DEF Sort, OpenInv
  <2>. QED
    BY <1>4, <2>1, ScanUnchanged DEF OpenInv
<1>5. CASE LookUp
  BY <1>5, LocateKeeps, ReturnKeeps, ScanUnchanged DEF LookUp, OpenInv
<1>6. CASE Search /\ UNCHANGED scan_vars
  <2>1. DirInv'
    BY <1>6, GoRightKeeps, GoLeftKeeps, HitKeeps, MissKeeps DEF Search, OpenInv
  <2>. QED
    BY <1>6, <2>1, ScanUnchanged DEF OpenInv
<1>7. CASE UNCHANGED vars
  BY <1>7, ScanUnchanged, DirUnchanged DEF vars, OpenInv
<1>. QED
  BY <1>1, <1>2, <1>3, <1>4, <1>5, <1>6, <1>7 DEF Next, Open

LEMMA Invariance == Spec => []OpenInv
<1>1. Init => OpenInv
  BY OpenInitOK
<1>2. OpenInv /\ [Next]_vars => OpenInv'
  BY OpenInductive
<1>. QED
  BY <1>1, <1>2, PTL DEF Spec

(* Of the places where the end record can stand the search finds the last   *)
(* one, for files, blocks and records of any size (miniz.c:3600-3643).      *)
THEOREM LastEndRecordIsFound == Spec => []FoundIsLast
<1>1. OpenInv => FoundIsLast
  BY DEF OpenInv, ScanInv
<1>. QED
  BY <1>1, Invariance, PTL

(* When the search gives up, no record stands in what it had to read,       *)
(* although blocks are compared one by one (miniz.c:3637-3640).             *)
THEOREM NothingIsOverlooked == Spec => []MissedIsOutOfReach
<1>1. OpenInv => MissedIsOutOfReach
  BY DEF OpenInv, ScanInv
<1>. QED
  BY <1>1, Invariance, PTL

(* The heap sort leaves every record once, in the order of the names, and   *)
(* the search discards no record of the name it is asked for; for           *)
(* directories of any size, equal names among them                          *)
(* (miniz.c:3548-3598, 4387-4403).                                          *)
THEOREM DirectoryIsSorted == Spec => []IndexInv
<1>1. OpenInv => IndexInv
  BY DEF OpenInv, ScanInv, DirInv, IndexInv, TypeOK
<1>. QED
  BY <1>1, Invariance, PTL

(* A look-up finds a record whenever there is one of that name, in whatever *)
(* spelling, and a record of that name only (miniz.c:4369-4407).            *)
THEOREM LookUpsAreExact == Spec => []LocateIsExact
<1>1. OpenInv => LocateIsExact
  BY AnswersAreExact DEF OpenInv
<1>. QED
  BY <1>1, Invariance, PTL
=============================================================================

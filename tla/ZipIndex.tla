------------------------------ MODULE ZipIndex ------------------------------
(***************************************************************************)
(* The sorted index of the central directory: the heap sort that builds it  *)
(* when an archive is opened, one step of a sift per action, and the binary *)
(* search that answers mz_zip_reader_locate_file.                           *)
(***************************************************************************)
EXTENDS ZipName, FiniteSets

CONSTANTS
    Names,      \* the names of records and of look-ups
    MaxRecs     \* bound on the number of records

ASSUME IndexAssumption == Names \subseteq Seq(Char) /\ MaxRecs \in Nat

VARIABLES
    recs,       \* recs[i]: name of record i of the central directory
    pIndices,   \* m_sorted_central_dir_offsets
    start, end, \* the loop counters of the two phases
    root,       \* the element being sifted down
    key,        \* the name looked up
    l, h,       \* the interval of the search
    found,      \* what the last look-up answered: a record, or -1
    pc

index_vars == <<recs, pIndices, start, end, root, key, l, h, found, pc>>

size == Cardinality(DOMAIN recs)

IndexInit ==
    /\ recs = << >> /\ pIndices = << >> /\ start = 0 /\ end = 0 /\ root = 0
    /\ key = << >> /\ l = 0 /\ h = -1 /\ found = -1
    /\ pc = "closed"

Directories == UNION {[0 .. n - 1 -> Names] : n \in 0 .. MaxRecs}

(* The directory is read and its index set up in the order of the file. *)
ReadDirectory ==
    /\ pc = "closed"
    /\ recs' \in Directories
    /\ pIndices' = [i \in DOMAIN recs' |-> i]
    /\ start' = IF size' <= 1 THEN 0 ELSE (size' - 2) \div 2
    /\ root' = start'
    /\ pc' = IF size' <= 1 THEN "ready" ELSE "build"
    /\ UNCHANGED <<end, key, l, h, found>>

-----------------------------------------------------------------------------
Swap(f, i, j) == [f EXCEPT ![i] = f[j], ![j] = f[i]]

Below(i, j) == filename_less(recs[pIndices[i]], recs[pIndices[j]])

(* The part of the array that is a heap in this phase. *)
HeapEnd_off(phase) == IF phase = "build" THEN size ELSE end + 1    \* mutant
HeapEnd(phase) == IF phase = "build" THEN size ELSE end

HasChild == 2 * root + 1 < HeapEnd(pc)

(* The larger child of the root; the left one of two equals. *)
Child_left(r) == 2 * r + 1       \* mutant: the right child is not looked at

Child(r) ==
    LET c == 2 * r + 1 IN
    IF c + 1 < HeapEnd(pc) /\ Below(c, c + 1) THEN c + 1 ELSE c

Sinks == HasChild /\ Below(root, Child(root))

Sift_noswap ==     \* mutant: moves on without exchanging
    /\ pc \in {"build", "drain"} /\ Sinks
    /\ root' = Child(root)
    /\ UNCHANGED <<recs, pIndices, start, end, key, l, h, found, pc>>

Sift ==
    /\ pc \in {"build", "drain"} /\ Sinks
    /\ pIndices' = Swap(pIndices, root, Child(root))
    /\ root' = Child(root)
    /\ UNCHANGED <<recs, start, end, key, l, h, found, pc>>

BuildNext_stays ==     \* mutant: the counter is not decremented
    /\ pc = "build" /\ ~Sinks /\ start > 0
    /\ root' = start
    /\ UNCHANGED <<recs, pIndices, start, end, key, l, h, found, pc>>

BuildNext ==
    /\ pc = "build" /\ ~Sinks /\ start > 0
    /\ start' = start - 1 /\ root' = start - 1
    /\ UNCHANGED <<recs, pIndices, end, key, l, h, found, pc>>

(* The largest goes to the end of the heap, which shrinks by one. *)
TakeFirst ==
    /\ pc = "build" /\ ~Sinks /\ start = 0
    /\ pIndices' = Swap(pIndices, size - 1, 0)
    /\ end' = size - 1 /\ root' = 0 /\ pc' = "drain"
    /\ UNCHANGED <<recs, start, key, l, h, found>>

TakeNext ==
    /\ pc = "drain" /\ ~Sinks /\ end > 1
    /\ pIndices' = Swap(pIndices, end - 1, 0)
    /\ end' = end - 1 /\ root' = 0
    /\ UNCHANGED <<recs, start, key, l, h, found, pc>>

TakeLast ==
    /\ pc = "drain" /\ ~Sinks /\ end = 1
    /\ end' = 0 /\ pc' = "ready"
    /\ UNCHANGED <<recs, pIndices, start, root, key, l, h, found>>

-----------------------------------------------------------------------------
(* mz_zip_reader_locate_file: an empty index goes the other way, through    *)
(* the scan of all records, and that finds nothing either.                  *)
Locate ==
    /\ pc = "ready"
    /\ key' \in Names
    /\ l' = 0 /\ h' = size - 1 /\ found' = -1
    /\ pc' = "search"
    /\ UNCHANGED <<recs, pIndices, start, end, root>>

Middle == l + (h - l) \div 2
Comp == filename_compare(recs[pIndices[Middle]], key)

GoRight_early ==     \* mutant: an off-by-one that keeps the middle
    /\ pc = "search" /\ l <= h /\ Comp < 0
    /\ l' = Middle
    /\ UNCHANGED <<recs, pIndices, start, end, root, key, h, found, pc>>

GoRight ==
    /\ pc = "search" /\ l <= h /\ Comp < 0
    /\ l' = Middle + 1
    /\ UNCHANGED <<recs, pIndices, start, end, root, key, h, found, pc>>

GoLeft_far ==     \* mutant: skips one more than it compared
    /\ pc = "search" /\ l <= h /\ Comp > 0
    /\ h' = Middle - 2
    /\ UNCHANGED <<recs, pIndices, start, end, root, key, l, found, pc>>

GoLeft ==
    /\ pc = "search" /\ l <= h /\ Comp > 0
    /\ h' = Middle - 1
    /\ UNCHANGED <<recs, pIndices, start, end, root, key, l, found, pc>>

Hit_rank ==       \* mutant: answers with the place in the index
    /\ pc = "search" /\ l <= h /\ Comp = 0
    /\ found' = Middle /\ pc' = "answered"
    /\ UNCHANGED <<recs, pIndices, start, end, root, key, l, h>>

Hit ==
    /\ pc = "search" /\ l <= h /\ Comp = 0
    /\ found' = pIndices[Middle] /\ pc' = "answered"
    /\ UNCHANGED <<recs, pIndices, start, end, root, key, l, h>>

Miss ==
    /\ pc = "search" /\ l > h
    /\ pc' = "answered"
    /\ UNCHANGED <<recs, pIndices, start, end, root, key, l, h, found>>

Return ==
    /\ pc = "answered"
    /\ pc' = "ready" /\ key' = << >> /\ l' = 0 /\ h' = -1 /\ found' = -1
    /\ UNCHANGED <<recs, pIndices, start, end, root>>

Sort == Sift \/ BuildNext \/ TakeFirst \/ TakeNext \/ TakeLast
Search == GoRight \/ GoLeft \/ Hit \/ Miss

IndexNext == Sort \/ Locate \/ Search \/ Return
-----------------------------------------------------------------------------
IndexTypeOK ==
    /\ recs \in Directories \cup {<< >>}
    /\ pIndices \in [DOMAIN recs -> DOMAIN recs]
    /\ start \in Nat /\ (size > 1 => start <= (size - 2) \div 2)
    /\ end \in Nat /\ (pc = "drain" => end \in 1 .. size - 1)
    /\ root \in Nat /\ (pc = "build" => root \in start .. size - 1)
                    /\ (pc = "drain" => root \in 0 .. end - 1)
    /\ key \in Names \cup {<< >>}
    /\ l \in 0 .. size /\ h \in -1 .. size - 1
    /\ found \in {-1} \cup DOMAIN recs
    /\ pc \in {"closed", "build", "drain", "ready", "search", "answered"}

(* No record is lost or doubled by the exchanges (miniz.c:3572, 3582). *)
Permutation == \A i, j \in DOMAIN recs : pIndices[i] = pIndices[j] => i = j

NotAbove(i, j) == ~Below(j, i)     \* element i is no larger than element j

(* While the heap is built, every node from `start` on is no smaller than   *)
(* its children, except the one being sifted; and what hangs below that one *)
(* is no larger than its parent.  While it is drained the same holds of the *)
(* whole heap, and the tail is sorted and above it (miniz.c:3559-3597).     *)
Parent(i) == (i - 1) \div 2

HeapFrom(lo, bound) ==
    \A i \in 1 .. bound - 1 :
        /\ (Parent(i) >= lo /\ Parent(i) # root) => NotAbove(i, Parent(i))
        /\ (Parent(i) = root /\ root > 0 /\ Parent(root) >= lo) => NotAbove(i, Parent(root))

SortInv ==
    /\ pc = "build" => HeapFrom(start, size)
    /\ pc = "drain" => /\ HeapFrom(0, end)
                       /\ \A i \in 0 .. end - 1 : \A j \in end .. size - 1 : NotAbove(i, j)
                       /\ \A i, j \in end .. size - 1 : i <= j => NotAbove(i, j)

(* The index is every record once, in the order of the names, whatever the  *)
(* order the packer wrote them in and however many share a name             *)
(* (miniz.c:3548-3598).                                                     *)
Sorted ==
    pc \in {"ready", "search", "answered"} =>
        /\ Permutation
        /\ \A i, j \in DOMAIN recs : i <= j => NotAbove(i, j)

(* What the search has ruled out is really of another name: no duplicate,   *)
(* no spelling of the key is on the wrong side (miniz.c:4387-4403).         *)
SearchInv ==
    pc \in {"search", "answered"} =>
        \A i \in DOMAIN recs : (i < l \/ i > h) => ~SameName(recs[pIndices[i]], key)

(* A look-up answers a record of that name, in some spelling, whenever      *)
(* there is one, duplicates included, and -1 only when there is none        *)
(* (miniz.c:4369-4407).                                                     *)
LocateIsExact ==
    pc = "answered" =>
        IF \E i \in DOMAIN recs : SameName(recs[i], key)
        THEN found # -1 /\ SameName(recs[found], key)
        ELSE found = -1
=============================================================================

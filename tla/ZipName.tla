------------------------------ MODULE ZipName ------------------------------
(***************************************************************************)
(* How miniz orders the names of the central directory: byte by byte, with  *)
(* the letters taken in lower case, a name before its extensions.  Two      *)
(* functions of the code compare names, one for the sort and one for the    *)
(* search; the search is right only if they agree.                          *)
(***************************************************************************)
EXTENDS Integers, SequencesExt

CONSTANTS
    Char,       \* bytes, as their codes
    Lower       \* MZ_TOLOWER

ASSUME CharAssumption == Char \subseteq Nat /\ Lower \in [Char -> Char]

ShorterLen(a, b) == IF Len(a) < Len(b) THEN Len(a) ELSE Len(b)

(* Where the byte loop stops on the common part, 0 when it runs through it. *)
Differ(a, b) == {i \in 1 .. ShorterLen(a, b) : Lower[a[i]] # Lower[b[i]]}
FirstDiff(a, b) == CHOOSE i \in Differ(a, b) : \A j \in Differ(a, b) : i <= j

filename_less(a, b) ==
    IF Differ(a, b) = {}
    THEN Len(a) < Len(b)
    ELSE Lower[a[FirstDiff(a, b)]] < Lower[b[FirstDiff(a, b)]]

filename_compare(a, b) ==
    IF Differ(a, b) = {}
    THEN Len(a) - Len(b)
    ELSE Lower[a[FirstDiff(a, b)]] - Lower[b[FirstDiff(a, b)]]

(* Two spellings of one name. *)
SameName(a, b) == Len(a) = Len(b) /\ \A i \in 1 .. Len(a) : Lower[a[i]] = Lower[b[i]]
=============================================================================

------------------------------ MODULE ZipOpen ------------------------------
(***************************************************************************)
(* Opening an archive and looking names up in it: the search for the end    *)
(* record, the directory it leads to with its sorted index, and the         *)
(* look-ups (ZipIndex).                                                     *)
(*                                                                          *)
(* mz_zip_reader_locate_header_sig of miniz.c searches backwards from the   *)
(* end of the file, a block at a time.  Blocks overlap so that a signature  *)
(* across two of them is seen.                                              *)
(***************************************************************************)
EXTENDS ZipIndex

CONSTANTS
    BufSize,    \* sizeof(buf_u32), 4096
    RecSize,    \* record_size, 22
    TailLimit,  \* MZ_UINT16_MAX
    Word,       \* 2^w for the unsigned type of sizeof, 2^64
    MaxSize     \* bound on the files explored: several blocks, up to the limit and not

SIG == 4        \* bytes of a signature

ASSUME ScanAssumption ==
    /\ BufSize \in Nat /\ BufSize > SIG /\ RecSize \in Nat /\ RecSize >= SIG
    /\ TailLimit \in Nat /\ MaxSize \in Nat
    /\ Word \in Nat /\ Word % 2 = 0 /\ Word \div 2 > MaxSize + BufSize

VARIABLES
    archive_size,   \* m_archive_size
    sigs,           \* where the signature stands in the file
    cur_file_ofs,
    scan            \* "read", "found", "none", or "over" when the directory was read

scan_vars == <<archive_size, sigs, cur_file_ofs, scan>>

(* A signature cannot overlap itself.  Two of them are enough for one to be *)
(* behind the other, in the same block or not.                              *)
Apart(S) == \A s, t \in S : s = t \/ s + SIG <= t \/ t + SIG <= s
SignaturesIn(n) == {S \in {{s, t} : s, t \in 0 .. n - SIG} \cup {{}} : Apart(S)}

AtLeast0(v) == IF v > 0 THEN v ELSE 0
AtMostBuf(v) == IF v < BufSize THEN v ELSE BufSize

ScanInit ==
    /\ archive_size \in 0 .. MaxSize /\ sigs \in SignaturesIn(archive_size)
    /\ cur_file_ofs = AtLeast0(archive_size - BufSize)
    /\ scan = IF archive_size < RecSize THEN "none" ELSE "read"

(* The candidates in the block at cur_file_ofs.  The record must fit behind *)
(* its signature.                                                           *)
BlockSize == AtMostBuf(archive_size - cur_file_ofs)
Candidates ==
    {s \in sigs : /\ cur_file_ofs <= s /\ s + SIG <= cur_file_ofs + BlockSize
                  /\ archive_size - s >= RecSize}

Lowest(S) == CHOOSE s \in S : \A t \in S : s <= t       \* mutant of Latest: from the front

Latest(S) == CHOOSE s \in S : \A t \in S : s >= t

SigFound ==
    /\ scan = "read" /\ cur_file_ofs >= 0 /\ Candidates # {}
    /\ cur_file_ofs' = Latest(Candidates) /\ scan' = "found"
    /\ UNCHANGED <<archive_size, sigs>>

TooFar == cur_file_ofs = 0 \/ archive_size - cur_file_ofs >= TailLimit + RecSize

(* The step back is computed without sign: the maximum with 0 has no effect *)
(* and a step past the start of the file leaves a negative offset.          *)
Signed(u) == IF u >= Word \div 2 THEN u - Word ELSE u
StepBack_gap == Signed(AtLeast0((cur_file_ofs - BufSize) % Word))        \* mutant: no overlap
StepBack_none == Signed(AtLeast0(cur_file_ofs % Word))         \* mutant: the block again

StepBack == Signed(AtLeast0((cur_file_ofs - (BufSize - 3)) % Word))

GoBack ==
    /\ scan = "read" /\ cur_file_ofs >= 0 /\ Candidates = {} /\ ~TooFar
    /\ cur_file_ofs' = StepBack
    /\ UNCHANGED <<archive_size, sigs, scan>>

GiveUp ==
    /\ scan = "read" /\ cur_file_ofs >= 0 /\ Candidates = {} /\ TooFar
    /\ scan' = "none"
    /\ UNCHANGED <<archive_size, sigs, cur_file_ofs>>

(* mz_zip_file_read_func and mz_zip_mem_read_func read nothing there. *)
ReadNothing ==
    /\ scan = "read" /\ cur_file_ofs < 0
    /\ scan' = "none"
    /\ UNCHANGED <<archive_size, sigs, cur_file_ofs>>

ScanNext == SigFound \/ GoBack \/ GiveUp \/ ReadNothing
-----------------------------------------------------------------------------
ScanTypeOK ==
    /\ archive_size \in 0 .. MaxSize /\ sigs \in SignaturesIn(archive_size)
    /\ cur_file_ofs \in -BufSize .. archive_size /\ scan \in {"read", "found", "none", "over"}

(* Where a record can stand. *)
Records == {s \in sigs : archive_size - s >= RecSize}

(* What is found is the last place a record can stand: of an archive in an  *)
(* archive, or behind a program that has the signature among its own bytes, *)
(* the outermost (miniz.c:3619-3634).                                       *)
FoundIsLast ==
    scan = "found" => cur_file_ofs \in Records /\ \A s \in Records : s <= cur_file_ofs

(* The search loses no signature between two blocks: what it gives up on is *)
(* in front of all it read, and it read to the distance it is to go, or to  *)
(* within a block of the start of the file (miniz.c:3637-3640).             *)
LowestRead == IF cur_file_ofs < 0 THEN cur_file_ofs + BufSize - 3 ELSE cur_file_ofs

MissedIsOutOfReach ==
    (scan = "none" /\ archive_size >= RecSize) =>
        /\ \A s \in Records : s < LowestRead
        /\ LowestRead < BufSize - 3 \/ archive_size - LowestRead >= TailLimit + RecSize
-----------------------------------------------------------------------------
vars == <<scan_vars, index_vars>>

Init == ScanInit /\ IndexInit

FindEnd == ScanNext /\ UNCHANGED index_vars

(* The locals of the search are gone when it returns; what the file holds   *)
(* apart from its directory is not read again, and is forgotten here too.   *)
EndFound ==
    /\ scan = "found"
    /\ scan' = "over" /\ archive_size' = 0 /\ sigs' = {} /\ cur_file_ofs' = 0
    /\ UNCHANGED index_vars

ReadCentralDir == scan = "over" /\ ReadDirectory /\ UNCHANGED scan_vars

Open == FindEnd \/ EndFound \/ ReadCentralDir \/ (Sort /\ UNCHANGED scan_vars)

LookUp == (Locate \/ Return) /\ UNCHANGED scan_vars

Next == Open \/ LookUp \/ (Search /\ UNCHANGED scan_vars)

(* The program calls when it likes; the code, one thread that waits for     *)
(* nobody, runs what was called to its end.                                 *)
Spec ==
    /\ Init /\ [][Next]_vars
    /\ WF_vars(Open) /\ WF_vars(Search /\ UNCHANGED scan_vars)
-----------------------------------------------------------------------------
TypeOK == ScanTypeOK /\ IndexTypeOK

(* What the two loops maintain: the heap of the sort while it is built and  *)
(* drained, the whole directory in order afterwards, and an interval that   *)
(* no record of the name is outside of (miniz.c:3559-3597, 4387-4403).      *)
IndexInv == TypeOK /\ SortInv /\ Sorted /\ SearchInv

(* Opening comes to an end, with the index ready or without an end record,  *)
(* whatever the file and the order of the names in it; and so does every    *)
(* look-up (miniz.c:3600-3643, 3548-3598, 4369-4407).                       *)
CallsEnd ==
    /\ <>(pc = "ready" \/ scan = "none")
    /\ (pc = "search") ~> (pc = "answered")
=============================================================================

------------------------------ MODULE VfsPath ------------------------------
(***************************************************************************)
(* Keys of the mount, and how vfs.c derives one from the path a program     *)
(* passes (src/vfs.c: path_canon, posix_key).                               *)
(*                                                                          *)
(* The text behind the mount root is its sequence of '/'-separated          *)
(* segments: an ordinary name, ".", ".." or the empty segment that a double *)
(* or trailing slash leaves.  Only lengths and equality of names matter.    *)
(***************************************************************************)
EXTENDS Integers, SequencesExt

CONSTANTS
    Name,       \* the ordinary segment names
    SegLen,     \* the length in bytes of every segment
    MaxSegs,    \* capacity of segs[] in path_canon: 256
    PathMax     \* VFS_PATHMAX, sizeof keybuf and sizeof buf: 4096

Seg == Name \cup {"", ".", ".."}

ASSUME PathAssumption ==
    /\ Name \cap {"", ".", ".."} = {}
    /\ SegLen \in [Seg -> Nat]
    /\ \A n \in Name : SegLen[n] > 0
    /\ SegLen[""] = 0 /\ SegLen["."] = 1 /\ SegLen[".."] = 2
    /\ MaxSegs \in Nat \ {0}
    /\ PathMax \in Nat \ {0}

(* A key: what path_canon leaves, the mount root being the empty sequence. *)
Key == Seq(Name)

(* strlen of a sequence of segments written with '/' between them. *)
TextLen(segs) == FoldLeft(LAMBDA n, s : n + SegLen[s] + 1, -1, segs)
KeyLen(segs) == IF segs = << >> THEN 0 ELSE TextLen(segs)

-----------------------------------------------------------------------------
(* One round of path_canon's scan: `stack` is segs[0..sp-1].  A name that   *)
(* finds the array full is dropped without a trace.                         *)
CanonStep(stack, seg) ==
    CASE seg \in {"", "."} -> stack
      [] seg = ".."        -> IF stack = << >> THEN stack ELSE Front(stack)
      [] OTHER             -> IF Len(stack) < MaxSegs THEN Append(stack, seg) ELSE stack

(* The loop that writes the segments back stops at the first that does not  *)
(* leave room in buf[PathMax].  `o` is what the loop has written when it    *)
(* tests segment i: the separator in front of segment i is not in it yet.   *)
JoinStopsLate(stack, i) ==      \* mutant: the separator is forgotten
    KeyLen(SubSeq(stack, 1, i - 1)) + SegLen[stack[i]] >= PathMax

JoinStops(stack, i) ==
    KeyLen(SubSeq(stack, 1, i - 1)) + SegLen[stack[i]] + 1 >= PathMax

Join(stack) ==
    SubSeq(stack, 1, CHOOSE k \in 0 .. Len(stack) :
                        /\ \A i \in 1 .. k : ~JoinStops(stack, i)
                        /\ k < Len(stack) => JoinStops(stack, k + 1))

(* path_canon as one function of the whole path. *)
path_canon(p) == Join(FoldLeft(CanonStep, << >>, p))

-----------------------------------------------------------------------------
(* What a program passes: text behind the root, or a path elsewhere. *)
Path == [virtual : BOOLEAN, segs : Seq(Seg)]

(* The part of posix_key that looks at the path alone: "<root>", "<root>/.. *)
(* .rest" match, and a rest that does not fit keybuf with its NUL does not. *)
OwnedByMount(p) == p.virtual
FitsKeybuf(p) == KeyLen(p.segs) + 1 <= PathMax
=============================================================================

----------------------------- MODULE PathCanon -----------------------------
(***************************************************************************)
(* path_canon (src/vfs.c) as the loop it is: the scan of the text, segment  *)
(* by segment, pushing pointers to names on segs[], and the loop that       *)
(* writes the surviving names back over the text.                           *)
(***************************************************************************)
EXTENDS VfsPath

CONSTANT Inputs     \* the paths explored: a set of sequences of segments

VARIABLES
    input,      \* the text handed in, as segments
    p,          \* how many segments the scan has consumed
    segs,       \* segs[0..sp-1]: positions in input, as the C pointers are
    out,        \* buf, the segments written back so far
    o,          \* how many bytes of buf they take
    pc          \* "scan", "join" or "done"

vars == <<input, p, segs, out, o, pc>>

ASSUME InputsAssumption ==
    \A s \in Inputs : s \in Seq(Seg) /\ KeyLen(s) + 1 <= PathMax

Named(q) == [i \in 1 .. Len(q) |-> input[q[i]]]

Init ==
    /\ input \in Inputs
    /\ p = 0 /\ segs = << >> /\ out = << >> /\ o = 0 /\ pc = "scan"

(* An empty segment ("p++; continue") or a lone ".". *)
SkipSeg ==
    /\ pc = "scan" /\ p < Len(input)
    /\ input[p + 1] \in {"", "."}
    /\ p' = p + 1
    /\ UNCHANGED <<input, segs, out, o, pc>>

(* "..": pops, or does nothing at the root. *)
PopSegKeeps ==       \* mutant: ".." is skipped like "."
    /\ pc = "scan" /\ p < Len(input)
    /\ input[p + 1] = ".."
    /\ p' = p + 1
    /\ UNCHANGED <<input, segs, out, o, pc>>

PopSeg ==
    /\ pc = "scan" /\ p < Len(input)
    /\ input[p + 1] = ".."
    /\ p' = p + 1
    /\ segs' = IF Len(segs) > 0 THEN SubSeq(segs, 1, Len(segs) - 1) ELSE segs
    /\ UNCHANGED <<input, out, o, pc>>

(* A name is pushed while segs[] has room. *)
PushSegOverruns ==   \* mutant: "sp <= 256" for "sp < 256"
    /\ pc = "scan" /\ p < Len(input)
    /\ input[p + 1] \in Name
    /\ p' = p + 1
    /\ segs' = IF Len(segs) <= MaxSegs THEN Append(segs, p + 1) ELSE segs
    /\ UNCHANGED <<input, out, o, pc>>

PushSeg ==
    /\ pc = "scan" /\ p < Len(input)
    /\ input[p + 1] \in Name
    /\ p' = p + 1
    /\ segs' = IF Len(segs) < MaxSegs THEN Append(segs, p + 1) ELSE segs
    /\ UNCHANGED <<input, out, o, pc>>

EndScan ==
    /\ pc = "scan" /\ p = Len(input)
    /\ pc' = "join"
    /\ UNCHANGED <<input, p, segs, out, o>>

(* The segments are written back while buf[] has room for a separator, the  *)
(* next of them and the NUL; the first has no separator, and needs the room *)
(* all the same.                                                            *)
NextLen == SegLen[input[segs[Len(out) + 1]]]

RoomToTheBrim == o + NextLen < PathMax         \* mutant: the separator is forgotten
RoomForBoth == o + NextLen + 2 < PathMax       \* mutant: room is kept for the NUL twice
Room == o + NextLen + 1 < PathMax

Writes(seg) ==
    /\ out' = Append(out, seg)
    /\ o' = o + (IF out = << >> THEN 0 ELSE 1) + SegLen[seg]

JoinSegReversed ==   \* mutant: segs[] is popped instead of walked
    /\ pc = "join" /\ Len(out) < Len(segs) /\ Room
    /\ Writes(input[segs[Len(segs) - Len(out)]])
    /\ UNCHANGED <<input, p, segs, pc>>

JoinSeg ==
    /\ pc = "join" /\ Len(out) < Len(segs) /\ Room
    /\ Writes(input[segs[Len(out) + 1]])
    /\ UNCHANGED <<input, p, segs, pc>>

EndJoin ==
    /\ pc = "join" /\ ~(Len(out) < Len(segs) /\ Room)
    /\ pc' = "done"
    /\ UNCHANGED <<input, p, segs, out, o>>

Next == SkipSeg \/ PopSeg \/ PushSeg \/ EndScan \/ JoinSeg \/ EndJoin

Spec == Init /\ [][Next]_vars /\ WF_vars(Next)
-----------------------------------------------------------------------------
(* Type invariant: segs[] holds positions already scanned, out names, and   *)
(* the NUL behind them is inside buf[] (vfs.c:219).                         *)
TypeOK ==
    /\ input \in Inputs
    /\ p \in 0 .. Len(input)
    /\ segs \in Seq(1 .. p) /\ Len(segs) <= MaxSegs
    /\ out \in Seq(Name) /\ o \in 0 .. PathMax - 1
    /\ pc \in {"scan", "join", "done"}

Count(S, lo, hi) == Cardinality({k \in lo .. hi : input[k] \in S})

(* The names of the first j segments that no ".." of them takes back: the   *)
(* one at i is gone once the ".." behind it outnumber the names behind it.  *)
Survivors(j) ==
    {i \in 1 .. j :
        /\ input[i] \in Name
        /\ \A k \in i + 1 .. j : Count({".."}, i + 1, k) <= Count(Name, i + 1, k)}

Rising(t) == \A k, l \in DOMAIN t : k < l => t[k] < t[l]
Ascending(S) == CHOOSE t \in [1 .. Cardinality(S) -> S] : Rising(t)

(* The two limits of the arrays in path_canon, as conditions on the text:   *)
(* more names than segs[] holds, and one that fills keybuf by itself.       *)
Shallow == \A j \in 0 .. Len(input) : Cardinality(Survivors(j)) <= MaxSegs
NotOneHugeName ==
    \A i \in 1 .. Len(input) : input[i] \in Name => SegLen[input[i]] + 1 < PathMax

(* The loop computes what path_canon of module VfsPath, which the other     *)
(* modules use, says in one expression, beyond the limits of the arrays too *)
(* (vfs.c:210, 214), and it resolves "." and ".." lexically (vfs.c:191):    *)
(* for every text inside those limits the key is exactly the names no ".."  *)
(* takes back, in their order, with ".." inert at the root, up to texts     *)
(* that leave room for the NUL only.  A name that fills keybuf leaves the   *)
(* root.                                                                    *)
CanonIsLexical ==
    pc = "done" =>
        /\ out = path_canon(input) /\ o = KeyLen(out)
        /\ Shallow /\ NotOneHugeName => out = Named(Ascending(Survivors(Len(input))))
        /\ ~NotOneHugeName => out = << >>

(* The scan never keeps a name that a later ".." has already cancelled, and *)
(* never loses one while it has room: segs[] is right after every segment,  *)
(* not only at the end (vfs.c:203-211).                                     *)
ScanTracksSurvivors ==
    (pc = "scan" /\ Shallow) => segs = Ascending(Survivors(p))
=============================================================================

---------------------------- MODULE MCPathCanon ----------------------------
(* path_canon on every text of up to MaxText segments that fits keybuf. *)
EXTENDS PathCanon

CONSTANTS
    Short,      \* names of one byte
    Long,       \* three of these fill keybuf
    Huge,       \* one of these does
    MaxText

(* strlen of the names: Long/Long/Long and Huge are PathMax - 1 bytes long. *)
MCName == Short \cup {Long, Huge}
MCSegLen == [s \in Seg |-> CASE s = "" -> 0
                             [] s = ".." -> 2
                             [] s = Long -> (PathMax - 3) \div 3
                             [] s = Huge -> PathMax - 1
                             [] OTHER -> 1]
MCInputs == {s \in SeqOf(Seg, MaxText) : KeyLen(s) + 1 <= PathMax}

=============================================================================

----------------------------- MODULE MCSelfRead -----------------------------
(* A stored, a zstd and a deflated record and an empty one; the second      *)
(* needs two reads of the I/O buffer, and the file goes on behind it.       *)
EXTENDS SelfRead, SequencesExt

CONSTANTS parent, child

MCRecords ==
    << [method |-> "stored", header |-> 0, name |-> 0, comp |-> 1, uncomp |-> 1, crc |-> 216],
       [method |-> "deflate", header |-> 2, name |-> 1, comp |-> 3, uncomp |-> 2, crc |-> 222],
       [method |-> "zstd", header |-> 7, name |-> 0, comp |-> 2, uncomp |-> 2, crc |-> 71],
       [method |-> "stored", header |-> 10, name |-> 0, comp |-> 0, uncomp |-> 0, crc |-> 7] >>

MCFile ==
    FlattenSeq([e \in DOMAIN MCRecords |->
        <<Header(e)>> \o [k \in 1 .. MCRecords[e].name |-> Other]
            \o [k \in 1 .. MCRecords[e].comp |-> Data(e, k)]])

(* A sum of one of 251 values, for the 225 fillings of a buffer of two      *)
(* cells.                                                                   *)
Code(c) == c.e * 8 + c.k * 2 + (CASE c.part = "header" -> 1 [] c.part = "data" -> 0
                                  [] c.part = "plain" -> 41 [] c.part = "other" -> 90)
MCCrc(cells) == FoldLeft(LAMBDA sum, c : (sum * 137 + Code(c)) % 251, 7, cells)

(* Rubbish, or by chance the entry after all. *)
MCSpoilt == << {<<Other>>}, {<<Plain(2, 1), Plain(2, 2)>>, <<Other, Other>>},
               {<<Plain(3, 1), Plain(3, 2)>>, <<Other, Other>>}, {<< >>} >>
=============================================================================

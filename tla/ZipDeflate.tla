----------------------------- MODULE ZipDeflate -----------------------------
(***************************************************************************)
(* An entry of an archive on its way through deflate: the packer compresses *)
(* the content of a file in one call, and a reader, with a buffer of its    *)
(* own, decompresses what was written.  Other streams, good and bad, come   *)
(* to the reader from elsewhere.                                            *)
(***************************************************************************)
EXTENDS Inflate, Deflate

vars == <<inflate_vars, deflate_vars>>

NoStream == [data |-> << >>, uncomp |-> 0, means |-> << >>]

Init ==
    /\ DeflateReset
    /\ \/ InflateInit /\ content = << >> /\ dpc = "idle"
       \/ /\ content \in Contents /\ dpc = "fill"
          /\ Reset /\ stream = NoStream /\ read_buf_size = Max(ReadSizes)
          /\ end = 0 /\ status = "writing"

Written ==
    [i \in 1 .. Len(written) \div ByteBits |->
        Val(SubSeq(written, ByteBits * (i - 1) + 1, ByteBits * i), ByteBits)]

(* The entry is whole; a reader takes it up. *)
Handover ==
    /\ dpc = "deflated" /\ status = "writing"
    /\ stream' = [data |-> Written, uncomp |-> Len(content),
                  means |-> [is |-> "ok", out |-> content, pos |-> Len(written)]]
    /\ read_buf_size' \in ReadSizes /\ status' = "needs_more_input"
    /\ UNCHANGED <<next, end, cur, bits, fill, header, regs, out, pc, deflate_vars>>

(* The archive cannot be written; the entry is not added. *)
NotCompressed ==
    /\ dpc = "put_buf_failed" /\ status = "writing"
    /\ status' = "compression_failed"
    /\ UNCHANGED <<input, cur, bits, fill, header, regs, out, pc, deflate_vars>>

Ended == Over \/ status = "compression_failed"
Stop == Ended /\ UNCHANGED vars

Next ==
    \/ DeflateNext /\ UNCHANGED inflate_vars
    \/ Handover \/ NotCompressed
    \/ InflateNext /\ UNCHANGED deflate_vars
    \/ Stop

(* One thread runs both, and what it is in the middle of goes on: weak      *)
(* fairness of Next, put so that no ENABLED is needed.  Next is enabled in  *)
(* every state, which the check for deadlock shows, and Stop is its only    *)
(* step that changes nothing.                                               *)
Fairness == []<>Ended \/ []<><<Next>>_vars
Spec == Init /\ [][Next]_vars /\ Fairness
=============================================================================

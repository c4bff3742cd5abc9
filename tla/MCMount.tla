------------------------------ MODULE MCMount ------------------------------
(* Names and archives for the small instances of the mount. *)
EXTENDS VfsArchive

MCName == {"a", "A", "d", "D", "e", "x", "long", "unpin", "UNPIN", ".unpin", "zdict"}
MCReserved == {"unpin", "UNPIN", ".unpin"}
MCFold == [n \in MCName |-> CASE n = "A" -> "a" [] n = "D" -> "d" [] n = "UNPIN" -> "unpin"
                              [] OTHER -> n]
MCSegLen == [s \in MCName \cup {"", ".", ".."} |->
                CASE s = "" -> 0 [] s = ".." -> 2 [] s = "long" -> 9 [] OTHER -> 1]

Rec(name, data, how) == [name |-> name, dir |-> FALSE, data |-> data, how |-> how, stat |-> TRUE, sound |-> TRUE]
Dir(name) == [name |-> name, dir |-> TRUE, data |-> << >>, how |-> "plain", stat |-> TRUE, sound |-> TRUE]
Damaged(e) == [e EXCEPT !.sound = FALSE]
Unread(e) == [e EXCEPT !.stat = FALSE]

In(segs) == [virtual |-> TRUE, segs |-> segs]
Elsewhere(segs) == [virtual |-> FALSE, segs |-> segs]

-----------------------------------------------------------------------------
(* What the packer writes with --dict: the dictionary first, then the tree. *)
Packed ==
    [readable |-> TRUE, zdict |-> 1, cdir |->
        << Rec(<<".unpin", "zdict">>, <<1>>, "plain"), Dir(<<"d">>),
           Rec(<<"d", "a">>, <<0, 1>>, "dict"), Rec(<<"e">>, << >>, "plain"),
           Rec(<<"unpin", "x">>, <<0>>, "plain") >>]
(* Without directory records, and with a damaged record. *)
Bare ==
    [readable |-> TRUE, zdict |-> 0, cdir |->
        << Rec(<<"d", "a">>, <<0, 1, 1>>, "plain"), Damaged(Rec(<<"e">>, <<1>>, "plain")) >>]
(* The zip64 field of the only record is cut short. *)
Short ==
    [readable |-> TRUE, zdict |-> 0, cdir |-> << Unread(Rec(<<"e">>, <<1>>, "plain")) >>]
(* A binary whose overlay was never appended. *)
Absent == [readable |-> FALSE, zdict |-> 0, cdir |-> << >>]

(* A deeper tree for the listings: an empty directory, a name d_name cannot *)
(* hold, metadata on both sides of the runtime tree, a directory reached    *)
(* again from inside.                                                       *)
Deep ==
    [readable |-> TRUE, zdict |-> 0, cdir |->
        << Dir(<<"unpin">>), Rec(<<"unpin", "a">>, <<0>>, "plain"),
           Dir(<<"d">>), Rec(<<"d", "a">>, <<0>>, "plain"), Dir(<<"d", "d">>),
           Rec(<<"d", "d", "a">>, <<0>>, "plain"), Rec(<<"d", "d", "x">>, <<0>>, "plain"),
           Rec(<<"d", "long">>, <<0>>, "plain"), Rec(<<"d", "x">>, <<0>>, "plain"),
           Dir(<<"e">>), Rec(<<".unpin", "zdict">>, <<1>>, "plain") >>]
(* Directories only implied by the files in them. *)
Implied ==
    [readable |-> TRUE, zdict |-> 0, cdir |->
        << Rec(<<"d", "d", "a">>, <<0>>, "plain"), Rec(<<"d", "d", "x">>, <<0>>, "plain"),
           Rec(<<"d", "unpin", "a">>, <<0>>, "plain"), Rec(<<"x">>, <<0>>, "plain") >>]
(* What --carry makes of an old archive with d/a and e and a new tree with  *)
(* d/x: the old records first, then the walk of the tree.                   *)
Carried ==
    [readable |-> TRUE, zdict |-> 0, cdir |->
        << Rec(<<"d", "a">>, <<0>>, "plain"), Rec(<<"e">>, <<0>>, "plain"),
           Dir(<<"d">>), Rec(<<"d", "x">>, <<0>>, "plain") >>]
=============================================================================

--------------------------- MODULE MCMaterialize ---------------------------
(* Two entries, one empty and one that can be written short, a damaged one, *)
(* one that is hidden; three temporary files.                               *)
EXTENDS Materialize, MCMount

MCCut == [a \in Seg \X (0 .. PathRoom) |-> IF a[2] = 0 THEN "" ELSE IF a[2] < SegLen[a[1]] THEN "x" ELSE a[1]]

Tree ==
    [readable |-> TRUE, zdict |-> 0, cdir |->
        << Rec(<<"d", "a">>, <<0, 1>>, "plain"), Rec(<<"e">>, << >>, "plain"),
           Damaged(Rec(<<"x">>, <<1>>, "plain")), Rec(<<"unpin", "x">>, <<0>>, "plain") >>]
MCArchives == {Tree, Short, Absent}

(* The first fills the buffers, the last is of eight bytes, two more than   *)
(* they hold: cut, it names "e".                                            *)
MCPaths ==
    {In(<<"d", ".", "", "A">>), In(<<".", "e">>), In(<<"x">>), In(<<"d">>), Elsewhere(<<"a">>),
     In(<<"unpin", "x">>), In(<<"d", "..", "e", "a">>)}
=============================================================================

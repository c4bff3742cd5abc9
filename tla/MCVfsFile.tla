----------------------------- MODULE MCVfsFile -----------------------------
(* A small mount for the calls on files. *)
EXTENDS VfsFile, MCMount

MCArchives == {Packed, Bare, Short, Absent}

MCPaths == { In(<<"d", "..", "d", "A">>), In(<<"e">>), In(<<"d", "">>),
             In(<<"d", "..", "UNPIN", "x">>), Elsewhere(<<"a">>) }
=============================================================================

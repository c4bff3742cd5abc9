----------------------------- MODULE MCVfsDir ------------------------------
(* A small mount for the calls on directories. *)
EXTENDS VfsDir, MCMount

MCArchives == {Deep, Implied, Absent}
MCCarried == {Carried}

MCPaths == { In(<< >>), In(<<"d", "">>), In(<<"d", "d">>), In(<<"e", ".", "x", "..">>),
             In(<<"unpin">>), Elsewhere(<<"d">>) }
=============================================================================

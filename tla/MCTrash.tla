------------------------------ MODULE MCTrash ------------------------------
(* A folder with a file in it, and a folder with another. *)
EXTENDS Trash

MCPaths == {<<"d">>, <<"d", "x">>, <<"d", "e">>, <<"d", "e", "x">>}
=============================================================================

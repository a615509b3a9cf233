---------------------------- MODULE MCWorkspace ----------------------------
(***************************************************************************)
(* A file in the root of the workspace and one in a directory that share   *)
(* their name; files whose lines repeat, are indented or are all           *)
(* different.                                                              *)
(***************************************************************************)
EXTENDS Workspace

MCFiles == {<<"f">>, <<"d", "f">>}

Repeated == <<Line("x", 1), Line("x", 1), Line("y", 0)>>
Distinct == <<Line("x", 0), Line("y", 0), Line("z", 0)>>

MCContents == {Repeated, Distinct}
MCNewLine == Line("new", 0)
MCUserLine == Line("user", 0)
=============================================================================

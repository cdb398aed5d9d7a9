---------------------------- MODULE MCSearchPage ----------------------------
(***************************************************************************)
(* The small instance of SearchPage: two buttons, searches from two frames *)
(* and paths of no, one and two inputs.                                    *)
(***************************************************************************)
EXTENDS SearchPage, MCEmulator

MCPaths == {<<>>, <<1>>, <<0, 1>>}

=============================================================================

--------------------------- MODULE MCCommandLine ---------------------------
(***************************************************************************)
(* An instance of CommandLine.                                             *)
(***************************************************************************)
EXTENDS CommandLine

MCPairs == {<<3>>, <<2, 4>>, <<0, 3>>}
MCLists == {<<"a.h264">>, <<"b.nv12", "">>}
=============================================================================

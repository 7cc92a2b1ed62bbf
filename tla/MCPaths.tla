------------------------------ MODULE MCPaths ------------------------------
(***************************************************************************)
(* Strings for the constant Arguments of Paths: relative and absolute ones,*)
(* with "." and "..", with a "~" in front, and the empty one.              *)
(***************************************************************************)
EXTENDS Paths

Strings == {
  <<>>, <<"/">>, <<".">>, <<"..">>, <<"~">>,
  <<"x">>, <<"/", "x">>, <<"~", "/", "x">>, <<"/", "~">>, <<".", "/", "~">>,
  <<"x", "/", "..">>, <<"..", "/", "x">>, <<"x", "/", "/", "~", "/">>, <<"/", "~", "/", "x">>,
  <<".", "/", "~", "/", "x">>}
=============================================================================

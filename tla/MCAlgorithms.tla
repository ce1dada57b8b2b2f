---------------------------- MODULE MCAlgorithms ---------------------------
(***************************************************************************)
(* Algorithms with a program of three bytes, each of its own, and PCI      *)
(* functions at three places of bus 0 and one of each bus behind it.       *)
(***************************************************************************)
EXTENDS Algorithms

MCProgramFile == <<1, 2, 3>>

MCPositions == {<<0, 0, 0>>, <<0, 0, 1>>, <<0, 1, 0>>, <<1, 0, 0>>, <<2, 1, 0>>}
=============================================================================

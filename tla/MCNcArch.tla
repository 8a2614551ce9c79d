------------------------------ MODULE MCNcArch ------------------------------
(***************************************************************************)
(* A source of a few steps, its times in seconds a minute apart, and       *)
(* agents that archive it.  A file takes two steps, and three are read at  *)
(* once to find the start.                                                 *)
(***************************************************************************)
EXTENDS NcArch

CONSTANTS a1, a2

MCTime == [i \in Indices |-> 60 * i]
MCStarts == {0, MaxLen - 2}
=============================================================================

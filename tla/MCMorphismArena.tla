-------------------------- MODULE MCMorphismArena --------------------------
(* A small instance of MorphismArena for TLC. *)
EXTENDS MorphismArena

MCArguments == {<<"v">>}
MCBoardCalls == {<<>>, <<"">>, <<"call">>}
=============================================================================

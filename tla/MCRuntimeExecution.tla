------------------------ MODULE MCRuntimeExecution ------------------------
(* Two boards whose launch sections begin at an odd and at an even word.   *)
EXTENDS RuntimeExecution, TLC

CONSTANTS main, rwg0, other

MCBoards == {main, rwg0}
MCBoardOrder == <<main, rwg0>>
MCIchLen == (main :> 2) @@ (rwg0 :> 1)

MCConfig(bs, cap) == [boards |-> bs, capacity |-> [b \in bs |-> cap]]

\* A topology that fits; one too small for main's image, one that misses a
\* board and one with a board too many, all of which preflight refuses.
MCConfigs == {MCConfig(MCBoards, 2)}
MCPreflightConfigs ==
    MCConfigs \cup {MCConfig(MCBoards, 1), MCConfig({main}, 2),
                    MCConfig(MCBoards \cup {other}, 2)}
=============================================================================

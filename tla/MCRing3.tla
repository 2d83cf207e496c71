------------------------------ MODULE MCRing3 ------------------------------
(* Two process slots, the first loaded under either of two identifiers.    *)
(* One plan each for the CPU's state, for messages and for windows: what   *)
(* they exercise does not meet.                                            *)
EXTENDS Ring3
MCProc == {1, 2}
MCPidsOf == <<{1, 3}, {2}>>
MCUserWin == {1, 2}
MCWmSlot == {0, 1}
MCPlans == {[calls |-> {"yield", "exit"}, values |-> {0, 1}, strikes |-> 0],
            [calls |-> {"exit", "send", "receive"}, values |-> {0}, strikes |-> 0],
            [calls |-> {"exit", "fault", "win_open", "win_close"}, values |-> {0},
             strikes |-> 0],
            [calls |-> {}, values |-> {0, 1}, strikes |-> 1],
            [calls |-> {"win_open"}, values |-> {0}, strikes |-> 1]}
=============================================================================

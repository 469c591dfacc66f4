---------------------------- MODULE MCBlockRead ----------------------------
(* Values for checking BlockRead with TLC. *)
EXTENDS BlockRead

(* the first in two or three blocks, the second whole *)
MCLists == {<<2, 1, 2>>, <<1, 1>>}

S(client, server, n, addresses) ==
    [reads |-> [client |-> client, server |-> server], faults |-> n,
     address |-> [client |-> 1, server |-> addresses]]
MCScenarios == {S(2, 0, 2, 1), S(0, 2, 2, 1), S(1, 1, 1, 1), S(1, 1, 1, 2)}
=============================================================================

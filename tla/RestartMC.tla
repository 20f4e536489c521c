------------------------------ MODULE RestartMC ------------------------------
(* Restart for TLC.                                                        *)
EXTENDS Restart

\* One file for all domains; two groups of unequal size; a file each, and so
\* more segments than domains when two domains start from the set.
MCJobs == {[domains |-> 2, groups |-> 1], [domains |-> 3, groups |-> 2],
           [domains |-> 3, groups |-> 3]}

\* Node n is on domain n % domains: of three domains the first has none.
MCPlacements == {[n \in Node |-> n]}
MCNetworks   == {[nodes |-> Node, place |-> [n \in Node |-> n]]}

\* Calls with nothing to write, and with a restart set and another type.
MCOutputs == {<<>>, <<"restart", "plot">>}
=============================================================================

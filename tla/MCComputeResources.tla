------------------------- MODULE MCComputeResources -------------------------
(* A source VM with two NICs, two snapshots of one name, a template          *)
(* conversion, a destroy, and clones with one NIC.                           *)
EXTENDS ComputeResources

MCTx == [s1 |-> [kind |-> "snapshot", vm |-> "src", name |-> "n"],
         s2 |-> [kind |-> "snapshot", vm |-> "src", name |-> "n"],
         rb |-> [kind |-> "mutation", vm |-> "src", act |-> "rollback", snap |-> "s1"],
         rm |-> [kind |-> "mutation", vm |-> "src", act |-> "delete", snap |-> "s1"],
         t  |-> [kind |-> "template", vm |-> "src"],
         d  |-> [kind |-> "destroy", vm |-> "src"],
         ct |-> [kind |-> "clone", vm |-> "new", from |-> "template", nics |-> 1],
         cs |-> [kind |-> "clone", vm |-> "new", from |-> "snapshot", snap |-> "s1", nics |-> 1],
         cl |-> [kind |-> "clone", vm |-> "new", from |-> "vm", nics |-> 2]]

MCNICs == 1..2

MCPorts == ({"src"} \X MCNICs) \cup {<<"ct", 1>>, <<"cs", 1>>, <<"cl", 1>>, <<"cl", 2>>, <<"api", 1>>, <<"api", 2>>}

MCAPIPorts == {<<"api", 1>>, <<"api", 2>>}

MCSubnet == [network |-> 0, broadcast |-> 7, gateway |-> 4]

\* Four usable addresses, 6, 1, 2 and 5, in pools that end on the last and
\* begin on the first address and on the gateway.
MCPools == << <<6, 7>>, <<0, 2>>, <<4, 5>> >>

Plan(ids, st, calls, nt, nf) ==
    [ids |-> ids, st |-> st, guest |-> "other", calls |-> calls, taken |-> nt, faults |-> nf, pools |-> MCPools]

MCPlans == {Plan({"s1", "s2", "rm"}, "bound", 0, 0, 2),
            Plan({"s1", "rb", "cs"}, "bound", 0, 0, 1),
            Plan({"s1", "d"}, "binding", 0, 0, 1),
            Plan({"d"}, "binding", 0, 1, 1),
            Plan({"t", "d"}, "bound", 0, 1, 1),
            Plan({"t", "ct"}, "bound", 0, 0, 1),
            Plan({"cl"}, "bound", 0, 1, 1),
            Plan({"cl"}, "bound", 1, 0, 0),
            [Plan({}, "bound", 3, 0, 1) EXCEPT !.pools = <<>>],
            [Plan({"s1", "rb"}, "bound", 1, 1, 0) EXCEPT !.guest = "src"],
            [Plan({"t"}, "bound", 1, 1, 0) EXCEPT !.guest = "src"]}
=============================================================================

--------------------------- MODULE OvnNorthbound ---------------------------
(* The part of the OVN Northbound database the renderer writes, and the     *)
(* ovn-nbctl commands it writes it with.  A database is a record of its     *)
(* rows by UUID and its references, pairs of a parent and a child UUID.     *)
(*                                                                          *)
(* A key names what a row stands for: <<"LS", n>> for network n,            *)
(* <<"snat", r, i>> for an interface's SNAT, and so on.  A UUID is a key    *)
(* and a number; number 0 is the UUID the renderer derives from the key,    *)
(* the others are generated.  A row's `id` is the key its external_ids      *)
(* spell, `name` the key its name is derived from, `rev` what it was        *)
(* written from, `opts` the columns other commands write (options,          *)
(* networks).                                                               *)
EXTENDS Naturals, Sequences, FiniteSets, SequencesExt

CONSTANTS Nil, Refused

Roots == {"LS", "LR", "PG", "DHCP"}
SwitchPorts == {"port", "gwlsp", "localnet", "rsp"}
Named == {"LS", "LR", "PG", "lrp", "gwlrp"} \cup SwitchPorts

EmptyRow == [id |-> Nil, name |-> Nil, rev |-> Nil, opts |-> Nil, chassis |-> {}]

KindOf(u) == u[1][1]
NamedRows(d, key) == {u \in DOMAIN d.row : d.row[u].name = key}
Children(d, p) == {e[2] : e \in {e \in d.refs : e[1] = p}}

\* A port group refers to ports, and a port to its DHCP options, weakly.
Keeps(e) == KindOf(e[1]) \in Roots /\ ~(KindOf(e[1]) = "PG" /\ KindOf(e[2]) \in SwitchPorts)

\* A commit collects the rows no row keeps, and the references to absent rows.
Settle(d) ==
    LET rows == {u \in DOMAIN d.row : \/ KindOf(u) \in Roots
                                      \/ \E e \in d.refs : e[2] = u /\ e[1] \in DOMAIN d.row /\ Keeps(e)}
    IN [d EXCEPT !.row = [u \in rows |-> d.row[u]],
                 !.refs = {e \in @ : e[1] \in rows /\ e[2] \in rows}]

Create(u, cols) == [do |-> "create", u |-> u, cols |-> cols]
Set(u, cols) == [do |-> "set", u |-> u, cols |-> cols]
SetNamed(key, cols) == [do |-> "set-named", key |-> key, cols |-> cols]
Add(p, u) == [do |-> "add", p |-> p, u |-> u]
Unlink(ps, us) == [do |-> "remove", ps |-> ps, us |-> us]
Leave(p, u) == [do |-> "leave", p |-> p, u |-> u]
Destroy(us) == [do |-> "destroy", us |-> us]
Del(us) == [do |-> "del", us |-> us]
PortAdd(p, key, opts) == [do |-> "port-add", p |-> p, key |-> key, opts |-> opts]
DelNamed(keys) == [do |-> "del-named", keys |-> keys]
SetDhcp(u, to) == [do |-> "dhcp", u |-> u, to |-> to]
AddChassis(key, cs) == [do |-> "add-chassis", key |-> key, cs |-> cs]
DelChassis(key, c) == [do |-> "del-chassis", key |-> key, c |-> c]

Over(row, cols) == [f \in DOMAIN row |-> IF f \in DOMAIN cols THEN cols[f] ELSE row[f]]
Put(d, u, row) == [d EXCEPT !.row = (u :> row) @@ @]
Fresh(d, key) == <<key, d.gen + 1>>

\* lsp-add and lrp-add with --may-exist: an existing port of that name must
\* be in the given parent and, a router port, have the given networks.
ExecPortAdd(d, c) ==
    LET old == NamedRows(d, c.key)
        new == Fresh(d, c.key)
        row == [EmptyRow EXCEPT !.name = c.key, !.opts = c.opts]
    IN IF c.p \notin DOMAIN d.row THEN Refused
       ELSE IF old = {} THEN [Put(d, new, row) EXCEPT !.refs = @ \cup {<<c.p, new>>}, !.gen = (@ + 1) % 3]
       ELSE IF \E u \in old : u \in Children(d, c.p) /\ (c.opts = Nil \/ d.row[u].opts = c.opts)
            THEN d ELSE Refused

\* One command on a database; a command that cannot be carried out refuses.
Exec(d, c) ==
    LET has(u) == u \in DOMAIN d.row
        drop(us) == [d EXCEPT !.row = [u \in DOMAIN @ \ us |-> @[u]]]
        del(us) == [drop(us) EXCEPT !.refs = {e \in @ : e[2] \notin us}]
        row == d.row
        named == CHOOSE u \in NamedRows(d, c.key) : TRUE
    IN CASE c.do = "create" -> IF has(c.u) THEN Refused ELSE Put(d, c.u, Over(EmptyRow, c.cols))
         [] c.do = "set" -> IF has(c.u) THEN Put(d, c.u, Over(row[c.u], c.cols)) ELSE Refused
         [] c.do = "add" -> IF has(c.p) /\ has(c.u) THEN [d EXCEPT !.refs = @ \cup {<<c.p, c.u>>}] ELSE Refused
         [] c.do = "leave" -> IF has(c.p) /\ has(c.u) THEN [d EXCEPT !.refs = @ \ {<<c.p, c.u>>}] ELSE Refused
         [] c.do = "remove" -> [d EXCEPT !.refs = @ \ (c.ps \X c.us)]
         [] c.do = "destroy" -> drop(c.us)
         [] c.do = "del" -> del(c.us)
         [] c.do = "del-named" -> del({u \in DOMAIN row : row[u].name \in c.keys})
         [] c.do = "port-add" -> ExecPortAdd(d, c)
         [] c.do = "dhcp" -> IF has(c.u) /\ (c.to = Nil \/ has(c.to))
                             THEN [d EXCEPT !.refs = {e \in @ : e[1] # c.u} \cup
                                                     (IF c.to = Nil THEN {} ELSE {<<c.u, c.to>>})]
                             ELSE Refused
         [] OTHER -> \* by name: set, add and delete gateway chassis
              IF NamedRows(d, c.key) = {} THEN Refused
              ELSE CASE c.do = "set-named" -> Put(d, named, Over(row[named], c.cols))
                     [] c.do = "add-chassis" -> Put(d, named, [row[named] EXCEPT !.chassis = @ \cup c.cs])
                     [] OTHER -> IF c.c \in row[named].chassis
                                 THEN Put(d, named, [row[named] EXCEPT !.chassis = @ \ {c.c}]) ELSE Refused

\* A row that is left may not keep one that was destroyed.
Dangling(d) == \E e \in d.refs : e[1] \in DOMAIN d.row /\ e[2] \notin DOMAIN d.row /\ Keeps(e)

\* One ovn-nbctl call: all of its commands in one transaction, or none.
Run(d, cmds) ==
    LET end == FoldLeft(LAMBDA x, c : IF x = Refused THEN Refused ELSE Exec(x, c), d, cmds)
    IN IF end = Refused THEN Refused ELSE IF Dangling(end) THEN Refused ELSE Settle(end)
=============================================================================

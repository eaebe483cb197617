---------------------------- MODULE RenderCalls -----------------------------
(* renderer.go: what Render and Delete do for each kind, as a sequence of   *)
(* calls.  A call first reads, the desired state and the database, and from *)
(* what it read prepares the commands of one ovn-nbctl transaction; other   *)
(* managers may write in between.  A call may read only, and may put more   *)
(* calls in front of those still to come.                                   *)
(*                                                                          *)
(* w is the worker: the resource copy `cur` it was given, the UUID `at` it  *)
(* carries from call to call (the network's, router's, port's or DHCP row), *)
(* the rows `kept` so far by a loop, and whether the call is tried `again`  *)
(* after its transaction was refused.                                       *)
EXTENDS OvnAudit

VARIABLES want, ovn

Preferred(key) == <<key, 0>>

Refuses(us) == \E u \in us : u = Refused


lookupOwnedRow(key) ==
    LET owned == Owned(ovn, key)
        named == NamedRows(ovn, key)
        preferred == {Preferred(key)} \cap DOMAIN ovn.row
    IN IF Cardinality(owned) > 1 \/ Cardinality(named) > 1 THEN Refused
       ELSE IF owned = {} THEN IF named \cup preferred = {} THEN Nil ELSE Refused
       ELSE IF (key[1] \in Named /\ named # owned) \/ ~(preferred \subseteq owned) THEN Refused
       ELSE CHOOSE u \in owned : TRUE

Found(key) == lookupOwnedRow(key) \notin {Nil, Refused}

Cols(key, rev) == IF key[1] \in Named THEN [id |-> key, name |-> key, rev |-> rev]
                  ELSE [id |-> key, rev |-> rev]

Plan(w, args) == [args |-> args, more |-> <<>>, at |-> w.at, kept |-> w.kept, retry |-> FALSE]
Then(w, more) == [Plan(w, <<>>) EXCEPT !.more = more]

\* The calls.
Ensure(key, rev) == [do |-> "ensure", key |-> key, rev |-> rev]
Attach(key, rev) == [do |-> "attach", key |-> key, rev |-> rev]
Require(key, keep) == [do |-> "require", key |-> key, keep |-> keep]
Acl(g, key, rev) == [do |-> "acl", group |-> g, key |-> key, rev |-> rev]
Opts(opts) == [do |-> "opts", opts |-> opts]
Call(do, x) == [do |-> do, x |-> x]
On(do, id) == [do |-> do, id |-> id]
Drop(key) == [do |-> "drop", key |-> key]
Detach(key, kind, table) == [do |-> "detach", key |-> key, kind |-> kind, table |-> table]

Each(ids, op(_)) == LET s == SetToSeq(ids) IN [i \in DOMAIN s |-> op(s[i])]

-----------------------------------------------------------------------------
(* Owned rows.                                                             *)

requireOwnedRow(w, c) ==
    LET u == lookupOwnedRow(c.key)
    IN IF u \in {Nil, Refused} THEN Refused
       ELSE [Plan(w, <<>>) EXCEPT !.at = IF c.keep THEN u ELSE @]

\* The command that writes a row, and its UUID; Refused when the row may not
\* be written.  A refused create is tried again, on the winner's row only.
Written(w, key, rev) ==
    LET u == lookupOwnedRow(key)
    IN IF u = Refused \/ (u = Nil /\ w.again) THEN Refused
       ELSE IF u = Nil THEN [new |-> TRUE, u |-> Preferred(key), cmd |-> Create(Preferred(key), Cols(key, rev))]
       ELSE [new |-> FALSE, u |-> u, cmd |-> Set(u, Cols(key, rev))]

ensureOwnedRow(w, c) ==
    LET x == Written(w, c.key, c.rev)
    IN IF x = Refused THEN Refused
       ELSE [Plan(w, <<x.cmd>>) EXCEPT !.at = x.u, !.retry = x.new,
                                       !.more = IF x.new THEN <<Require(c.key, TRUE)>> ELSE <<>>]

ensureOwnedAttachedRow(w, c) ==
    LET x == Written(w, c.key, c.rev)
    IN IF x = Refused THEN Refused
       ELSE [Plan(w, <<x.cmd, Add(w.at, x.u)>>) EXCEPT !.kept = @ \cup {x.u}, !.retry = x.new,
                                       !.more = IF x.new THEN <<Require(c.key, FALSE)>> ELSE <<>>]

\* The rows of the resources of a kind, whose list is read with them.
Rows(kind, table) == {lookupOwnedRow(<<table, id>>) : id \in Of(want, kind)} \ {Nil}

OtherParents(kind, table, id) == {lookupOwnedRow(<<table, o>>) : o \in Of(want, kind) \ {id}} \ {Nil}

\* ensureACL and floatingIP: the child in its parent and in no other.
OnlyUnder(w, c, kind, table, id) ==
    LET x == Written(w, c.key, c.rev)
        others == OtherParents(kind, table, id)
    IN IF x = Refused \/ Refuses(others) \/ ~Is(want, id) \/ ~Found(<<table, id>>) THEN Refused
       ELSE [Plan(w, <<x.cmd, Unlink(others, {x.u}), Add(lookupOwnedRow(<<table, id>>), x.u)>>)
               EXCEPT !.retry = x.new, !.more = IF x.new THEN <<Require(c.key, FALSE)>> ELSE <<>>]

ensureACL(w, c) == OnlyUnder(w, c, "group", "PG", c.group)

\* deleteACL and deleteFloatingIP.
detach(w, key, kind, table) ==
    LET u == lookupOwnedRow(key) IN
    IF u = Refused THEN Refused ELSE IF u = Nil THEN Plan(w, <<>>)
    ELSE IF Refuses(Rows(kind, table)) THEN Refused
    ELSE Plan(w, <<Unlink(Rows(kind, table), {u}), Destroy({u})>>)

\* Delete of a network, a port or a security group.
drop(w, key) ==
    LET u == lookupOwnedRow(key)
    IN IF u = Refused THEN Refused ELSE Plan(w, IF u = Nil THEN <<>> ELSE <<Del({u})>>)

-----------------------------------------------------------------------------
(* Networks and provider segments.                                         *)

defaultProviderSegment(p) ==
    IF ~Is(want, p) \/ Cardinality(ProviderSegments(want, p)) # 1 THEN Refused
    ELSE LET s == CHOOSE s \in ProviderSegments(want, p) : TRUE IN IF Is(want, s) THEN want[s] ELSE Refused

\* Nil, Refused when the name is not the network's own, or the localnet port.
ownedProviderPort(n) ==
    LET named == NamedRows(ovn, <<"localnet", n>>) IN
    IF named = {} THEN Nil
    ELSE IF Owned(ovn, <<"localnet", n>>) \cap named = named /\ Cardinality(named) = 1
         THEN CHOOSE u \in named : TRUE ELSE Refused

\* renderProviderPort, for a segment read before or, from a network, now.
renderProviderPort(w, c) ==
    LET key == <<"localnet", c.net.id>>
        seg == IF c.seg = Nil THEN defaultProviderSegment(c.net.provider) ELSE c.seg
        u == ownedProviderPort(c.net.id)
        cols == [id |-> key, rev |-> <<At(seg)>>]
    IN IF seg = Refused \/ u = Refused THEN Refused
       ELSE Plan(w, IF u = Nil THEN <<PortAdd(w.at, key, Nil), SetNamed(key, cols)>> ELSE <<Set(u, cols)>>)

removeProviderPort(w, n) ==
    LET u == ownedProviderPort(n)
    IN IF u = Refused THEN Refused ELSE Plan(w, IF u = Nil THEN <<>> ELSE <<Del({u})>>)

ProviderPort(n, seg) == [do |-> "localnet", net |-> n, seg |-> seg]

\* A segment is rendered or removed where its provider network resolves to
\* it: "other" where another is the default, Refused where none can be told.
segmentRole(x) ==
    IF ~Is(want, x.provider) THEN Refused
    ELSE IF want[x.provider].default # Nil THEN IF want[x.provider].default = x.id THEN "own" ELSE "other"
    ELSE IF Cardinality(ProviderSegments(want, x.provider)) > 1 THEN Refused ELSE "own"

providerSegment(w, x) ==
    LET nets == {n \in Of(want, "network") : want[n].provider = x.provider}
        render(n) == <<Require(<<"LS", n>>, TRUE), ProviderPort(want[n], x)>>
    IN CASE segmentRole(x) = Refused -> Refused
         [] segmentRole(x) = "other" -> Plan(w, <<>>)
         [] OTHER -> Then(w, FlattenSeq(Each(nets, render)))

deleteProviderSegment(w, x) ==
    LET keys == {<<"localnet", n>> : n \in {n \in Of(want, "network") : want[n].provider = x.provider}}
    IN IF segmentRole(x) = Refused THEN Refused
       ELSE Plan(w, IF segmentRole(x) = "other" \/ keys = {} THEN <<>> ELSE <<DelNamed(keys)>>)

-----------------------------------------------------------------------------
(* Subnets and ports.                                                      *)

AttachDHCP(x, on) == [do |-> "attach-dhcp", x |-> x, on |-> on]

subnet(w, x) ==
    IF ~Is(want, x.net) THEN Refused
    ELSE Then(w, <<Ensure(<<"DHCP", x.id>>, <<At(x)>>), Opts(<<At(x), At(want[x.net])>>), AttachDHCP(x, TRUE)>>)

\* clearSubnetDHCP, and Delete of a subnet: resolve the row, then detach the
\* ports, then destroy it.
clearSubnetDHCP(w, x) ==
    LET u == lookupOwnedRow(<<"DHCP", x.id>>) IN
    IF u = Refused THEN Refused
    ELSE [Then(w, <<AttachDHCP(x, FALSE), Call("destroy", Nil)>>) EXCEPT !.at = u]

attachDHCPToPorts(w, c) ==
    Then(w, Each({p \in Of(want, "port") : want[p].net = c.x.net /\ c.x.id \in ToSet(want[p].subnets)},
                 LAMBDA p : [do |-> "attach-port", id |-> p, on |-> c.on]))

\* The DHCP row of the call is at `at`; none clears the port's.
attachPort(w, c) ==
    LET u == lookupOwnedRow(<<"port", c.id>>)
    IN IF u = Refused THEN Refused ELSE IF u = Nil THEN Plan(w, <<>>)
       ELSE Plan(w, <<SetDhcp(u, IF c.on THEN w.at ELSE Nil)>>)

\* An existing port row is found by its identity, wherever it is attached.
port(w, x) ==
    LET key == <<"port", x.id>>
        u == lookupOwnedRow(key)
        cols == [id |-> key, rev |-> <<At(x)>>]
        rest == <<Opts(<<At(x)>>), Call("port-dhcp", x), Call("port-groups", x)>>
    IN IF \/ ~Is(want, x.net) \/ \E s \in ToSet(x.subnets) : ~Is(want, s) \/ want[s].net # x.net
          \/ ~Found(<<"LS", x.net>>) \/ u = Refused
       THEN Refused
       ELSE IF u = Nil
            THEN [Plan(w, <<PortAdd(lookupOwnedRow(<<"LS", x.net>>), key, Nil), SetNamed(key, cols)>>)
                    EXCEPT !.more = <<Require(key, TRUE)>> \o rest]
            ELSE [Plan(w, <<Set(u, cols)>>) EXCEPT !.at = u, !.more = rest]

portDHCP(w, x) ==
    LET row(s) == IF ~Is(want, s) THEN Refused
                  ELSE IF want[s].dhcp THEN lookupOwnedRow(<<"DHCP", s>>) ELSE Nil
        rows == [i \in DOMAIN x.subnets |-> row(x.subnets[i])]
        on == {i \in DOMAIN rows : rows[i] # Nil}
        first == CHOOSE i \in on : \A j \in on : i <= j
    IN IF on = {} THEN Plan(w, <<SetDhcp(w.at, Nil)>>)
       ELSE IF rows[first] = Refused THEN Refused
       ELSE Plan(w, <<SetDhcp(w.at, rows[first])>>)

portGroups(w, x) ==
    LET groups == Of(want, "group")
    IN Then(w, Each(groups, LAMBDA g : On(IF g \in x.groups THEN "join" ELSE "leave", g))
               \o (IF x.groups \subseteq groups THEN <<>> ELSE <<Call("fail", Nil)>>))

member(w, c) ==
    LET g == lookupOwnedRow(<<"PG", c.id>>)
    IN IF g = Refused \/ (g = Nil /\ c.do = "join") THEN Refused
       ELSE IF g = Nil THEN Plan(w, <<>>)
       ELSE Plan(w, <<IF c.do = "join" THEN Add(g, w.at) ELSE Leave(g, w.at)>>)

-----------------------------------------------------------------------------
(* Routers and their interfaces.                                           *)

validateRouterExternal(x) ==
    /\ Is(want, x.ext) /\ want[x.ext].ext /\ want[x.ext].provider # Nil
    /\ defaultProviderSegment(want[x.ext].provider) # Refused
    /\ Is(want, x.sub) /\ want[x.sub].net = x.ext

enabledGatewayChassis == {n \in LiveOf(want, "node") : want[n].enabled}

\* router with an external network: everything is checked before any write.
router(w, x) ==
    LET gc == enabledGatewayChassis IN
    IF ~validateRouterExternal(x) \/ gc = {} THEN Refused
    ELSE Then(w, <<Ensure(<<"LR", x.id>>, <<At(x)>>), Call("gateway", x),
                   Attach(<<"default", x.id>>, <<At(x), At(want[x.sub])>>),
                   [do |-> "chassis", id |-> x.id, cs |-> gc], Call("snat", x), Call("routes", x)>>)

\* A router port, its peer on the given switch, and what is set on them.
Pair(lrp, opts, lsp, switch, sets) ==
    [do |-> "pair", lrp |-> lrp, opts |-> opts, lsp |-> lsp, switch |-> switch, sets |-> sets]

\* lrp-add and lsp-add refuse a port whose network or switch changed: once
\* one of the two is seen to exist, both are replaced in one transaction.
addPair(w, c) ==
    LET add == <<PortAdd(w.at, c.lrp, c.opts), PortAdd(c.switch, c.lsp, Nil)>> \o c.sets
    IN IF w.again /\ NamedRows(ovn, c.lrp) \cup NamedRows(ovn, c.lsp) = {} THEN Refused
       ELSE [Plan(w, IF w.again THEN <<DelNamed({c.lsp, c.lrp})>> \o add ELSE add) EXCEPT !.retry = TRUE]

renderRouterGateway(w, x) ==
    LET lrp == <<"gwlrp", x.id>>
        lsp == <<"gwlsp", x.id>>
    IN IF ~Found(<<"LS", x.ext>>) THEN Refused
       ELSE Then(w, <<Pair(lrp, x.ip, lsp, lookupOwnedRow(<<"LS", x.ext>>),
                           <<SetNamed(lrp, [id |-> lrp, rev |-> <<At(x)>>]),
                             SetNamed(lsp, [id |-> lsp, rev |-> <<At(x), Name(x.ext)>>])>>)>>)

gatewayChassis(r) == LET rows == NamedRows(ovn, <<"gwlrp", r>>)
                     IN IF rows = {} THEN Refused ELSE ovn.row[CHOOSE u \in rows : TRUE].chassis

syncGatewayChassis(w, c) ==
    IF gatewayChassis(c.id) = Refused THEN Refused
    ELSE [Plan(w, <<AddChassis(<<"gwlrp", c.id>>, c.cs)>>) EXCEPT
            !.more = Each(gatewayChassis(c.id) \ c.cs, LAMBDA n : [do |-> "del-chassis", id |-> c.id, c |-> n])]

\* Another manager may have deleted the same stale chassis.
delGatewayChassis(w, c) ==
    IF ~w.again THEN [Plan(w, <<DelChassis(<<"gwlrp", c.id>>, c.c)>>) EXCEPT !.retry = TRUE]
    ELSE IF gatewayChassis(c.id) = Refused THEN Refused
    ELSE IF c.c \in gatewayChassis(c.id) THEN Refused ELSE Plan(w, <<>>)

\* findMany of a router's rows of one kind.
RouterRows(kind, r) == {u \in DOMAIN ovn.row : LET id == ovn.row[u].id IN id # Nil /\ id[1] = kind /\ id[2] = r}

Prune(rows) == [do |-> "prune", rows |-> rows]

\* Mutant of Stale: rows that are no longer wanted stay.
NoneStale(w, rows) == {}

Stale(w, rows) == rows \ w.kept

\* removeRouterSNATRows, removeRouterStaticRouteRows
prune(w, c) ==
    LET stale == Stale(w, c.rows)
    IN Plan(w, IF stale = {} THEN <<>> ELSE <<Unlink({w.at}, stale), Destroy(stale)>>)

\* The rows there are are read first; what the loop wrote or found is kept.
Loop(w, calls, rows) == [Then(w, Append(calls, Prune(rows))) EXCEPT !.kept = {}]

reconcileRouterSNAT(w, x) ==
    LET on == x.st # "deleting" /\ x.snat /\ x.ext # Nil
        ifs == IF on THEN Interfaces(want, x.id) ELSE {}
        snat(i) == Attach(<<"snat", x.id, i>>, <<At(x), At(want[i]), At(want[want[i].subnet])>>)
    IN IF on /\ ~validateRouterExternal(x) THEN Refused
       ELSE Loop(w, Each(ifs, snat), RouterRows("snat", x.id))

reconcileRouterStaticRoutes(w, x) ==
    LET routes == IF x.st = "deleting" THEN {} ELSE x.routes
    IN Loop(w, Each(routes, LAMBDA s : [do |-> "route", x |-> x, s |-> s]), RouterRows("route", x.id))

staticRoute(w, c) ==
    LET out == OutputPorts(want, c.x, c.s)
    IN IF Cardinality(out) # 1 THEN Refused
       ELSE Then(w, <<Attach(<<"route", c.x.id, c.s>>, <<At(c.x), Name((CHOOSE o \in out : TRUE)[2])>>)>>)

clearRouterExternal(w, x) ==
    LET default == lookupOwnedRow(<<"default", x.id>>)
        gone == RouterRows("snat", x.id) \cup ({default} \ {Nil})
    IN IF default = Refused THEN Refused
       ELSE Plan(w, <<DelNamed({<<"gwlsp", x.id>>, <<"gwlrp", x.id>>}), Unlink({w.at}, gone), Destroy(gone)>>)

deleteRouter(w, x) ==
    LET u == lookupOwnedRow(<<"LR", x.id>>)
        default == lookupOwnedRow(<<"default", x.id>>)
        gone == RouterRows("snat", x.id) \cup RouterRows("route", x.id) \cup ({default} \ {Nil})
    IN IF Refuses({u, default}) THEN Refused
       ELSE Plan(w, <<DelNamed({<<"gwlsp", x.id>>, <<"gwlrp", x.id>>}), Unlink({u}, gone), Del({u}), Destroy(gone)>>)

\* The router's copy is read here and used for its SNAT and routes below.
routerInterface(w, x) ==
    LET lr == <<"LR", x.router>>
        lrp == <<"lrp", x.id>>
        net == want[x.subnet].net
    IN IF ~Is(want, x.router) \/ ~Is(want, x.subnet) THEN Refused
       ELSE IF ~Is(want, net) \/ want[net].ext \/ ~Found(lr) \/ ~Found(<<"LS", net>>) THEN Refused
       ELSE [Then(w, <<Pair(lrp, x.subnet, <<"rsp", x.id>>, lookupOwnedRow(<<"LS", net>>),
                            <<SetNamed(lrp, [id |-> lrp, rev |-> <<At(x)>>])>>),
                       Call("snat", want[x.router]), Call("routes", want[x.router])>>)
               EXCEPT !.at = lookupOwnedRow(lr)]

deleteRouterInterface(w, x) ==
    LET lr == lookupOwnedRow(<<"LR", x.router>>)
        nat == lookupOwnedRow(<<"snat", x.router, x.id>>)
    IN IF Refuses({lr, nat}) THEN Refused
       ELSE [Plan(w, <<DelNamed({<<"rsp", x.id>>, <<"lrp", x.id>>}), Unlink({lr}, {nat}), Destroy({nat})>>)
               EXCEPT !.at = lr, !.more = <<On("snat-left", x.router)>>]

\* The SNAT of the interfaces that are left, while the router is desired.
remainingSNAT(w, r) ==
    IF ~Is(want, r) THEN Plan(w, <<>>)
    ELSE IF w.at = Nil THEN Refused ELSE reconcileRouterSNAT(w, want[r])

floatingIP(w, x) ==
    IF x.port = Nil THEN detach(w, <<"fip", x.id>>, "router", "LR")
    ELSE IF ~Is(want, x.router) \/ ~Is(want, x.port) THEN Refused
    ELSE IF ~validateRouterExternal(want[x.router]) THEN Refused
    ELSE IF want[want[x.router].ext].provider # x.provider THEN Refused
    ELSE OnlyUnder(w, [key |-> <<"fip", x.id>>, rev |-> <<At(x)>>], "router", "LR", x.router)

-----------------------------------------------------------------------------
(* Render and Delete.                                                      *)

\* The plan of call c, made from what the worker reads now.
Prepare(w, c) ==
    CASE c.do = "ensure" -> ensureOwnedRow(w, c)
      [] c.do = "attach" -> ensureOwnedAttachedRow(w, c)
      [] c.do = "require" -> requireOwnedRow(w, c)
      [] c.do = "acl" -> ensureACL(w, c)
      [] c.do = "detach" -> detach(w, c.key, c.kind, c.table)
      [] c.do = "drop" -> drop(w, c.key)
      [] c.do = "opts" -> Plan(w, <<Set(w.at, [opts |-> c.opts])>>)
      [] c.do = "destroy" -> Plan(w, IF w.at = Nil THEN <<>> ELSE <<Destroy({w.at})>>)
      [] c.do = "fail" -> Refused
      [] c.do = "localnet" -> renderProviderPort(w, c)
      [] c.do = "no-localnet" -> removeProviderPort(w, c.id)
      [] c.do = "segment" -> providerSegment(w, c.x)
      [] c.do = "no-segment" -> deleteProviderSegment(w, c.x)
      [] c.do = "subnet" -> subnet(w, c.x)
      [] c.do = "clear-dhcp" -> clearSubnetDHCP(w, c.x)
      [] c.do = "attach-dhcp" -> attachDHCPToPorts(w, c)
      [] c.do = "attach-port" -> attachPort(w, c)
      [] c.do = "port" -> port(w, c.x)
      [] c.do = "port-dhcp" -> portDHCP(w, c.x)
      [] c.do = "port-groups" -> portGroups(w, c.x)
      [] c.do \in {"join", "leave"} -> member(w, c)
      [] c.do = "router" -> router(w, c.x)
      [] c.do = "gateway" -> renderRouterGateway(w, c.x)
      [] c.do = "pair" -> addPair(w, c)
      [] c.do = "chassis" -> syncGatewayChassis(w, c)
      [] c.do = "del-chassis" -> delGatewayChassis(w, c)
      [] c.do = "snat" -> reconcileRouterSNAT(w, c.x)
      [] c.do = "snat-left" -> remainingSNAT(w, c.id)
      [] c.do = "routes" -> reconcileRouterStaticRoutes(w, c.x)
      [] c.do = "route" -> staticRoute(w, c)
      [] c.do = "prune" -> prune(w, c)
      [] c.do = "no-gateway" -> clearRouterExternal(w, c.x)
      [] c.do = "no-router" -> deleteRouter(w, c.x)
      [] c.do = "iface" -> routerInterface(w, c.x)
      [] c.do = "no-iface" -> deleteRouterInterface(w, c.x)
      [] c.do = "fip" -> floatingIP(w, c.x)

Render(x) ==
    CASE x.kind = "network" -> <<Ensure(<<"LS", x.id>>, <<At(x)>>),
                                 IF x.provider = Nil THEN On("no-localnet", x.id) ELSE ProviderPort(x, Nil)>>
      [] x.kind = "subnet" -> <<Call(IF x.dhcp THEN "subnet" ELSE "clear-dhcp", x)>>
      [] x.kind = "group" -> <<Ensure(<<"PG", x.id>>, <<At(x)>>)>>
                             \o Each(Implicit, LAMBDA i : Acl(x.id, <<"ACL", x.id, i>>, <<At(x)>>))
      [] x.kind = "rule" -> <<Acl(x.group, <<"ACL", x.id>>, <<At(x)>>)>>
      [] x.kind = "router" /\ x.ext = Nil ->
             <<Ensure(<<"LR", x.id>>, <<At(x)>>), Call("no-gateway", x), Call("routes", x)>>
      [] x.kind \in {"segment", "port", "router", "iface", "fip"} -> <<Call(x.kind, x)>>
      [] OTHER -> <<>>

Delete(x) ==
    CASE x.kind = "network" -> <<Drop(<<"LS", x.id>>)>>
      [] x.kind = "port" -> <<Drop(<<"port", x.id>>)>>
      [] x.kind = "group" -> <<Drop(<<"PG", x.id>>)>>
      [] x.kind = "subnet" -> <<Call("clear-dhcp", x)>>
      [] x.kind = "rule" -> <<Detach(<<"ACL", x.id>>, "group", "PG")>>
      [] x.kind = "fip" -> <<Detach(<<"fip", x.id>>, "router", "LR")>>
      [] x.kind = "segment" -> <<Call("no-segment", x)>>
      [] x.kind = "router" -> <<Call("no-router", x)>>
      [] x.kind = "iface" -> <<Call("no-iface", x)>>
      [] OTHER -> <<>>
=============================================================================

----------------------------- MODULE MCRenderer -----------------------------
(* Renderer on small scenes: a desired state with its rendered rows, and    *)
(* the edits two managers make on it side by side, one forced pass after    *)
(* them.  Each scene is about one place where calls of different resources  *)
(* write the same rows.                                                     *)
EXTENDS Renderer, TLC

VARIABLE limit  \* the faults the scene allows

New(kind, id) == [kind |-> kind, id |-> id, rev |-> 1, st |-> "live"]
provider(id, d) == New("provider", id) @@ [default |-> d]
segment(id, p) == New("segment", id) @@ [provider |-> p]
network(id, p) == New("network", id) @@ [provider |-> p, ext |-> p # Nil]
sub(id, n, dhcp) == New("subnet", id) @@ [net |-> n, dhcp |-> dhcp]
group(id) == New("group", id)
rule(id, g) == New("rule", id) @@ [group |-> g]
rtr(id, e, s, ip, snat, routes) ==
    New("router", id) @@ [ext |-> e, sub |-> s, ip |-> ip, snat |-> snat, routes |-> routes]
iface(id, r, s) == New("iface", id) @@ [router |-> r, subnet |-> s]
prt(id, n, ss, gs) == New("port", id) @@ [net |-> n, subnets |-> ss, groups |-> gs]
fip(id, p, r, to) == New("fip", id) @@ [provider |-> p, router |-> r, port |-> to]
node(id, on) == New("node", id) @@ [enabled |-> on]

To(x) == [id |-> x.id, x |-> x, n |-> 1]
Again(x) == [To(x) EXCEPT !.n = 2]
Gone(id) == [id |-> id, x |-> Nil, n |-> 1]

Graph(xs, absent) == [id \in {x.id : x \in xs} \cup absent |->
                        IF id \in absent THEN Nil ELSE CHOOSE x \in xs : x.id = id]

\* The database a quiet pass leaves for a desired state: created rows have
\* the number k, rows added by name the number 3.
Rendered(w, k) ==
    LET plan == buildManagedAuditPlan(w)
        uuid(key) == <<key, IF key[1] \in SwitchPorts \cup {"lrp", "gwlrp"} THEN 3 ELSE k>>
        opts(x) == CASE x.key[1] = "lrp" -> w[x.key[2]].subnet
                     [] x.key[1] = "gwlrp" -> w[x.key[2]].ip
                     [] OTHER -> x.opts
        row(x) == [id |-> x.key, name |-> IF x.key[1] \in Named THEN x.key ELSE Nil, rev |-> x.rev, opts |-> opts(x),
                   chassis |-> IF x.key[1] = "gwlrp" THEN {n \in Of(w, "node") : w[n].enabled} ELSE {}]
        peer(i) == <<"rsp", i>>
        ofKey(key) == CHOOSE x \in plan : x.key = key
    IN [row |-> [u \in {uuid(x.key) : x \in plan} \cup {uuid(peer(i)) : i \in Of(w, "iface")} |->
                   IF u[1][1] = "rsp" THEN [EmptyRow EXCEPT !.name = u[1]] ELSE row(ofKey(u[1]))],
        refs |-> UNION {{<<uuid(p), uuid(x.key)>> : p \in x.parents} : x \in plan}
                   \cup {<<uuid(<<"LS", w[w[i].subnet].net>>), uuid(peer(i))>> : i \in Of(w, "iface")},
        gen |-> 0]

Empty == [row |-> <<>>, refs |-> {}, gen |-> 0]

\* A restored database with a second row for a key, and one whose row for it
\* has lost its marks.
Doubled(d, key) == [d EXCEPT !.row = (<<key, 5>> :> [EmptyRow EXCEPT !.id = key]) @@ @]
Unmarked(d, key) == [d EXCEPT !.row = [u \in DOMAIN @ |-> IF u[1] = key THEN [@[u] EXCEPT !.id = Nil] ELSE @[u]]]

-----------------------------------------------------------------------------
(* The scenes: [want, ovn, left, limit].                                   *)

Scene(w, d, edits, n) == [want |-> w, ovn |-> d, left |-> edits, limit |-> n]

\* A port on two DHCP subnets; it may move to another network.
Lan == Graph({network("n", Nil), network("o", Nil), sub("s", "n", TRUE), sub("t", "n", TRUE), sub("v", "o", FALSE),
              group("g"), prt("p", "n", <<"s", "t">>, {"g"})}, {})

LanScenes == {
    Scene(Lan, Rendered(Lan, 0), {To(sub("s", "n", FALSE)), Again(sub("s", "n", TRUE)), To(prt("p", "n", <<"t", "s">>, {"g"}))}, 1),
    Scene(Lan, Rendered(Lan, 2), {To(prt("p", "n", <<"t">>, {"g"})), Gone("s"), To(network("n", Nil))}, 1),
    Scene(Lan, Empty, {To(network("n", Nil)), To(sub("s", "n", TRUE)), To(prt("p", "n", <<"s">>, {"g"}))}, 1),
    Scene(Lan, Rendered(Lan, 0), {To(prt("p", "o", <<"v">>, {"g"})), Gone("t")}, 1)}

\* A rule and a port that change groups.
Groups == Graph({network("n", Nil), sub("s", "n", FALSE), group("g"), group("h"), rule("u", "g"),
                 prt("p", "n", <<"s">>, {"g"})}, {"q"})

GroupScenes == {
    Scene(Groups, Empty, {To(group("g")), Again(group("g")), To(rule("u", "g"))}, 1),
    Scene(Groups, Rendered(Groups, 0), {To(rule("u", "h")), To(rule("u", "g")), To(rule("q", "h"))}, 1),
    Scene(Groups, Rendered(Groups, 2), {To(rule("u", "h")), To(prt("p", "n", <<"s">>, {"h"})), Gone("g"), Gone("u")}, 1),
    Scene(Groups, Unmarked(Rendered(Groups, 0), <<"PG", "g">>), {To(group("g")), Gone("u")}, 1),
    Scene(Groups, Doubled(Rendered(Groups, 0), <<"PG", "g">>), {To(rule("u", "h")), To(group("g"))}, 1)}

Outside == {provider("pn", Nil), segment("sg", "pn"), network("x", "pn"), sub("xs", "x", FALSE), node("c", TRUE)}

\* A router with a gateway, SNAT of two interfaces and a static route.
Natted == Graph(Outside \cup {network("n", Nil), sub("s", "n", FALSE), sub("t", "n", FALSE), node("d", TRUE),
              rtr("r", "x", "xs", "ip", TRUE, {"t"}), iface("i", "r", "s"), iface("j", "r", "t")}, {})

NatScenes == {
    Scene(Natted, Rendered(Natted, 0), {To(rtr("r", "x", "xs", "iq", TRUE, {"t"})), To(rtr("r", "x", "xs", "ip", FALSE, {})), Gone("i")}, 1),
    Scene(Natted, Rendered(Natted, 2), {To(rtr("r", Nil, Nil, Nil, FALSE, {})), To(node("d", FALSE)), Gone("j")}, 1),
    Scene(Natted, Rendered(Natted, 0), {To(rtr("r", "x", "xs", "ip", TRUE, {"t"})), To(node("d", FALSE)), To(node("c", FALSE))}, 1),
    Scene(Natted, Empty, {To(rtr("r", "x", "xs", "ip", TRUE, {"xs"})), To(iface("i", "r", "s"))}, 1)}

\* Two routers and a floating IP.
Float == Graph(Outside \cup {network("n", Nil), sub("s", "n", FALSE), sub("t", "n", FALSE), group("g"),
              prt("p", "n", <<"s">>, {"g"}), rtr("r", "x", "xs", "ip", TRUE, {}), rtr("o", "x", "xs", "iq", TRUE, {}),
              iface("i", "r", "s"), iface("j", "o", "s"), fip("f", "pn", "r", "p")}, {})

FloatScenes == {
    Scene(Float, Rendered(Float, 0), {To(fip("f", "pn", "o", "p")), To(fip("f", "pn", "r", "p")), Gone("f")}, 1),
    Scene(Float, Rendered(Float, 2), {To(fip("f", "pn", Nil, Nil)), Gone("i"), Gone("r")}, 1),
    Scene(Float, Rendered(Float, 0), {To(iface("j", "r", "t")), To(fip("f", "pn", "r", "p"))}, 1),
    Scene(Float, Empty, {To(fip("f", "pn", "o", "p")), Again(fip("f", "pn", "o", "p"))}, 0)}

\* A provider network whose default segment changes.
Provider == Graph({provider("pn", "sg"), segment("sg", "pn"), segment("sh", "pn"), network("x", "pn"), network("y", "pn")}, {})

ProviderScenes == {
    Scene(Provider, Rendered(Provider, 0), {To(provider("pn", "sh")), To(segment("sh", "pn")), Gone("sg")}, 1),
    Scene(Provider, Rendered(Provider, 2), {To(network("x", Nil)), To(segment("sg", "pn")), Gone("y")}, 1),
    Scene(Provider, Rendered(Provider, 0), {To(provider("pn", Nil)), To(segment("sg", "pn")), Gone("sh")}, 1)}

MCScenes == LanScenes \cup GroupScenes \cup NatScenes \cup FloatScenes \cup ProviderScenes

MCInit ==
    \E s \in MCScenes :
        /\ want = s.want /\ ovn = s.ovn /\ left = s.left /\ limit = s.limit
        /\ wk = [m \in Workers |-> Idle]
        /\ pass = [st |-> "none", queue |-> <<>>, errs |-> FALSE, calm |-> FALSE]
        /\ moved = {} /\ ready = {} /\ faults = 0
        /\ spoilt = Contested

MCvars == <<vars, limit>>

\* Edits and faults come first; a pass starts when the managers are idle.
MCNext ==
    \/ pass.st = "none" /\ (\E m \in Managers, e \in left : Edit(m, e)) /\ UNCHANGED limit
    \/ (\E m \in Workers : WorkerStep(m)) /\ UNCHANGED limit
    \/ faults < limit /\ (\E m \in Managers : Lost(m) \/ Crash(m)) /\ UNCHANGED limit
    \/ (\A m \in Managers : ~Busy(m)) /\ PassStart /\ UNCHANGED limit
    \/ PassNext /\ UNCHANGED limit
    \/ PassEnd /\ UNCHANGED limit

MCSpec == MCInit /\ [][MCNext]_MCvars

ManagerSymmetry == Permutations(Managers)
=============================================================================

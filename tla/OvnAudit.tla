------------------------------ MODULE OvnAudit ------------------------------
(* audit.go: the rows and references a desired state calls for, worked out  *)
(* from the desired state alone, and the comparison of a database with      *)
(* them.  pvnctl reconcile-ovn runs it after a forced pass.                 *)
EXTENDS DesiredGraph

CONSTANT Implicit  \* the implicit ACLs of a security group

\* What a row was written from: a resource's data, or only its name.
At(x) == <<x.id, x.rev>>
Name(id) == <<id, 0>>

Row(key, rev, opts, parents) == [key |-> key, rev |-> rev, opts |-> opts, parents |-> parents]

networkRows(w, x) ==
    {Row(<<"LS", x.id>>, <<At(x)>>, Nil, {})} \cup
    (IF x.provider = Nil THEN {}
     ELSE {Row(<<"localnet", x.id>>, <<At(w[s])>>, Nil, {<<"LS", x.id>>}) :
             s \in ProviderSegments(w, x.provider)})

\* The port's first subnet that serves DHCP.
firstDHCP(w, p) == SelectSeq(w[p].subnets, LAMBDA s : w[s].dhcp)

subnetRows(w, x) ==
    IF ~x.dhcp THEN {}
    ELSE {Row(<<"DHCP", x.id>>, <<At(x)>>, <<At(x), At(w[x.net])>>,
              {<<"port", p>> : p \in {p \in Of(w, "port") : firstDHCP(w, p) # <<>> /\ Head(firstDHCP(w, p)) = x.id}})}

groupRows(x) ==
    {Row(<<"PG", x.id>>, <<At(x)>>, Nil, {})} \cup
    {Row(<<"ACL", x.id, i>>, <<At(x)>>, Nil, {<<"PG", x.id>>}) : i \in Implicit}

routerRows(w, x) ==
    LET lr == <<"LR", x.id>>
        out(s) == CHOOSE k \in OutputPorts(w, x, s) : TRUE
    IN {Row(lr, <<At(x)>>, Nil, {})} \cup
       {Row(<<"route", x.id, s>>, <<At(x), Name(out(s)[2])>>, Nil, {lr}) : s \in x.routes} \cup
       (IF x.ext = Nil THEN {}
        ELSE {Row(<<"gwlrp", x.id>>, <<At(x)>>, Nil, {lr}),
              Row(<<"gwlsp", x.id>>, <<At(x), Name(x.ext)>>, Nil, {<<"LS", x.ext>>}),
              Row(<<"default", x.id>>, <<At(x), At(w[x.sub])>>, Nil, {lr})})

ifaceRows(w, x) ==
    LET r == w[x.router] IN
    {Row(<<"lrp", x.id>>, <<At(x)>>, Nil, {<<"LR", r.id>>})} \cup
    (IF r.snat /\ r.ext # Nil
     THEN {Row(<<"snat", r.id, x.id>>, <<At(r), At(x), At(w[x.subnet])>>, Nil, {<<"LR", r.id>>})} ELSE {})

portRows(x) ==
    {Row(<<"port", x.id>>, <<At(x)>>, <<At(x)>>, {<<"LS", x.net>>} \cup {<<"PG", g>> : g \in x.groups})}

RowsOf(w, x) ==
    CASE x.kind = "network" -> networkRows(w, x)
      [] x.kind = "subnet" -> subnetRows(w, x)
      [] x.kind = "group" -> groupRows(x)
      [] x.kind = "rule" -> {Row(<<"ACL", x.id>>, <<At(x)>>, Nil, {<<"PG", x.group>>})}
      [] x.kind = "router" -> routerRows(w, x)
      [] x.kind = "iface" -> ifaceRows(w, x)
      [] x.kind = "port" -> portRows(x)
      [] x.kind = "fip" -> IF x.port = Nil THEN {}
                           ELSE {Row(<<"fip", x.id>>, <<At(x)>>, Nil, {<<"LR", x.router>>})}
      [] OTHER -> {}

buildManagedAuditPlan(w) == UNION {RowsOf(w, w[id]) : id \in {id \in DOMAIN w : w[id] # Nil}}

Owned(d, key) == {u \in DOMAIN d.row : d.row[u].id = key}
Parents(d, u) == {e[1] : e \in {e \in d.refs : e[2] = u}}

\* The keys at fault: an expected row that is missing, double, misnamed, out
\* of date or under the wrong parents, and a managed row nothing asks for.
\* A router, a port group or a port may have no other child either.
auditManagedInventory(plan, d) ==
    {x.key : x \in {x \in plan :
        ~ \E u \in Owned(d, x.key) :
            /\ Owned(d, x.key) = {u}
            /\ x.key[1] \in Named => NamedRows(d, x.key) = {u}
            /\ <<x.key, 0>> \in DOMAIN d.row => u = <<x.key, 0>>
            /\ d.row[u].rev = x.rev /\ (x.opts # Nil => d.row[u].opts = x.opts)
            /\ Parents(d, u) = UNION {Owned(d, k) : k \in x.parents}}}
    \cup {d.row[u].id : u \in {u \in DOMAIN d.row : d.row[u].id \notin {x.key : x \in plan} \cup {Nil}}}
    \cup {e[2][1] : e \in {e \in d.refs : /\ d.row[e[1]].id # Nil /\ KindOf(e[1]) # "LS"
                                          /\ d.row[e[2]].id = Nil}}

AuditManagedGraph(w, d) == auditManagedInventory(buildManagedAuditPlan(w), d)
=============================================================================

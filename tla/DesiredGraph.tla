---------------------------- MODULE DesiredGraph ----------------------------
(* The desired state the renderer reads: a function from resource IDs to    *)
(* resources, Nil where the store has none.  A resource has a kind, an ID,  *)
(* a revision, a state ("live" or "deleting") and the fields that refer to  *)
(* other resources:                                                         *)
(*   provider  default                     segment  provider               *)
(*   network   provider, ext (external?)   subnet   net, dhcp              *)
(*   group                                 rule     group                  *)
(*   router    ext, sub, ip, snat, routes  iface    router, subnet         *)
(*   port      net, subnets, groups        fip      provider, router, port *)
(*   node      enabled                                                     *)
(* A static route is named by the subnet its next hop is on.               *)
EXTENDS OvnNorthbound

dependencyOrder == <<"provider", "network", "segment", "subnet", "group", "rule",
                     "router", "iface", "port", "fip", "node">>

Of(w, kind) == {id \in DOMAIN w : w[id] # Nil /\ w[id].kind = kind}
LiveOf(w, kind) == {id \in Of(w, kind) : w[id].st = "live"}
Is(w, id) == id \in DOMAIN w /\ w[id] # Nil

References(x) ==
    CASE x.kind = "provider" -> {x.default} \ {Nil}
      [] x.kind \in {"segment", "network"} -> {x.provider} \ {Nil}
      [] x.kind = "subnet" -> {x.net}
      [] x.kind = "rule" -> {x.group}
      [] x.kind = "router" -> {x.ext, x.sub} \ {Nil}
      [] x.kind = "iface" -> {x.router, x.subnet}
      [] x.kind = "port" -> {x.net} \cup ToSet(x.subnets) \cup x.groups
      [] x.kind = "fip" -> {x.provider, x.router, x.port} \ {Nil}
      [] OTHER -> {}

Interfaces(w, r) == {i \in LiveOf(w, "iface") : w[i].router = r}

\* The segments a provider network may resolve to: its default, or all.
ProviderSegments(w, p) ==
    IF w[p].default # Nil THEN {w[p].default}
    ELSE {s \in Of(w, "segment") : w[s].provider = p}

\* The router ports a static route of router x can leave through.
OutputPorts(w, x, s) ==
    (IF x.sub = s THEN {<<"gwlrp", x.id>>} ELSE {})
      \cup {<<"lrp", i>> : i \in {i \in Interfaces(w, x.id) : w[i].subnet = s}}

validateReferences(w, x) ==
    CASE x.kind = "provider" -> x.default # Nil => w[x.default].provider = x.id
      [] x.kind = "port" -> /\ w[x.net].provider = Nil /\ ~w[x.net].ext
                            /\ \A s \in ToSet(x.subnets) : w[s].net = x.net
                            /\ x.groups # {}
      [] x.kind = "router" -> /\ x.ext # Nil => /\ w[x.ext].ext /\ w[x.ext].provider # Nil
                                                /\ w[x.sub].net = x.ext
                              /\ \A s \in x.routes : Cardinality(OutputPorts(w, x, s)) = 1
      [] x.kind = "iface" -> ~w[w[x.subnet].net].ext
      [] x.kind = "fip" -> /\ x.port # Nil => x.router # Nil
                           /\ x.router # Nil => /\ w[x.router].ext # Nil
                                                /\ w[w[x.router].ext].provider = x.provider
                           /\ x.port # Nil => \E i \in Interfaces(w, x.router) :
                                                 w[i].subnet \in ToSet(w[x.port].subnets)
      [] OTHER -> TRUE

\* What every accepted write leaves: references to present resources that are
\* not being deleted, and the rules between kinds.
Valid(w) ==
    \A id \in DOMAIN w : w[id] # Nil =>
        /\ \A t \in References(w[id]) : Is(w, t) /\ w[t].st = "live"
        /\ w[id].st = "live" => validateReferences(w, w[id])

\* What else keeps a resource from being deleted: the only segment of a
\* provider network without a default, while a network uses it.
lastSegment(w, x) ==
    /\ x.kind = "segment"
    /\ ProviderSegments(w, x.provider) = {x.id}
    /\ \E n \in Of(w, "network") : w[n].provider = x.provider
=============================================================================

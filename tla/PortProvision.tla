--------------------------- MODULE PortProvision ---------------------------
(***************************************************************************)
(* Provisioning a port (reserve an address, create the port, allocate the  *)
(* address to it) and deprovisioning it, one store call per step.  The     *)
(* port, its address and its Operation row have identities derived from    *)
(* the request's key, so that a repeated request finds what an interrupted *)
(* one left.  The same steps serve an API request and a clone's prepare,   *)
(* which differ in where they go afterwards: h[l].op is Nil for the API.   *)
(***************************************************************************)
EXTENDS ResourceRows, Sequences

CONSTANTS Callers,   \* API requests that may be under way at once
          APIPorts   \* the ports they ask for

ASSUME CallerAssumption == APIPorts \subseteq Ports /\ Nil \notin Callers

Idle == [pc |-> "idle", op |-> Nil, req |-> Nil, i |-> 0, port |-> Nil, rev |-> 0,
         addr |-> Nil, key |-> Nil, used |-> {}, bad |-> 0, saw |-> Nil, dir |-> Nil, arev |-> 0]

At(l, pc) == h[l].pc = pc

Goto(l, pc) == h' = [h EXCEPT ![l].pc = pc]

\* A call that changes rows: it applies and the handler goes on, or it is
\* refused and the handler takes its error path.
Try(l, ok, then, else) ==
    IF ok THEN h' = [h EXCEPT ![l] = then] ELSE h' = [h EXCEPT ![l] = else]

Others(f, p) == {f[q].addr : q \in {r \in Ports : Present(f[r])} \ {p}}

usedProvisionAddresses(p) == (Others(allocs, p) \cup Others(ports, p)) \ {Nil}

\* Addresses are unsigned 32-bit numbers; the model's are as wide as the
\* subnet's last address.
Successor(a) == (a + 1) % (Subnet.broadcast + 1)

usableProvisionAddress(a) ==
    a \in Subnet.network..Subnet.broadcast /\ a \notin {Subnet.network, Subnet.broadcast, Subnet.gateway}

\* The ranges searched: the allocation pools, or without any the subnet.
provisionAddressCandidates ==
    IF plan.pools # <<>> THEN plan.pools
    ELSE IF Subnet.broadcast - Subnet.network > 1 THEN << <<Subnet.network + 1, Subnet.broadcast - 1>> >>
    ELSE <<>>

\* As if a range ended before its last address.
RangeEndsEarly(range, a) == Successor(a) = range[2]

RangeEnds(range, a) == a = range[2]

\* The iterator, from before the first range: the first usable candidate
\* that is not in use, or Nil.
candidate(used) ==
    LET ranges == provisionAddressCandidates
        walk[rangeAt \in 0..Len(ranges), a \in Subnet.network..Subnet.broadcast] ==
            LET over == rangeAt = 0 \/ RangeEnds(ranges[rangeAt], a)
                r == IF over THEN rangeAt + 1 ELSE rangeAt
                b == IF over THEN ranges[r][1] ELSE Successor(a)
            IN IF r > Len(ranges) THEN Nil
               ELSE IF usableProvisionAddress(b) /\ b \notin used THEN b
               ELSE walk[r, b]
    IN walk[0, Subnet.network]

\* Where a failed provisioning step goes: the row of the operation records
\* the failure first.
ProvisionError(w) == [w EXCEPT !.pc = "failProvision"]

\* What the handler does when provisioning has ended.
Provisioned(w) == IF w.op = Nil THEN Idle ELSE [w EXCEPT !.pc = "attach"]

NotProvisioned(w) == IF w.op = Nil THEN Idle ELSE [w EXCEPT !.pc = "compensate"]

\* API requests are bounded; the plan says how many are left.
Called == plan.calls > 0 /\ plan' = [plan EXCEPT !.calls = @ - 1] /\ UNCHANGED <<pve, ask, taken>>

provisionPort(l, p) ==
    /\ Called /\ At(l, "idle") /\ prov[p] # "succeeded"
    /\ prov' = [prov EXCEPT ![p] = IF @ = "none" THEN "queued" ELSE @]
    /\ h' = [h EXCEPT ![l] = [Idle EXCEPT !.pc = "reserve", !.port = p]]
    /\ UNCHANGED <<rows, ops, faults>>

beginPortProvision(l) ==
    /\ At(l, "provision")
    /\ LET p == h[l].port IN
       IF prov[p] = "succeeded" THEN Goto(l, "attach") /\ UNCHANGED prov
       ELSE /\ prov' = [prov EXCEPT ![p] = IF @ = "none" THEN "queued" ELSE @]
            /\ Goto(l, "reserve")
    /\ UNCHANGED <<rows, ops, world, faults>>

\* An allocation of this identity is kept, whatever its life; otherwise the
\* addresses in use are read once.
reserveProvisionAddress(l) ==
    /\ At(l, "reserve")
    /\ LET p == h[l].port IN
       h' = [h EXCEPT ![l] = IF Present(allocs[p])
                             THEN [@ EXCEPT !.pc = "create", !.addr = allocs[p].addr]
                             ELSE [@ EXCEPT !.pc = "pick", !.used = usedProvisionAddresses(p)]]
    /\ UNCHANGED <<rows, prov, ops, world, faults>>

\* The first candidate not in use is reserved; one that was taken since the
\* read is passed over.
pickAddress(l) ==
    /\ At(l, "pick")
    /\ LET w == h[l]
           p == w.port
           a == candidate(w.used)
       IN CASE Present(allocs[p]) ->
               /\ h' = [h EXCEPT ![l] = [w EXCEPT !.pc = "create", !.addr = allocs[p].addr, !.used = {}]]
               /\ UNCHANGED allocs
            [] ~Present(allocs[p]) /\ a = Nil ->
               /\ h' = [h EXCEPT ![l] = ProvisionError([w EXCEPT !.used = {}])]
               /\ UNCHANGED allocs
            [] ~Present(allocs[p]) /\ a # Nil /\ a \in Others(allocs, p) ->
               /\ h' = [h EXCEPT ![l].used = @ \cup {a}]
               /\ UNCHANGED allocs
            [] ~Present(allocs[p]) /\ a # Nil /\ a \notin Others(allocs, p) ->
               /\ allocs' = [allocs EXCEPT ![p] = [life |-> "live", use |-> "reserved", rev |-> 1, addr |-> a]]
               /\ h' = [h EXCEPT ![l] = [w EXCEPT !.pc = "create", !.addr = a, !.used = {}]]
    /\ UNCHANGED <<ports, tokens, prov, ops, world, faults>>

sameProvisionedPort(r, w) == r.addr = w.addr

\* As if a port that is there were known to hold its address.
CreatePortTrusting(l) ==
    /\ At(l, "create")
    /\ LET w == h[l]
           p == w.port
           fresh == ~Present(ports[p]) /\ w.addr \notin Others(ports, p)
       IN /\ Try(l, fresh \/ (Present(ports[p]) /\ sameProvisionedPort(ports[p], w)),
                    [w EXCEPT !.pc = IF fresh THEN "allocate" ELSE "complete"], [w EXCEPT !.pc = "rollback"])
          /\ ports' = IF fresh
                      THEN [ports EXCEPT ![p] = [NoPort EXCEPT !.life = "live", !.rev = 1, !.addr = w.addr]]
                      ELSE ports
    /\ UNCHANGED <<allocs, tokens, prov, ops, world, faults>>

createProvisionPort(l) ==
    /\ At(l, "create")
    /\ LET w == h[l]
           p == w.port
           fresh == ~Present(ports[p]) /\ w.addr \notin Others(ports, p)
       IN /\ Try(l, fresh \/ (Present(ports[p]) /\ sameProvisionedPort(ports[p], w)),
                    [w EXCEPT !.pc = "allocate"], [w EXCEPT !.pc = "rollback"])
          /\ ports' = IF fresh
                      THEN [ports EXCEPT ![p] = [NoPort EXCEPT !.life = "live", !.rev = 1, !.addr = w.addr]]
                      ELSE ports
    /\ UNCHANGED <<allocs, tokens, prov, ops, world, faults>>

\* A refused port gives its reservation back, unless the port is there.
rollbackProvisionReservation(l) ==
    /\ At(l, "rollback")
    /\ LET w == h[l] IN
       Try(l, Present(ports[w.port]), ProvisionError(w), [w EXCEPT !.pc = "giveBack"])
    /\ UNCHANGED <<rows, prov, ops, world, faults>>

giveBack(l) ==
    /\ At(l, "giveBack")
    /\ LET w == h[l]
           p == w.port
           mine == Present(allocs[p]) /\ allocs[p].use = "reserved"
       IN /\ Try(l, mine, [w EXCEPT !.pc = "giveBackPurge", !.rev = allocs[p].rev + 1], ProvisionError(w))
          /\ allocs' = IF mine THEN [allocs EXCEPT ![p] = Deleted(@)] ELSE allocs
    /\ UNCHANGED <<ports, tokens, prov, ops, world, faults>>

giveBackPurge(l) ==
    /\ At(l, "giveBackPurge")
    /\ LET w == h[l] IN
       /\ allocs' = IF CanPurgeAlloc(w.port, w.rev) THEN [allocs EXCEPT ![w.port] = NoAlloc] ELSE allocs
       /\ h' = [h EXCEPT ![l] = ProvisionError([w EXCEPT !.rev = 0])]
    /\ UNCHANGED <<ports, tokens, prov, ops, world, faults>>

\* The allocation may name only a port that is there, not being deleted,
\* and has its address.
allocateProvisionAddress(l) ==
    /\ At(l, "allocate")
    /\ LET w == h[l]
           p == w.port
           allocatable == /\ Present(allocs[p]) /\ allocs[p].use = "reserved"
                          /\ ports[p].life = "live" /\ ports[p].addr = allocs[p].addr
       IN /\ Try(l, Holds(allocs[p]) \/ allocatable, [w EXCEPT !.pc = "complete"], ProvisionError(w))
          /\ allocs' = IF allocatable
                       THEN [allocs EXCEPT ![p] = [Updated(@) EXCEPT !.use = "allocated"]]
                       ELSE allocs
    /\ UNCHANGED <<ports, tokens, prov, ops, world, faults>>

completePortProvision(l) ==
    /\ At(l, "complete")
    /\ prov' = [prov EXCEPT ![h[l].port] = "succeeded"]
    /\ h' = [h EXCEPT ![l] = Provisioned([@ EXCEPT !.addr = Nil])]
    /\ UNCHANGED <<rows, ops, world, faults>>

failPortProvision(l) ==
    /\ At(l, "failProvision")
    /\ prov' = [prov EXCEPT ![h[l].port] = IF @ = "succeeded" THEN @ ELSE "failed"]
    /\ h' = [h EXCEPT ![l] = NotProvisioned([@ EXCEPT !.addr = Nil])]
    /\ UNCHANGED <<rows, ops, world, faults>>

(***************************************************************************)
(* Removing a port: its allocated addresses first, then the port, each by  *)
(* a tombstone and a purge.                                                *)
(***************************************************************************)
NextPort(w) ==
    [w EXCEPT !.pc = IF Kind(w.op) = "clone" THEN "drop" ELSE "delete", !.i = @ + 1, !.rev = 0, !.arev = 0, !.port = Nil]

Removed(w) == IF w.op = Nil THEN Idle ELSE NextPort(w)

NotRemoved(w) == IF w.op = Nil THEN Idle ELSE [NextPort(w) EXCEPT !.bad = 1]

\* A request carries the revision its caller read; the tombstone it left
\* stands one above.
deprovisionPort(l, p, expected) ==
    /\ Called /\ At(l, "idle") /\ Present(ports[p]) /\ portCanBeDeprovisioned(ports[p])
    /\ \/ ports[p].rev = expected
       \/ Tombstone(ports[p]) /\ ports[p].rev = expected + 1
    /\ h' = [h EXCEPT ![l] = [Idle EXCEPT !.pc = "release", !.port = p, !.rev = expected,
                                          !.key = <<"deprovision", expected>>]]
    /\ UNCHANGED <<rows, prov, ops, faults>>

\* A tombstone counts as this request's own only through its token.
releasePortAllocations(l) ==
    /\ At(l, "release")
    /\ LET w == h[l]
           p == w.port
           rev == IF Tombstone(allocs[p]) THEN allocs[p].rev - 1 ELSE allocs[p].rev
           begun == Begun(w.key, "alloc", p, rev)
           fresh == ~begun /\ CanDeleteAlloc(p, rev)
       IN IF Holds(allocs[p])
          THEN /\ Try(l, begun \/ fresh, [w EXCEPT !.pc = "releasePurge", !.arev = rev + 1], NotRemoved(w))
               /\ allocs' = IF fresh THEN [allocs EXCEPT ![p] = Deleted(@)] ELSE allocs
               /\ tokens' = IF fresh THEN tokens \cup {DeleteToken(w.key, "alloc", p, rev)} ELSE tokens
          ELSE Goto(l, "remove") /\ UNCHANGED <<allocs, tokens>>
    /\ UNCHANGED <<ports, prov, ops, world, faults>>

purgeAllocation(l) ==
    /\ At(l, "releasePurge")
    /\ LET w == h[l]
           ok == CanPurgeAlloc(w.port, w.arev)
       IN /\ Try(l, ok, [w EXCEPT !.pc = "remove", !.arev = 0], NotRemoved(w))
          /\ allocs' = IF ok THEN [allocs EXCEPT ![w.port] = NoAlloc] ELSE allocs
    /\ UNCHANGED <<ports, tokens, prov, ops, world, faults>>

removePort(l) ==
    /\ At(l, "remove")
    /\ LET w == h[l]
           p == w.port
           begun == Begun(w.key, "port", p, w.rev)
           fresh == ~begun /\ CanDeletePort(p, w.rev)
       IN /\ Try(l, begun \/ fresh, [w EXCEPT !.pc = "purge", !.rev = @ + 1], NotRemoved(w))
          /\ ports' = IF fresh THEN [ports EXCEPT ![p] = Deleted(@)] ELSE ports
          /\ tokens' = IF fresh THEN tokens \cup {DeleteToken(w.key, "port", p, w.rev)} ELSE tokens
    /\ UNCHANGED <<allocs, prov, ops, world, faults>>

purgePort(l) ==
    /\ At(l, "purge")
    /\ LET w == h[l]
           ok == CanPurgePort(w.port, w.rev)
       IN /\ Try(l, ok, Removed(w), NotRemoved(w))
          /\ ports' = IF ok THEN [ports EXCEPT ![w.port] = NoPort] ELSE ports
    /\ UNCHANGED <<allocs, tokens, prov, ops, world, faults>>

\* A user attaches a detached port to some VM.
takePort(p) ==
    /\ Cardinality(taken) < plan.taken
    /\ ports[p].life = "live" /\ portCanBeDeprovisioned(ports[p])
    /\ ports' = [ports EXCEPT ![p] = [Updated(@) EXCEPT !.vm = plan.guest, !.st = "binding"]]
    /\ taken' = taken \cup {p}
    /\ UNCHANGED <<allocs, tokens, prov, ops, h, pve, ask, plan, faults>>

ProvisionStep(l) ==
    \/ beginPortProvision(l) \/ reserveProvisionAddress(l) \/ pickAddress(l)
    \/ createProvisionPort(l) \/ rollbackProvisionReservation(l)
    \/ giveBack(l) \/ giveBackPurge(l)
    \/ allocateProvisionAddress(l) \/ completePortProvision(l) \/ failPortProvision(l)

RemoveStep(l) ==
    \/ releasePortAllocations(l) \/ purgeAllocation(l) \/ removePort(l) \/ purgePort(l)
=============================================================================

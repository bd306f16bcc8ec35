------------------------------ MODULE Resolve -------------------------------
(***************************************************************************)
(* Which service a proxy's upstream reaches: resolve.Routes, a function of *)
(* the route and of the hosts, services and ports known at the moment.     *)
(* Evidence is tried in order; where it names more than one service, or    *)
(* none, the route is broken.                                              *)
(***************************************************************************)
EXTENDS Naturals, FiniteSets, FiniteSetsExt

CONSTANTS
  Slots, Ref, Reports, None, \* as in MachineLinks
  ServiceSlots,   \* ids of service rows
  ServiceRef,     \* ServiceRef[slot]; rows without a connector may share one
  ServiceReports, \* [host, name, networks]; a network is [name, ip, aliases]
  PortReports,    \* [service, host, number, container, published, ip], refs as above
  Upstreams       \* routes: [host, port, proxy, endpoint]: the host of the proxy, "" when
                  \* unknown, and the host name in its URL

VARIABLES hosts, services, ports

vars == <<hosts, services, ports>>

L == INSTANCE MachineLinks

Alive == {s \in ServiceSlots : services[s] # None}
Known(r) == {s \in Alive : ServiceRef[s] = r}

Init ==
  /\ L!Init
  /\ services = [s \in ServiceSlots |-> None]
  /\ ports = {}

ReportHost == L!Next /\ UNCHANGED <<services, ports>>

ReportService(s, x) ==
  /\ services[s] # x
  /\ services' = [services EXCEPT ![s] = x]
  /\ UNCHANGED <<hosts, ports>>

\* A service goes gone; the ports of its ref go with it.
RetireService(s) ==
  /\ s \in Alive
  /\ services' = [services EXCEPT ![s] = None]
  /\ ports' = {p \in ports : p.service # ServiceRef[s]}
  /\ UNCHANGED hosts

OpenPort(p) == p \notin ports /\ Known(p.service) # {} /\ ports' = ports \cup {p}
ClosePort(p) == p \in ports /\ ports' = ports \ {p}

Next ==
  \/ ReportHost
  \/ \E s \in ServiceSlots : RetireService(s) \/ \E x \in ServiceReports : ReportService(s, x)
  \/ \E p \in PortReports : (OpenPort(p) \/ ClosePort(p)) /\ UNCHANGED <<hosts, services>>

Spec == Init /\ [][Next]_vars

-----------------------------------------------------------------------------
\* The resolution of a route x.

PortsOf(r) == {p \in ports : p.service = r}

\* Port rows of the service that answer at the port inside its network.
Answering(r, port) ==
  {p \in PortsOf(r) : p.container = port \/ (~p.published /\ p.number = port)}

\* listens: a service without any known port may serve every one.
verified(r, port) == Answering(r, port) # {}
serves(r, port) == PortsOf(r) = {} \/ Answering(r, port) # {}

\* nameMatch and matchingNetworks: the networks on which the service goes by the name.
matchingNetworks(host, s) ==
  LET svc == services[s]
      own == host = L!normalize(svc.name) IN
  IF own /\ svc.networks = {} THEN {""}
  ELSE {n.name : n \in {m \in svc.networks :
          own \/ host \in {L!normalize(a) : a \in m.aliases}}}

Candidate(s, network) ==
  [ref |-> ServiceRef[s], host |-> services[s].host, network |-> network]

ipCandidates(x) ==
  UNION {{Candidate(s, n.name) : n \in {m \in services[s].networks :
             m.ip # "" /\ L!normalize(x.host) = L!normalize(m.ip)}} :
         s \in {t \in Alive : serves(ServiceRef[t], x.port)}}

named(x) ==
  UNION {{Candidate(s, n) : n \in matchingNetworks(L!normalize(x.host), s)} :
         s \in {t \in Alive : serves(ServiceRef[t], x.port)}}

\* The networks of a proxy, by which its routes are scoped: those of the one service on
\* its host that goes by the host name of its URL.
proxyNetworks(proxy, endpoint) ==
  LET found == {s \in Alive : /\ proxy # "" => services[s].host = proxy
                              /\ matchingNetworks(L!normalize(endpoint), s) # {}} IN
  IF endpoint = "" \/ Cardinality({ServiceRef[s] : s \in found}) # 1 THEN {}
  ELSE {n.name : n \in services[Max(found)].networks}

scopeCandidates(cs, x) ==
  LET networks == proxyNetworks(x.proxy, x.endpoint) IN
  {c \in cs : /\ x.proxy # "" => c.host = x.proxy
              /\ networks # {} => c.network \in networks}

\* The hosts an upstream addresses, and the machines behind the views among them.
Addressed(x) ==
  LET links == L!Links
      here == {i \in L!Reported : L!addressedBy(hosts[i], L!normalize(x.host))} IN
  {Ref[i] : i \in here}
    \cup {links[v] : v \in {w \in DOMAIN links : Ref[w] \in {Ref[i] : i \in here}}}

Gateways == {"host.docker.internal", "gateway.docker.internal"}

\* A published port that the upstream reaches from the proxy, or a listener on the
\* loopback of the proxy's own host.
Reaches(p, x) ==
  /\ p.number = x.port
  /\ \/ /\ p.published
        /\ \/ L!normalize(x.host) \in L!Loopback \cup Gateways /\ x.proxy \in {"", p.host}
           \/ p.host \in Addressed(x)
     \/ /\ ~p.published
        /\ x.proxy # "" /\ x.proxy = p.host
        /\ L!normalize(x.host) \in L!Loopback /\ p.ip \in L!Loopback

matched(r, confidence) == [service |-> r, confidence |-> confidence, status |-> "ok"]
broken == [service |-> "", confidence |-> "none", status |-> "broken"]

\* matched on the evidence's one service, else broken.
Decide(refs, x, high) ==
  IF Cardinality(refs) # 1 THEN broken
  ELSE LET r == CHOOSE r \in refs : TRUE IN
       matched(r, IF high /\ verified(r, x.port) THEN "high" ELSE "medium")

Refs(cs) == {c.ref : c \in cs}

\* Seeded fault: an ambiguous address or name falls through to weaker evidence.
resolveFallsThrough(x) ==
  LET byIP == Decide(Refs(scopeCandidates(ipCandidates(x), x)), x, TRUE)
      byName == Decide(Refs(scopeCandidates(named(x), x)), x, TRUE) IN
  CASE byIP # broken -> byIP
    [] byIP = broken /\ byName # broken -> byName
    [] OTHER -> Decide({p.service : p \in {q \in ports : Reaches(q, x)}}, x, FALSE)
resolve(x) ==
  CASE ipCandidates(x) # {} -> Decide(Refs(scopeCandidates(ipCandidates(x), x)), x, TRUE)
    [] ipCandidates(x) = {} /\ named(x) # {} -> Decide(Refs(scopeCandidates(named(x), x)), x, TRUE)
    [] OTHER -> Decide({p.service : p \in {q \in ports : Reaches(q, x)}}, x, FALSE)

-----------------------------------------------------------------------------

\* The strength of what speaks for a service: address 3, name 2, host port 1.
Evidence(r, x) ==
  CASE r \in Refs(ipCandidates(x)) -> 3
    [] r \in Refs(named(x)) \ Refs(ipCandidates(x)) -> 2
    [] r \notin Refs(named(x) \cup ipCandidates(x)) /\ \E p \in PortsOf(r) : Reaches(p, x) -> 1
    [] OTHER -> 0

\* What docs/ARCHITECTURE.md:65 promises: the strongest evidence decides alone, a route is
\* resolved if it speaks for one service in the proxy's scope, else broken; "high" takes an
\* address or name and a port known to be served.
Definition(x) ==
  LET refs == {ServiceRef[s] : s \in Alive}
      best == {r \in refs : Evidence(r, x) > 0 /\ \A q \in refs : Evidence(q, x) <= Evidence(r, x)}
      in == {r \in best : Evidence(r, x) = 1
               \/ \E c \in scopeCandidates(IF Evidence(r, x) = 3 THEN ipCandidates(x) ELSE named(x), x) :
                    c.ref = r} IN
  IF \E r \in in : in = {r}
  THEN LET r == CHOOSE r \in in : TRUE IN
       matched(r, IF Evidence(r, x) > 1 /\ Answering(r, x.port) # {} THEN "high" ELSE "medium")
  ELSE broken

\* The cascade of the code computes what the documentation defines, for every upstream.
MatchesDefinition == \A x \in Upstreams : resolve(x) = Definition(x)

\* "An unprovable port never fabricates a high-confidence link."
HighIsProven ==
  \A x \in Upstreams : LET r == resolve(x) IN
    r.confidence = "high" => \E p \in ports : /\ p.service = r.service
                                              /\ x.port \in {p.container, p.number}

\* A listener on a machine's loopback is no target for a proxy elsewhere: a route is
\* resolved to a service of another host only through something reachable from outside.
LoopbackStaysHome ==
  \A x \in Upstreams : LET r == resolve(x) IN
    r.status = "ok" /\ Evidence(r.service, x) = 1
      => \E p \in PortsOf(r.service) : p.number = x.port /\ (p.published \/ p.host = x.proxy)

\* What every upstream of interest resolves to is defined, proven and reachable.
ResolutionIsRight == MatchesDefinition /\ HighIsProven /\ LoopbackStaysHome
=============================================================================

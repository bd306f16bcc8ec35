----------------------------- MODULE MCApplied ------------------------------
(* Instances of Applied for TLC: the inventories that upstreams and views  *)
(* are resolved in, symmetric sets, and a view.                            *)
EXTENDS Applied, TLC

AtIp1 == [kind |-> "docker", name |-> "n2", address |-> "ip1", aliases |-> {}]
MCHostReports == {AtIp1,
  [kind |-> "tailscale", name |-> "ts", address |-> "", aliases |-> {"n1", "ip1"}]}
Net(name, ip, aliases) == [name |-> name, ip |-> ip, aliases |-> aliases]
MCServiceReports ==
  {[host |-> "h1", name |-> "n1", networks |-> {}],
   [host |-> "h1", name |-> "n2", networks |-> {Net("front", "10", {"n1"}), Net("back", "", {})}],
   [host |-> "h2", name |-> "n1", networks |-> {Net("back", "10", {})}]}
Port(service, number, container, published, ip) ==
  [service |-> service, host |-> "h1", number |-> number, container |-> container,
   published |-> published, ip |-> ip]
MCPortReports ==
  {Port("s1", 1, 2, TRUE, ""), Port("s1", 2, 2, FALSE, "loopback"),
   Port("s2", 2, 2, FALSE, "ip1")}
Upstream(host, port, proxy, endpoint) ==
  [host |-> host, port |-> port, proxy |-> proxy, endpoint |-> endpoint]
MCUpstreams ==
  {Upstream("10", 2, "", ""), Upstream("10", 1, "h2", ""), Upstream("N1.", 2, "h1", "n2"),
   Upstream("n1", 1, "", ""), Upstream("localhost", 2, "h1", ""), Upstream("localhost", 2, "h2", ""),
   Upstream("host.docker.internal", 1, "", ""), Upstream("[ip1]", 1, "h2", "n1"),
   Upstream("ip2", 1, "", "n1"), Upstream("", 0, "", "")}

\* The services in slots 3 and 4 are left of one source that was removed twice, without
\* ports; so are the hosts among the machines.
MCHostSlots == 1..2
MCHostRef == <<"h1", "h2">>
MCServiceSlots == 1..4
MCServiceRef == <<"s1", "s2", "o", "o">>
MCMachineSlots == 1..4
MCMachineRef == <<"a", "b", "c", "c">>

MCMachineReports ==
  [kind : {"docker"}, name : {"n1.lan"}, address : {"ip1", "ip2"}, aliases : {{}}]
  \cup [kind : {"docker"}, name : {"n2"}, address : {"[ip1]"}, aliases : {{}}]
  \cup [kind : {"dns"}, name : {"n1"}, address : {"ip1", "loopback"}, aliases : {{}}]
  \cup [kind : {"tailscale"}, name : {"N1."}, address : {"", "ip2"}, aliases : {{}}]
  \cup [kind : {"tailscale", "lxc"}, name : {"n2"}, address : {""}, aliases : {{"n1.lan"}}]

Symmetry == Permutations(Dockers) \cup Permutations(Registries) \cup Permutations(Digests)
\* News are read in the step that makes them.
View == <<part, images, inventory, machines, services, routes, certs, scan, mu, plan, stale, unlinked, edits>>
=============================================================================

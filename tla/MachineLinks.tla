---------------------------- MODULE MachineLinks ----------------------------
(***************************************************************************)
(* Which reported hosts are one machine.  A tailnet device, a DNS name and *)
(* a Proxmox guest are views: each is linked to the machine a Docker, SSH  *)
(* or manual source reports for it, and never counts as one itself.        *)
(* linkMachines is a function of the hosts reported at the moment; hosts   *)
(* come and go, in the order of their ids.                                 *)
(***************************************************************************)
EXTENDS Naturals, FiniteSets

CONSTANTS
  Slots,   \* ids of host rows, numbers
  Ref,     \* Ref[slot]: its connector and key; rows without a connector may share one
  Reports, \* what sources report of a host: [kind, name, address, aliases]
  None

VARIABLE hosts \* slot -> None or a member of Reports

\* The names and addresses that occur.  "ip1" and "[ip1]" are two spellings of one
\* IP; "N1." is "n1" with case and a trailing dot; "n1.lan" is a full name of it.
Loopback == {"localhost", "loopback"}
IPs == {"ip1", "[ip1]", "ip2", "loopback", "unspecified"}
normalize(s) == IF s = "N1." THEN "n1" ELSE s
canonicalHost(s) == IF s = "[ip1]" THEN "ip1" ELSE normalize(s)

\* The first label; nothing for an IP or localhost.
shortName(s) ==
  CASE s \in IPs \cup {"", "localhost"} -> ""
    [] s = "n1.lan" -> "n1"
    [] OTHER -> normalize(s)

\* The IP a DNS view answers with, unless it names no machine.
recordAddress(s) == IF s \in {"ip1", "[ip1]", "ip2"} THEN canonicalHost(s) ELSE ""

viewFamily(kind) ==
  CASE kind = "tailscale" -> "tailnet"
    [] kind = "dns" -> "dns"
    [] kind \in {"vm", "lxc", "proxmox-node"} -> "proxmox"
    [] OTHER -> ""

Reported == {i \in Slots : hosts[i] # None}
Machines == {i \in Reported : viewFamily(hosts[i].kind) = ""}
Views == Reported \ Machines

\* The upstream host of a route, normalized already, names the host.
addressedBy(h, host) ==
  \/ normalize(h.address) = host
  \/ canonicalHost(host) # "" /\ canonicalHost(host) \in
       {canonicalHost(a) : a \in {h.address} \cup h.aliases}

-----------------------------------------------------------------------------
\* linkMachines.

\* The machines at one of the addresses, or with one of the short names.
AtAddress(texts) ==
  {Ref[m] : m \in {x \in Machines : LET a == canonicalHost(hosts[x].address) IN
                      a # "" /\ a \in texts}}
Named(texts) ==
  {Ref[m] : m \in {x \in Machines : LET n == shortName(hosts[x].name) IN
                      n # "" /\ n \in texts}}

ByAddress(v) ==
  IF viewFamily(hosts[v].kind) = "dns"
  THEN AtAddress({recordAddress(hosts[v].address)})
  ELSE AtAddress({canonicalHost(a) : a \in {hosts[v].address} \cup hosts[v].aliases})

ByName(v) ==
  IF viewFamily(hosts[v].kind) = "dns" THEN {}
  ELSE Named({shortName(n) : n \in {hosts[v].name} \cup hosts[v].aliases})

\* The machines a view may be, by address if there are any, else by name.
Matches(v) == IF ByAddress(v) # {} THEN ByAddress(v) ELSE ByName(v)

\* What a view with exactly one such machine claims.
Claim(v) ==
  [family |-> viewFamily(hosts[v].kind), machine |-> CHOOSE m \in Matches(v) : TRUE,
   byAddress |-> ByAddress(v) # {}]

\* What the views with exactly one such machine claim.
Claims ==
  LET matches == [v \in Views |-> Matches(v)] IN
  [v \in {x \in Views : Cardinality(matches[x]) = 1} |-> Claim(v)]

\* Two equal claims cancel each other, and one by name yields to one by address.
\* Seeded fault: the first claimant wins.
OutdoneFirstWins(v, claims) == \E w \in DOMAIN claims : w < v /\ claims[w] = claims[v]
Outdone(v, claims) ==
  \/ \E w \in DOMAIN claims \ {v} : claims[w] = claims[v]
  \/ ~claims[v].byAddress
     /\ \E w \in DOMAIN claims : claims[w] = [claims[v] EXCEPT !.byAddress = TRUE]

\* The links, from views to the refs of their machines.  Of claimants with one and the
\* same ref the claim of the last is kept, but all count.
Links ==
  LET claims == Claims
      last == {v \in DOMAIN claims : \A w \in DOMAIN claims : Ref[w] = Ref[v] => w <= v} IN
  [v \in {x \in last : ~Outdone(x, claims)} |-> claims[v].machine]

\* Where a proxy whose URL has this host name runs: machines only.
Stands(i) ==
  {m \in Reported : \E v \in DOMAIN Links : Ref[v] = Ref[i] /\ Ref[m] = Links[v]}
MachineHostIDs(hostname) ==
  LET name == normalize(hostname)
      called == {i \in Reported : name # "" /\
                   (normalize(hosts[i].name) = name \/ addressedBy(hosts[i], name))} IN
  (called \cap Machines)
    \cup {m \in Reported : \E v \in called \cap Views :
                            m \in Stands(v) /\ \A n \in Stands(v) : n <= m}

-----------------------------------------------------------------------------

Init == hosts = [i \in Slots |-> None]

\* A scan files a host, or files it anew.  A key tells the kind.
Report(i, h) ==
  /\ h # hosts[i]
  /\ \A j \in Reported \ {i} : Ref[j] = Ref[i] => hosts[j].kind = h.kind
  /\ hosts' = [hosts EXCEPT ![i] = h]

\* The host goes gone: LoadHosts reads the active ones.
Retire(i) == hosts[i] # None /\ hosts' = [hosts EXCEPT ![i] = None]

Next == \E i \in Slots : Retire(i) \/ \E h \in Reports : Report(i, h)

Spec == Init /\ [][Next]_hosts

-----------------------------------------------------------------------------

\* "Each machine can be claimed by only one device": two views of one family never link
\* to the same machine, by whatever evidence; and what they link to is a machine.
OneViewPerFamily ==
  LET links == Links IN
  \A v \in DOMAIN links :
    /\ \A w \in DOMAIN links : viewFamily(hosts[v].kind) = viewFamily(hosts[w].kind)
                                 /\ links[v] = links[w] => v = w
    /\ links[v] \in {Ref[m] : m \in Machines}

\* A view that alone of its family is at a machine's address is linked to it, whatever
\* names the others have.
AddressSettles ==
  LET links == Links
      at == [v \in Views |-> ByAddress(v)] IN
  \A v \in Views :
    (Cardinality(at[v]) = 1 /\ \A w \in Views \ {v} :
        viewFamily(hosts[w].kind) = viewFamily(hosts[v].kind)
          => at[v] \cap at[w] = {} /\ Ref[v] # Ref[w])
      => v \in DOMAIN links /\ at[v] = {links[v]}

\* A resolver's record says nothing of names: a DNS view whose address no machine has
\* is linked to none.
DNSByAddressOnly ==
  \A v \in DOMAIN Links : hosts[v].kind = "dns" =>
    \E m \in Machines : canonicalHost(hosts[m].address) = canonicalHost(hosts[v].address)

\* A proxy is never scoped to a view, which runs no services.
ProxyOnMachine ==
  \A i \in Reported : MachineHostIDs(hosts[i].name) \subseteq Machines

\* Who is a view of which machine, in every state of the inventory.
LinksAreRight == OneViewPerFamily /\ AddressSettles /\ DNSByAddressOnly /\ ProxyOnMachine
=============================================================================

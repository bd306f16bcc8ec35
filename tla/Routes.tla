------------------------------- MODULE Routes -------------------------------
(***************************************************************************)
(* Routes, the services they are resolved to and the certificates they are *)
(* linked to.  A scan resolves the routes it read against the tables, then *)
(* Apply files them and links certificates in one transaction, then        *)
(* ReconcileRoutes resolves every active route again, statement by         *)
(* statement.  Applier.mu keeps scans and the purge apart; requests that   *)
(* delete sources or edit manual entries do not take it.                   *)
(***************************************************************************)
EXTENDS Naturals, Functions

CONSTANTS
  Dockers,   \* sources that report services
  Proxies,   \* sources that report routes and certificates
  Names,     \* names of services, and of upstreams
  Domains,   \* domains of routes and certificates, also their keys
  MaxId,     \* bound on ids
  MaxEdits,  \* bound on requests and crashes
  None

ASSUME BoundsAssumption == {MaxId, MaxEdits} \subseteq Nat
ASSUME SourcesAssumption == {"manual", "none"} \cap (Dockers \cup Proxies) = {}

Ids == 1..MaxId
Sources == Dockers \cup Proxies

VARIABLES
  services, \* id -> None or [conn, name, gone]; the name is also the key
  routes,   \* id -> None or [conn, domain, upstream, service, status, gone, cert]
  certs,    \* id -> None or [conn, domain, gone]
  scan,     \* source -> [at, items]: its scan, and the routes that read by domain
  mu,       \* the source whose ReconcileRoutes holds Applier.mu, None
  plan,     \* what it still writes: [id, service, status]
  news,     \* routes the last step filed a change entry of
  stale,    \* history: rows changed by requests since the last resolution, or it failed
  unlinked, \* history: certificates or routes edited since the last linking
  edits

vars == <<services, routes, certs, scan, mu, plan, news, stale, unlinked, edits>>

Manual == "manual"
Orphan == "none" \* connector_id NULL
Idle == [at |-> "idle", items |-> <<>>]

ServiceRow == [conn : Dockers \cup {Orphan}, name : Names, gone : BOOLEAN]
CertRow == [conn : Proxies \cup {Manual, Orphan}, domain : Domains, gone : BOOLEAN]
RouteRow == [conn : Proxies \cup {Manual}, domain : Domains, upstream : Names,
             service : {0} \cup Ids, status : {"ok", "broken"}, gone : BOOLEAN,
             cert : {0} \cup Ids]
ASSUME NoneAssumption ==
  None \notin UNION {Sources, ServiceRow, CertRow, RouteRow, (Sources \cup {Orphan}) \X Names}

Rows(table) == {i \in Ids : table[i] # None}
Live(table) == {i \in Rows(table) : ~table[i].gone}
Of(table, c) == {i \in Rows(table) : table[i].conn = c}

\* Inserts take the ids above the largest, in order.
Unused(table) == {i \in Ids : \A j \in Rows(table) : j < i}
NextIds(table) == {i \in Unused(table) : \A j \in Unused(table) : i <= j}

-----------------------------------------------------------------------------

\* resolve.Routes, by name: a ref when the name is one service's, else broken.  Rows
\* without a connector share the connector 0.  (Module Resolve has it in full.)
RefsOf(table, name) ==
  {<<table[i].conn, name>> : i \in {j \in Live(table) : table[j].name = name}}
Resolution(table, name) ==
  IF \E r \in RefsOf(table, name) : RefsOf(table, name) = {r}
  THEN [ref |-> CHOOSE r \in RefsOf(table, name) : TRUE, status |-> "ok"]
  ELSE [ref |-> None, status |-> "broken"]

\* SELECT id FROM services WHERE connector_id=? AND natural_key=?: never a row without
\* a connector.
IdOf(table, ref) ==
  IF ref = None \/ ref[1] = Orphan THEN 0
  ELSE LET found == {i \in Of(table, ref[1]) : table[i].name = ref[2]}
       IN IF found = {} THEN 0 ELSE CHOOSE i \in found : TRUE

\* The active certificate that alone covers the domain, or 0.
\* Seeded fault: certificates no source reports any longer still count.
CoveringAny(table, domain) == {i \in Ids : table[i] # None /\ table[i].domain = domain}
Covering(table, domain) == {i \in Live(table) : table[i].domain = domain}
CertOf(table, domain) ==
  IF \E i \in Ids : Covering(table, domain) = {i}
  THEN CHOOSE i \in Ids : Covering(table, domain) = {i} ELSE 0

\* linkRouteCerts: only active routes are looked at.
linkRouteCerts(rs, cs) ==
  [i \in Ids |-> IF rs[i] # None /\ ~rs[i].gone
                 THEN [rs[i] EXCEPT !.cert = CertOf(cs, rs[i].domain)] ELSE rs[i]]

\* Where the keys of a snapshot are filed: each on the row that has it, or on a new one.
\* Which new row is whose depends on the order of the snapshot.
Placements(table, filed) ==
  {p \in [DOMAIN filed -> Ids] :
     /\ IsInjective(p)
     /\ \A k \in DOMAIN filed : p[k] \in (IF filed[k] # {} THEN filed[k] ELSE Unused(table))
     /\ \A k \in DOMAIN filed, i \in Unused(table) : p[k] \in Unused(table) /\ i < p[k] => i \in Range(p)}

KeyAt(at, i) == CHOOSE k \in DOMAIN at : at[k] = i

\* A row of a table, or the row that its source no longer reports (markGone).
Kept(table, c, i) ==
  IF i \in Of(table, c) THEN [table[i] EXCEPT !.gone = TRUE] ELSE table[i]

-----------------------------------------------------------------------------

Init ==
  /\ services = [i \in Ids |-> None]
  /\ routes = [i \in Ids |-> None]
  /\ certs = [i \in Ids |-> None]
  /\ scan = [s \in Sources |-> Idle]
  /\ mu = None
  /\ plan = {}
  /\ news = {}
  /\ stale = FALSE
  /\ unlinked = FALSE
  /\ edits = 0

\* What a proxy may report.
Reports == UNION {[D -> [upstream : Names, cert : BOOLEAN]] : D \in SUBSET Domains}

\* A scan of a proxy reads its routes, by domain, and certificates, and resolves the routes.
\* (What a Docker source reports depends on nothing here: ApplyServices chooses it.)
ReadProxy(p, found) ==
  /\ scan[p].at = "idle"
  /\ scan' = [scan EXCEPT ![p] = [at |-> "read",
       items |-> [d \in DOMAIN found |->
                    [upstream |-> found[d].upstream, cert |-> found[d].cert,
                     ref |-> Resolution(services, found[d].upstream).ref,
                     status |-> Resolution(services, found[d].upstream).status]]]]
  /\ news' = {}
  /\ UNCHANGED <<services, routes, certs, mu, plan, stale, unlinked, edits>>

\* applyServices.
ServicePlacements(d, names) ==
  Placements(services, [n \in names |-> {i \in Of(services, d) : services[i].name = n}])
ServicesAfter(d, at) ==
  [i \in Ids |-> IF i \in Range(at) THEN [conn |-> d, name |-> KeyAt(at, i), gone |-> FALSE]
                 ELSE Kept(services, d, i)]

\* applyCerts.
CertPlacements(p, items) ==
  Placements(certs, [d \in {x \in DOMAIN items : items[x].cert}
                       |-> {i \in Of(certs, p) : certs[i].domain = d}])
CertsAfter(p, at) ==
  [i \in Ids |-> IF i \in Range(at) THEN [conn |-> p, domain |-> KeyAt(at, i), gone |-> FALSE]
                 ELSE Kept(certs, p, i)]

\* applyRoutes.  The certificate link of a route that was filed before is kept by the UPDATE.
RoutePlacements(p, items) ==
  Placements(routes, [d \in DOMAIN items |-> {i \in Of(routes, p) : routes[i].domain = d}])
Filed(p, d, x, i) ==
  [conn |-> p, domain |-> d, upstream |-> x.upstream, service |-> IdOf(services, x.ref),
   status |-> x.status, gone |-> FALSE, cert |-> IF routes[i] # None THEN routes[i].cert ELSE 0]
RoutesAfter(p, items, at) ==
  [i \in Ids |-> IF i \in Range(at) THEN Filed(p, KeyAt(at, i), items[KeyAt(at, i)], i)
                 ELSE Kept(routes, p, i)]

\* Entries of the feed: upstream, status or state of the row moved.
\* Seeded fault: the service counts too, whatever the reader sees of it.
RouteNewsEach(before, after) == {i \in Ids : before[i] # None /\ after[i] # None /\ ~after[i].gone}
RouteNews(before, after) ==
  {i \in Ids : after[i] # None /\
     \/ before[i] = None
     \/ <<before[i].upstream, before[i].status, before[i].gone>>
          # <<after[i].upstream, after[i].status, after[i].gone>>}

\* Apply, in its transaction and under the mutex: of a Docker source, and of a proxy.
ApplyServices(d, names) ==
  /\ scan[d].at = "idle"
  /\ mu = None
  /\ \E at \in ServicePlacements(d, names) : services' = ServicesAfter(d, at)
  /\ routes' = linkRouteCerts(routes, certs)
  /\ news' = {}
  /\ unlinked' = FALSE
  /\ scan' = [scan EXCEPT ![d].at = "applied"]
  /\ UNCHANGED <<certs, mu, plan, stale, edits>>

ApplyRoutes(p) ==
  /\ scan[p].at = "read"
  /\ mu = None
  /\ \E at \in CertPlacements(p, scan[p].items) : certs' = CertsAfter(p, at)
  /\ \E at \in RoutePlacements(p, scan[p].items) :
       LET filed == RoutesAfter(p, scan[p].items, at)
       IN routes' = linkRouteCerts(filed, certs') /\ news' = RouteNews(routes, filed)
  /\ unlinked' = FALSE
  /\ scan' = [scan EXCEPT ![p] = [at |-> "applied", items |-> <<>>]]
  /\ UNCHANGED <<services, mu, plan, stale, edits>>

\* ReconcileStore: the inventory and the active routes are read, then each is written.  The
\* reads are one step: under the mutex only requests come between them, and what those
\* leave unresolved is `stale`, or a route that is gone when it is written.
\* Seeded fault: only routes that are broken are resolved again.
ToReconcileBroken == {i \in Live(routes) : routes[i].status # "ok"}
ToReconcile == Live(routes)

ReconcileLoad(s) ==
  /\ scan[s].at = "applied"
  /\ mu = None
  /\ mu' = s
  /\ plan' = {[id |-> i, ref |-> Resolution(services, routes[i].upstream).ref,
               status |-> Resolution(services, routes[i].upstream).status] : i \in ToReconcile}
  /\ stale' = FALSE
  /\ news' = {}
  /\ UNCHANGED <<services, routes, certs, scan, unlinked, edits>>

\* The SELECT of the service's id and the UPDATE, which touches no row if the route went.
ReconcileWrite(x) ==
  /\ x \in plan
  /\ plan' = plan \ {x}
  /\ routes' = IF routes[x.id] = None THEN routes
               ELSE [routes EXCEPT ![x.id].service = IdOf(services, x.ref), ![x.id].status = x.status]
  /\ news' = {}
  /\ UNCHANGED <<services, certs, scan, mu, stale, unlinked, edits>>

ReconcileDone ==
  /\ mu # None
  /\ plan = {}
  /\ scan' = [scan EXCEPT ![mu] = Idle]
  /\ mu' = None
  /\ news' = {}
  /\ UNCHANGED <<services, routes, certs, plan, stale, unlinked, edits>>

\* The deadline of the scan, or the end of the process, anywhere in it.
Abandon(s) ==
  /\ scan[s].at # "idle"
  /\ edits < MaxEdits
  /\ edits' = edits + 1
  /\ scan' = [scan EXCEPT ![s] = Idle]
  /\ stale' = (stale \/ scan[s].at = "applied")
  /\ mu' = IF mu = s THEN None ELSE mu
  /\ plan' = IF mu = s THEN {} ELSE plan
  /\ news' = {}
  /\ UNCHANGED <<services, routes, certs, unlinked>>

\* What the foreign keys make of routes when services or certificates are deleted.
SetNull(rs, ss, cs) ==
  [i \in Ids |-> IF rs[i] = None THEN None
                 ELSE [rs[i] EXCEPT !.service = IF @ \in ss THEN 0 ELSE @,
                                    !.cert = IF @ \in cs THEN 0 ELSE @]]

PurgeGone ==
  LET gone(t) == Rows(t) \ Live(t)
      drop(t) == [i \in Ids |-> IF i \in gone(t) THEN None ELSE t[i]] IN
  /\ mu = None
  /\ gone(services) \cup gone(routes) \cup gone(certs) # {}
  /\ services' = drop(services)
  /\ certs' = drop(certs)
  /\ routes' = SetNull(drop(routes), gone(services), gone(certs))
  /\ news' = {}
  /\ UNCHANGED <<scan, mu, plan, stale, unlinked, edits>>

Edit == edits < MaxEdits /\ edits' = edits + 1 /\ news' = {}

\* Services and certificates of a removed source lose it; routes go with its proxies row.
\* Nothing waits for its scan: to file a snapshot with something in it fails from then on
\* (FOREIGN KEY), while a scan that has applied its own goes on to resolve the routes.
DeleteSource(s) ==
  LET orphan(t) == [i \in Ids |-> IF i \in Of(t, s) THEN [t[i] EXCEPT !.conn = Orphan] ELSE t[i]] IN
  /\ Edit
  /\ services' = orphan(services)
  /\ certs' = orphan(certs)
  /\ routes' = [i \in Ids |-> IF i \in Of(routes, s) THEN None ELSE routes[i]]
  /\ scan' = [scan EXCEPT ![s] = IF @.at = "read" /\ DOMAIN @.items # {} THEN Idle ELSE @]
  /\ stale' = TRUE
  /\ UNCHANGED <<mu, plan, unlinked>>

CreateRoute(domain, upstream) ==
  /\ Edit
  /\ \E i \in NextIds(routes) :
       routes' = [routes EXCEPT ![i] = [conn |-> Manual, domain |-> domain, upstream |-> upstream,
                    service |-> 0, status |-> "broken", gone |-> FALSE, cert |-> 0]]
  /\ stale' = TRUE
  /\ unlinked' = TRUE
  /\ UNCHANGED <<services, certs, scan, mu, plan>>

DeleteRoute(i) ==
  /\ Edit
  /\ i \in Of(routes, Manual)
  /\ routes' = [routes EXCEPT ![i] = None]
  /\ UNCHANGED <<services, certs, scan, mu, plan, stale, unlinked>>

CreateCert(domain) ==
  /\ Edit
  /\ \E i \in NextIds(certs) :
       certs' = [certs EXCEPT ![i] = [conn |-> Manual, domain |-> domain, gone |-> FALSE]]
  /\ unlinked' = TRUE
  /\ UNCHANGED <<services, routes, scan, mu, plan, stale>>

DeleteCert(i) ==
  /\ Edit
  /\ i \in Of(certs, Manual)
  /\ certs' = [certs EXCEPT ![i] = None]
  /\ routes' = SetNull(routes, {}, {i})
  /\ unlinked' = TRUE
  /\ UNCHANGED <<services, scan, mu, plan, stale>>

Requests ==
  \/ \E s \in Sources : DeleteSource(s)
  \/ \E d \in Domains : CreateCert(d) \/ \E n \in Names : CreateRoute(d, n)
  \/ \E i \in Ids : DeleteRoute(i) \/ DeleteCert(i)

Next ==
  \/ \E p \in Proxies : ApplyRoutes(p) \/ \E found \in Reports : ReadProxy(p, found)
  \/ \E d \in Dockers, names \in SUBSET Names : ApplyServices(d, names)
  \/ \E s \in Sources : ReconcileLoad(s) \/ Abandon(s)
  \/ \E x \in plan : ReconcileWrite(x)
  \/ ReconcileDone
  \/ PurgeGone
  \/ Requests

Spec == Init /\ [][Next]_vars

-----------------------------------------------------------------------------

\* The rows have their types, and no route names a service or certificate without a row.
TypeOK ==
  /\ services \in [Ids -> {None} \cup ServiceRow]
  /\ certs \in [Ids -> {None} \cup CertRow]
  /\ routes \in [Ids -> {None} \cup RouteRow]
  /\ \A i \in Rows(routes) : /\ routes[i].service \in {0} \cup Rows(services)
                             /\ routes[i].cert \in {0} \cup Rows(certs)
  /\ mu \in Sources \cup {None}

\* No scan has applied its snapshot and not yet resolved the routes; no request came since.
Settled == ~stale /\ mu = None /\ \A s \in Sources : scan[s].at # "applied"

\* Then every active route says what the inventory says: scans of other sources, purges
\* and deletions in between included.
RoutesAreResolved ==
  Settled => \A i \in Live(routes) : LET r == Resolution(services, routes[i].upstream) IN
               routes[i].status = r.status /\ routes[i].service = IdOf(services, r.ref)

\* An active route is never linked to a certificate that went gone or covers another domain.
LinksCover ==
  \A i \in Live(routes) : routes[i].cert # 0 =>
    LET c == certs[routes[i].cert] IN ~c.gone /\ c.domain = routes[i].domain

\* "Only a unique cert links": after Apply, until certificates are edited, an active route is
\* linked exactly if one active certificate covers it.
LinksAreUnique == ~unlinked => \A i \in Live(routes) : routes[i].cert = CertOf(certs, routes[i].domain)

\* Certificates and routes agree, and no row names another that is not there.
LinksAreSound == TypeOK /\ LinksCover /\ LinksAreUnique

\* A scan that reads what is filed already, resolved by the same inventory, adds nothing to
\* the feed: resolution behind its back does not make entries.
RescanIsSilent ==
  [][\A p \in Proxies : ApplyRoutes(p) /\ Settled =>
       \A d \in DOMAIN scan[p].items, i \in news' :
         LET x == scan[p].items[d] IN
         ~(routes[i] # None /\ routes[i].conn = p /\ routes[i].domain = d /\ ~routes[i].gone
             /\ routes[i].upstream = x.upstream /\ x.status = Resolution(services, x.upstream).status)]_vars

=============================================================================

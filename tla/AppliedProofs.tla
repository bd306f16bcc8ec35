---------------------------- MODULE AppliedProofs ----------------------------
(***************************************************************************)
(* Proofs about what applied scans leave behind, for any number of         *)
(* sources, names and domains and for every inventory: routes and          *)
(* certificates (Routes), the news of registries (ImageUpdates), what an   *)
(* upstream reaches (Resolve) and which hosts are one (MachineLinks).      *)
(***************************************************************************)
EXTENDS Applied, FiniteSetTheorems, TLAPS

\* The run's specification moves one part at a time: for each part it is its own.
Parts == <<part, vars, images, inventory, machines>>

-----------------------------------------------------------------------------
\* Routes: the inductive invariant.

\* A source has one row per key.
ServicesKeyed(table) ==
  \A i, j \in Rows(table) :
    /\ table[i].conn \in Sources /\ table[i].conn = table[j].conn
    /\ table[i].name = table[j].name
    => i = j
RoutesKeyed(table) ==
  \A i, j \in Rows(table) :
    /\ table[i].conn \in Sources /\ table[i].conn = table[j].conn
    /\ table[i].domain = table[j].domain
    => i = j

\* What scans carry, and that only a scan that has applied reconciles.
ScansKnown ==
  /\ DOMAIN scan = Sources /\ \A s \in Sources : DOMAIN scan[s] = {"at", "items"}
  /\ \A s \in Sources : scan[s].at = "read" =>
       /\ DOMAIN scan[s].items \subseteq Domains
       /\ \A d \in DOMAIN scan[s].items : /\ scan[s].items[d].upstream \in Names
                                          /\ scan[s].items[d].status \in {"ok", "broken"}
  /\ mu # None => scan[mu].at = "applied"
  /\ mu = None => plan = {}
  /\ \A x \in plan : x.id \in Ids /\ x.status \in {"ok", "broken"}

\* The route says what the inventory says; the write would make it say so.
Resolved(i) ==
  LET r == Resolution(services, routes[i].upstream) IN
  routes[i].status = r.status /\ routes[i].service = IdOf(services, r.ref)
Agrees(x) ==
  LET r == Resolution(services, routes[x.id].upstream) IN
  x.ref = r.ref /\ x.status = r.status

\* While it reconciles: every active route is resolved or still to be written.
PlanSettles ==
  mu # None /\ ~stale =>
    /\ \A x \in plan : x.id \in Rows(routes) => Agrees(x)
    /\ \A i \in Live(routes) : Resolved(i) \/ \E x \in plan : x.id = i

RoutesInv ==
  /\ TypeOK /\ LinksCover /\ LinksAreUnique
  /\ ServicesKeyed(services) /\ RoutesKeyed(routes)
  /\ ScansKnown /\ PlanSettles /\ RoutesAreResolved

-----------------------------------------------------------------------------
\* The operators of Routes.

LEMMA NoRow ==
  /\ None \notin Sources /\ None \notin ServiceRow /\ None \notin CertRow /\ None \notin RouteRow
  /\ None \notin (Sources \cup {Orphan}) \X Names
  BY NoneAssumption

LEMMA OwnersDiffer == Manual \notin Sources /\ Orphan \notin Sources /\ Manual # Orphan
  BY SourcesAssumption DEF Manual, Orphan, Sources

LEMMA IdsArePositive == Ids \subseteq Nat /\ 0 \notin Ids
  BY BoundsAssumption DEF Ids

\* A name that is one service's resolves to that one, any other to nothing.
LEMMA ResolutionIs ==
  ASSUME NEW table, NEW name
  PROVE  LET now == Resolution(table, name) IN
         \/ /\ now.status = "ok"
            /\ \E i \in Live(table) : table[i].name = name /\ now.ref = <<table[i].conn, name>>
         \/ now.status = "broken" /\ now.ref = None
<1>1. CASE \E r \in RefsOf(table, name) : RefsOf(table, name) = {r}
  <2>1. PICK r \in RefsOf(table, name) : RefsOf(table, name) = {r}
    BY <1>1
  <2>2. (CHOOSE q \in RefsOf(table, name) : TRUE) = r
    BY <2>1
  <2>3. \E i \in Live(table) : table[i].name = name /\ r = <<table[i].conn, name>>
    BY <2>1 DEF RefsOf
  <2> QED
    BY <1>1, <2>2, <2>3 DEF Resolution
<1>2. CASE ~\E r \in RefsOf(table, name) : RefsOf(table, name) = {r}
  BY <1>2 DEF Resolution
<1> QED
  BY <1>1, <1>2

\* It depends on the active services only.
LEMMA ResolutionStays ==
  ASSUME NEW table, NEW after, Live(after) = Live(table),
         \A i \in Live(table) : after[i].conn = table[i].conn /\ after[i].name = table[i].name
  PROVE  \A name : Resolution(after, name) = Resolution(table, name)
<1> SUFFICES ASSUME NEW name PROVE Resolution(after, name) = Resolution(table, name)
  OBVIOUS
<1>1. RefsOf(after, name) = RefsOf(table, name)
  BY DEF RefsOf
<1> QED
  BY <1>1 DEF Resolution

LEMMA IdOfRange ==
  ASSUME NEW table, NEW ref PROVE IdOf(table, ref) \in {0} \cup Rows(table)
  BY DEF IdOf, Of

\* The row of an active service is found by its ref.
LEMMA IdOfLive ==
  ASSUME NEW table \in [Ids -> {None} \cup ServiceRow], ServicesKeyed(table),
         NEW i \in Live(table), table[i].conn \in Sources
  PROVE  IdOf(table, <<table[i].conn, table[i].name>>) = i
<1> DEFINE ref == <<table[i].conn, table[i].name>>
           found == {j \in Of(table, ref[1]) : table[j].name = ref[2]}
<1>1. i \in Rows(table) /\ table[i] \in ServiceRow
  BY DEF Live, Rows
<1>2. ref \in (Sources \cup {Orphan}) \X Names
  BY <1>1 DEF ServiceRow
<1>3. ref # None /\ ref[1] # Orphan
  BY <1>2, NoRow, OwnersDiffer
<1>4. found = {i}
  BY <1>1 DEF Of, ServicesKeyed
<1>5. IdOf(table, ref) = IF found = {} THEN 0 ELSE CHOOSE j \in found : TRUE
  BY <1>3 DEF IdOf
<1> QED
  BY <1>4, <1>5

\* Each key of a snapshot gets the row filed under it, or an unused one, and no two the same.
LEMMA Placed ==
  ASSUME NEW table, NEW filed, NEW p \in Placements(table, filed)
  PROVE  /\ DOMAIN p = DOMAIN filed
         /\ \A k \in DOMAIN filed :
              /\ p[k] \in Ids /\ p[k] \in Range(p) /\ KeyAt(p, p[k]) = k
              /\ IF filed[k] # {} THEN p[k] \in filed[k] ELSE p[k] \notin Rows(table)
         /\ \A i \in Range(p) : KeyAt(p, i) \in DOMAIN filed /\ p[KeyAt(p, i)] = i
<1>1. /\ p \in [DOMAIN filed -> Ids] /\ IsInjective(p)
      /\ \A k \in DOMAIN filed : p[k] \in (IF filed[k] # {} THEN filed[k] ELSE Unused(table))
  BY DEF Placements
<1>2. ASSUME NEW k \in DOMAIN filed PROVE p[k] \in Range(p) /\ KeyAt(p, p[k]) = k
  BY <1>1 DEF Range, KeyAt, IsInjective
<1>3. ASSUME NEW i \in Range(p) PROVE KeyAt(p, i) \in DOMAIN filed /\ p[KeyAt(p, i)] = i
  BY <1>1 DEF Range, KeyAt
<1>4. Unused(table) \cap Rows(table) = {}
  <2> SUFFICES ASSUME NEW i \in Unused(table), i \in Rows(table) PROVE FALSE
    OBVIOUS
  <2>1. i \in Nat /\ i < i
    BY IdsArePositive DEF Unused, Rows
  <2> QED
    BY <2>1
<1> QED
  BY <1>1, <1>2, <1>3, <1>4

\* What a table keeps of a row that its source no longer reports.
LEMMA ServiceKept ==
  ASSUME NEW table \in [Ids -> {None} \cup ServiceRow], NEW c, NEW i \in Ids
  PROVE  LET row1 == Kept(table, c, i) IN
         /\ row1 \in {None} \cup ServiceRow
         /\ row1 # None <=> table[i] # None
         /\ table[i] # None => row1.conn = table[i].conn /\ row1.name = table[i].name
  BY NoRow DEF Kept, Of, Rows, ServiceRow

LEMMA CertKept ==
  ASSUME NEW table \in [Ids -> {None} \cup CertRow], NEW c, NEW i \in Ids
  PROVE  LET row1 == Kept(table, c, i) IN
         row1 \in {None} \cup CertRow /\ (row1 # None <=> table[i] # None)
  BY NoRow DEF Kept, Of, Rows, CertRow

LEMMA RouteKept ==
  ASSUME NEW table \in [Ids -> {None} \cup RouteRow], NEW c, NEW i \in Ids
  PROVE  LET row1 == Kept(table, c, i) IN
         /\ row1 \in {None} \cup RouteRow
         /\ row1 # None <=> table[i] # None
         /\ table[i] # None =>
              /\ row1.conn = table[i].conn /\ row1.domain = table[i].domain
              /\ row1.service = table[i].service /\ row1.cert = table[i].cert
  BY NoRow, ZenonT(60) DEF Kept, Of, Rows, RouteRow

\* The certificate a route is linked to is active and covers its domain.
LEMMA CertOfCovers ==
  ASSUME NEW table, NEW domain, CertOf(table, domain) # 0
  PROVE  /\ CertOf(table, domain) \in Live(table)
         /\ table[CertOf(table, domain)].domain = domain
  BY DEF CertOf, Covering

LEMMA CertOfStays ==
  ASSUME NEW table, NEW after, Live(after) = Live(table),
         \A i \in Live(table) : after[i].domain = table[i].domain
  PROVE  \A domain : CertOf(after, domain) = CertOf(table, domain)
<1> SUFFICES ASSUME NEW domain PROVE CertOf(after, domain) = CertOf(table, domain)
  OBVIOUS
<1>1. Covering(after, domain) = Covering(table, domain)
  BY DEF Covering
<1> QED
  BY <1>1 DEF CertOf

\* Linking changes nothing else of a route.
LEMMA Linked ==
  ASSUME NEW rs \in [Ids -> {None} \cup RouteRow], NEW cs, NEW i \in Ids,
         \A j \in Rows(rs) : rs[j].cert \in {0} \cup Rows(cs), Rows(cs) \subseteq Ids
  PROVE  LET now == linkRouteCerts(rs, cs)[i] IN
         /\ now \in {None} \cup RouteRow
         /\ now # None <=> rs[i] # None
         /\ rs[i] # None =>
              /\ now.conn = rs[i].conn /\ now.domain = rs[i].domain /\ now.gone = rs[i].gone
              /\ now.service = rs[i].service /\ now.cert \in {0} \cup Rows(cs)
              /\ ~rs[i].gone => now.cert = CertOf(cs, rs[i].domain)
<1>1. CASE rs[i] # None /\ ~rs[i].gone
  <2>1. rs[i] \in RouteRow
    BY <1>1
  <2>2. linkRouteCerts(rs, cs)[i] = [rs[i] EXCEPT !.cert = CertOf(cs, rs[i].domain)]
    BY <1>1 DEF linkRouteCerts
  <2>3. CertOf(cs, rs[i].domain) \in {0} \cup Rows(cs)
    BY CertOfCovers DEF Live
  <2> QED
    BY <1>1, <2>1, <2>2, <2>3, NoRow DEF RouteRow
<1>2. CASE ~(rs[i] # None /\ ~rs[i].gone)
  BY <1>2 DEF linkRouteCerts, Rows
<1> QED
  BY <1>1, <1>2

\* What applyServices, applyCerts and applyRoutes make of their tables.
LEMMA ServicesApplied ==
  ASSUME TypeOK, ServicesKeyed(services), NEW d \in Dockers, NEW names \in SUBSET Names,
         NEW at \in ServicePlacements(d, names)
  PROVE  LET after == ServicesAfter(d, at) IN
         /\ after \in [Ids -> {None} \cup ServiceRow]
         /\ Rows(services) \subseteq Rows(after)
         /\ ServicesKeyed(after)
<1> DEFINE after == ServicesAfter(d, at)
           filed == [n \in names |-> {i \in Of(services, d) : services[i].name = n}]
<1>1. at \in Placements(services, filed) /\ DOMAIN filed = names
  BY DEF ServicePlacements
<1>2. \A i \in Range(at) : /\ after[i] = [conn |-> d, name |-> KeyAt(at, i), gone |-> FALSE]
                           /\ KeyAt(at, i) \in names /\ at[KeyAt(at, i)] = i
  <2>1. \A i \in Range(at) : i \in Ids /\ KeyAt(at, i) \in names /\ at[KeyAt(at, i)] = i
    BY <1>1, Placed
  <2> QED
    BY <2>1 DEF ServicesAfter
<1>3. \A i \in Ids \ Range(at) : after[i] = Kept(services, d, i)
  BY DEF ServicesAfter
<1>4. services \in [Ids -> {None} \cup ServiceRow]
  BY DEF TypeOK
<1>5. \A i \in Range(at) : after[i] \in ServiceRow /\ after[i].conn = d /\ after[i].name = KeyAt(at, i)
  <2> SUFFICES ASSUME NEW i \in Range(at)
               PROVE  after[i] \in ServiceRow /\ after[i].conn = d /\ after[i].name = KeyAt(at, i)
    OBVIOUS
  <2> HIDE DEF after
  <2>1. after[i] = [conn |-> d, name |-> KeyAt(at, i), gone |-> FALSE] /\ KeyAt(at, i) \in Names
    BY <1>2
  <2> QED
    BY <2>1 DEF ServiceRow
<1>6. \A i \in Ids \ Range(at) :
        /\ after[i] \in {None} \cup ServiceRow
        /\ after[i] # None <=> services[i] # None
        /\ services[i] # None => after[i].conn = services[i].conn /\ after[i].name = services[i].name
  BY <1>3, <1>4, ServiceKept
<1>7. after \in [Ids -> {None} \cup ServiceRow]
  <2>1. after = [i \in Ids |-> after[i]]
    BY DEF ServicesAfter
  <2> QED
    BY <1>5, <1>6, <2>1
<1>8. Rows(services) \subseteq Rows(after)
  BY <1>5, <1>6, NoRow DEF Rows
<1>9. ASSUME NEW i \in Rows(after), NEW j \in Rows(after), after[i].conn \in Sources,
             after[i].conn = after[j].conn, after[i].name = after[j].name
      PROVE  i = j
  <2>1. i \in Ids /\ j \in Ids
    BY DEF Rows
  <2>2. ASSUME NEW k \in Range(at), NEW l \in Rows(after), after[k].conn = after[l].conn,
               after[k].name = after[l].name
        PROVE  k = l
    <3>1. CASE l \in Range(at)
      BY <1>2, <1>5, <2>2, <3>1
    <3>2. CASE l \notin Range(at)
      <4> DEFINE n == KeyAt(at, k)
      <4>1. l \in Rows(services) /\ services[l].conn = d /\ services[l].name = n
        BY <1>5, <1>6, <2>2, <3>2 DEF Rows
      <4>2. n \in names /\ l \in filed[n] /\ at[n] = k
        BY <1>2, <4>1 DEF Of
      <4>3. k \in filed[n]
        BY <1>1, <4>2, Placed
      <4>4. k \in Rows(services) /\ services[k].conn = d /\ services[k].name = n
        BY <4>2, <4>3 DEF Of
      <4>5. k = l
        BY <4>1, <4>4 DEF ServicesKeyed, Sources
      <4> QED
        BY <4>5
    <3> QED
      BY <3>1, <3>2
  <2>3. CASE i \in Range(at)
    BY <1>9, <2>2, <2>3
  <2>4. CASE j \in Range(at)
    BY <1>9, <2>2, <2>4
  <2>5. CASE i \notin Range(at) /\ j \notin Range(at)
    <3>1. i \in Rows(services) /\ j \in Rows(services)
      BY <1>6, <2>1, <2>5 DEF Rows
    <3>2. /\ after[i].conn = services[i].conn /\ after[i].name = services[i].name
          /\ after[j].conn = services[j].conn /\ after[j].name = services[j].name
      BY <1>6, <2>1, <2>5, <3>1 DEF Rows
    <3> QED
      BY <1>9, <3>1, <3>2 DEF ServicesKeyed
  <2> QED
    BY <2>3, <2>4, <2>5
<1> HIDE DEF after
<1>10. ServicesKeyed(after)
  BY <1>9 DEF ServicesKeyed
<1> QED
  BY <1>7, <1>8, <1>10 DEF after

LEMMA CertsApplied ==
  ASSUME TypeOK, NEW p \in Proxies, NEW items, DOMAIN items \subseteq Domains,
         NEW at \in CertPlacements(p, items)
  PROVE  LET after == CertsAfter(p, at) IN
         after \in [Ids -> {None} \cup CertRow] /\ Rows(certs) \subseteq Rows(after)
<1> DEFINE after == CertsAfter(p, at)
           keys == {x \in DOMAIN items : items[x].cert}
           filed == [d \in keys |-> {i \in Of(certs, p) : certs[i].domain = d}]
<1>1. at \in Placements(certs, filed) /\ DOMAIN filed = keys
  BY DEF CertPlacements
<1>2. \A i \in Range(at) : KeyAt(at, i) \in Domains
  <2>1. keys \subseteq Domains
    OBVIOUS
  <2> QED
    BY <1>1, <2>1, Placed
<1>3. \A i \in Ids \cap Range(at) : after[i] \in CertRow
  BY <1>2 DEF CertsAfter, CertRow
<1>4. \A i \in Ids \ Range(at) :
        after[i] \in {None} \cup CertRow /\ (after[i] # None <=> certs[i] # None)
  BY CertKept DEF CertsAfter, TypeOK
<1>5. after = [i \in Ids |-> after[i]]
  BY DEF CertsAfter
<1> HIDE DEF after
<1> QED
  BY <1>3, <1>4, <1>5, NoRow DEF after, Rows

LEMMA RoutesApplied ==
  ASSUME TypeOK, RoutesKeyed(routes), NEW p \in Proxies,
         NEW items, DOMAIN items \subseteq Domains,
         \A d \in DOMAIN items : /\ items[d].upstream \in Names
                                 /\ items[d].status \in {"ok", "broken"},
         NEW at \in RoutePlacements(p, items)
  PROVE  LET filed == RoutesAfter(p, items, at) IN
         /\ filed \in [Ids -> {None} \cup RouteRow]
         /\ \A i \in Rows(filed) : /\ filed[i].service \in {0} \cup Rows(services)
                                   /\ filed[i].cert \in {0} \cup Rows(certs)
         /\ RoutesKeyed(filed)
<1> DEFINE filed == RoutesAfter(p, items, at)
           old == [d \in DOMAIN items |-> {i \in Of(routes, p) : routes[i].domain = d}]
<1>1. at \in Placements(routes, old) /\ DOMAIN old = DOMAIN items
  BY DEF RoutePlacements
<1>2. \A i \in Range(at) : /\ i \in Ids /\ KeyAt(at, i) \in DOMAIN items /\ at[KeyAt(at, i)] = i
                           /\ filed[i] = Filed(p, KeyAt(at, i), items[KeyAt(at, i)], i)
  <2>1. \A i \in Range(at) : i \in Ids /\ KeyAt(at, i) \in DOMAIN items /\ at[KeyAt(at, i)] = i
    BY <1>1, Placed
  <2> QED
    BY <2>1 DEF RoutesAfter
<1>3. /\ routes \in [Ids -> {None} \cup RouteRow]
      /\ \A i \in Rows(routes) : /\ routes[i].service \in {0} \cup Rows(services)
                                 /\ routes[i].cert \in {0} \cup Rows(certs)
  BY DEF TypeOK
<1>4. \A i \in Ids \ Range(at) :
        /\ filed[i] \in {None} \cup RouteRow
        /\ filed[i] # None <=> routes[i] # None
        /\ routes[i] # None => /\ filed[i].conn = routes[i].conn /\ filed[i].domain = routes[i].domain
                               /\ filed[i].service = routes[i].service /\ filed[i].cert = routes[i].cert
  BY <1>3, RouteKept DEF RoutesAfter
<1>5. filed = [i \in Ids |-> filed[i]]
  BY DEF RoutesAfter
<1> HIDE DEF filed
<1>6. \A i \in Range(at) :
        /\ filed[i] \in RouteRow /\ filed[i].conn = p /\ filed[i].domain = KeyAt(at, i)
        /\ filed[i].service \in {0} \cup Rows(services) /\ filed[i].cert \in {0} \cup Rows(certs)
  <2> SUFFICES ASSUME NEW i \in Range(at)
               PROVE  /\ filed[i] \in RouteRow /\ filed[i].conn = p /\ filed[i].domain = KeyAt(at, i)
                      /\ filed[i].service \in {0} \cup Rows(services)
                      /\ filed[i].cert \in {0} \cup Rows(certs)
    OBVIOUS
  <2> DEFINE d == KeyAt(at, i)
             x == items[d]
             service == IdOf(services, x.ref)
             cert == IF routes[i] # None THEN routes[i].cert ELSE 0
  <2>1. filed[i] = [conn |-> p, domain |-> d, upstream |-> x.upstream, service |-> service,
                    status |-> x.status, gone |-> FALSE, cert |-> cert]
    BY <1>2 DEF Filed
  <2>2. service \in {0} \cup Rows(services)
    BY IdOfRange
  <2>3. cert \in {0} \cup Rows(certs)
    BY <1>2, <1>3 DEF Rows
  <2>4. d \in Domains /\ x.upstream \in Names /\ x.status \in {"ok", "broken"}
    BY <1>2
  <2>5. Rows(services) \subseteq Ids /\ Rows(certs) \subseteq Ids
    BY DEF Rows
  <2> HIDE DEF d, x, service, cert
  <2>6. filed[i] \in RouteRow
    BY <2>1, <2>2, <2>3, <2>4, <2>5 DEF RouteRow
  <2>7. /\ filed[i].conn = p /\ filed[i].domain = d /\ filed[i].service = service
        /\ filed[i].cert = cert
    BY <2>1
  <2> QED
    BY <2>2, <2>3, <2>6, <2>7 DEF d
<1>7. filed \in [Ids -> {None} \cup RouteRow]
  BY <1>4, <1>5, <1>6
<1>8. ASSUME NEW i \in Rows(filed)
      PROVE  filed[i].service \in {0} \cup Rows(services) /\ filed[i].cert \in {0} \cup Rows(certs)
  BY <1>3, <1>4, <1>6 DEF Rows
<1>9. ASSUME NEW i \in Rows(filed), NEW j \in Rows(filed), filed[i].conn \in Sources,
             filed[i].conn = filed[j].conn, filed[i].domain = filed[j].domain
      PROVE  i = j
  <2>1. i \in Ids /\ j \in Ids
    BY DEF Rows
  <2>2. ASSUME NEW k \in Range(at), NEW l \in Rows(filed), filed[k].conn = filed[l].conn,
               filed[k].domain = filed[l].domain
        PROVE  k = l
    <3>1. CASE l \in Range(at)
      BY <1>2, <1>6, <2>2, <3>1
    <3>2. CASE l \notin Range(at)
      <4> DEFINE d == KeyAt(at, k)
      <4>1. l \in Rows(routes) /\ routes[l].conn = p /\ routes[l].domain = d
        BY <1>4, <1>6, <2>2, <3>2 DEF Rows
      <4>2. d \in DOMAIN items /\ l \in old[d] /\ at[d] = k
        BY <1>2, <4>1 DEF Of
      <4>3. k \in old[d]
        BY <1>1, <4>2, Placed
      <4>4. k \in Rows(routes) /\ routes[k].conn = p /\ routes[k].domain = d
        BY <4>2, <4>3 DEF Of
      <4> QED
        BY <4>1, <4>4 DEF RoutesKeyed, Sources
    <3> QED
      BY <3>1, <3>2
  <2>3. CASE i \in Range(at)
    BY <1>9, <2>2, <2>3
  <2>4. CASE j \in Range(at)
    BY <1>9, <2>2, <2>4
  <2>5. CASE i \notin Range(at) /\ j \notin Range(at)
    <3>1. i \in Rows(routes) /\ j \in Rows(routes)
      BY <1>4, <2>1, <2>5 DEF Rows
    <3>2. /\ filed[i].conn = routes[i].conn /\ filed[i].domain = routes[i].domain
          /\ filed[j].conn = routes[j].conn /\ filed[j].domain = routes[j].domain
      BY <1>4, <2>1, <2>5, <3>1 DEF Rows
    <3> QED
      BY <1>9, <3>1, <3>2 DEF RoutesKeyed
  <2> QED
    BY <2>3, <2>4, <2>5
<1>10. RoutesKeyed(filed)
  BY <1>9 DEF RoutesKeyed
<1> QED
  BY <1>7, <1>8, <1>10 DEF filed

\* A table of routes, linked.
LEMMA LinkedTable ==
  ASSUME NEW rs \in [Ids -> {None} \cup RouteRow], NEW cs, NEW ids, RoutesKeyed(rs),
         \A i \in Rows(rs) : rs[i].service \in ids /\ rs[i].cert \in {0} \cup Rows(cs)
  PROVE  LET now == linkRouteCerts(rs, cs) IN
         /\ now \in [Ids -> {None} \cup RouteRow] /\ RoutesKeyed(now)
         /\ \A i \in Rows(now) : now[i].service \in ids /\ now[i].cert \in {0} \cup Rows(cs)
         /\ \A i \in Live(now) : now[i].cert = CertOf(cs, now[i].domain)
<1> DEFINE now == linkRouteCerts(rs, cs)
<1>1. ASSUME NEW i \in Ids
      PROVE  /\ now[i] \in {None} \cup RouteRow
             /\ now[i] # None <=> rs[i] # None
             /\ rs[i] # None =>
                  /\ now[i].conn = rs[i].conn /\ now[i].domain = rs[i].domain
                  /\ now[i].gone = rs[i].gone /\ now[i].service = rs[i].service
                  /\ now[i].cert \in {0} \cup Rows(cs)
                  /\ ~rs[i].gone => now[i].cert = CertOf(cs, rs[i].domain)
  <2>1. Rows(cs) \subseteq Ids
    BY DEF Rows
  <2> QED
    BY <2>1, Linked
<1>2. now = [i \in Ids |-> now[i]]
  BY DEF linkRouteCerts
<1> HIDE DEF now
<1>3. now \in [Ids -> {None} \cup RouteRow]
  BY <1>1, <1>2
<1>4. RoutesKeyed(now)
  BY <1>1 DEF RoutesKeyed, Rows
<1>5. \A i \in Rows(now) : now[i].service \in ids /\ now[i].cert \in {0} \cup Rows(cs)
  BY <1>1 DEF Rows
<1>6. \A i \in Live(now) : now[i].cert = CertOf(cs, now[i].domain)
  BY <1>1 DEF Live, Rows
<1> QED
  BY <1>3, <1>4, <1>5, <1>6 DEF now

-----------------------------------------------------------------------------
\* Routes: each action keeps the invariant.

LEMMA RoutesInvInit == Init => RoutesInv
<1> SUFFICES ASSUME Init PROVE RoutesInv
  OBVIOUS
<1>1. Rows(services) = {} /\ Rows(routes) = {} /\ Rows(certs) = {} /\ Live(routes) = {}
  BY DEF Init, Rows, Live
<1>2. TypeOK
  BY <1>1 DEF Init, TypeOK
<1>3. LinksCover /\ LinksAreUnique /\ RoutesAreResolved /\ PlanSettles
  BY <1>1 DEF Init, LinksCover, LinksAreUnique, RoutesAreResolved, PlanSettles
<1>4. ServicesKeyed(services) /\ RoutesKeyed(routes)
  BY <1>1 DEF ServicesKeyed, RoutesKeyed
<1>5. ScansKnown
  BY DEF Init, ScansKnown, Idle
<1> QED
  BY <1>2, <1>3, <1>4, <1>5 DEF RoutesInv

\* One scan moves on, at the mutex or away from it.
LEMMA ScanMoves ==
  ASSUME ScansKnown, NEW s \in Sources, NEW at,
         \/ \E items : scan' = [scan EXCEPT ![s] = [at |-> at, items |-> items]]
         \/ scan' = [scan EXCEPT ![s].at = at]
  PROVE  /\ DOMAIN scan' = Sources /\ \A c \in Sources : DOMAIN scan'[c] = {"at", "items"}
         /\ scan'[s].at = at
         /\ \A c \in Sources \ {s} : scan'[c] = scan[c]
<1>1. DOMAIN scan = Sources /\ \A c \in Sources : DOMAIN scan[c] = {"at", "items"}
  BY DEF ScansKnown
<1>2. CASE \E items : scan' = [scan EXCEPT ![s] = [at |-> at, items |-> items]]
  <2>1. PICK items : scan' = [scan EXCEPT ![s] = [at |-> at, items |-> items]]
    BY <1>2
  <2>2. scan'[s] = [at |-> at, items |-> items] /\ DOMAIN scan'[s] = {"at", "items"}
    BY <1>1, <2>1
  <2> QED
    BY <1>1, <2>1, <2>2
<1>3. CASE scan' = [scan EXCEPT ![s].at = at]
  BY <1>1, <1>3
<1> QED
  BY <1>2, <1>3

LEMMA ApplyServicesKeeps ==
  ASSUME RoutesInv, NEW d \in Dockers, NEW names \in SUBSET Names, ApplyServices(d, names)
  PROVE  RoutesInv'
<1>1. PICK at \in ServicePlacements(d, names) : services' = ServicesAfter(d, at)
  BY DEF ApplyServices
<1>2. /\ services' \in [Ids -> {None} \cup ServiceRow]
      /\ Rows(services) \subseteq Rows(services') /\ ServicesKeyed(services')
  BY <1>1, ServicesApplied DEF RoutesInv
<1>3. routes' = linkRouteCerts(routes, certs) /\ certs' = certs /\ mu' = mu /\ mu = None
  BY DEF ApplyServices
<1>4. /\ routes' \in [Ids -> {None} \cup RouteRow] /\ RoutesKeyed(routes')
      /\ \A i \in Rows(routes') : /\ routes'[i].service \in {0} \cup Rows(services)
                                  /\ routes'[i].cert \in {0} \cup Rows(certs)
      /\ \A i \in Live(routes') : routes'[i].cert = CertOf(certs, routes'[i].domain)
  BY <1>3, LinkedTable, ZenonT(60) DEF RoutesInv, TypeOK
<1>5. TypeOK'
  BY <1>2, <1>3, <1>4 DEF RoutesInv, TypeOK
<1>6. LinksCover' /\ LinksAreUnique'
  BY <1>3, <1>4, CertOfCovers DEF LinksCover, LinksAreUnique, Live
<1>7. d \in Sources /\ scan' = [scan EXCEPT ![d].at = "applied"]
  BY DEF ApplyServices, Sources
<1>8. scan'[d].at = "applied" /\ ScansKnown'
  BY <1>3, <1>7, ScanMoves DEF RoutesInv, ScansKnown, ApplyServices
<1>9. PlanSettles' /\ RoutesAreResolved'
  BY <1>3, <1>7, <1>8 DEF PlanSettles, RoutesAreResolved, Settled
<1> QED
  BY <1>2, <1>4, <1>5, <1>6, <1>8, <1>9 DEF RoutesInv

LEMMA ApplyRoutesKeeps ==
  ASSUME RoutesInv, NEW p \in Proxies, ApplyRoutes(p)
  PROVE  RoutesInv'
<1> DEFINE items == scan[p].items
<1>1. /\ p \in Sources /\ DOMAIN items \subseteq Domains
      /\ \A d \in DOMAIN items : /\ items[d].upstream \in Names
                                 /\ items[d].status \in {"ok", "broken"}
  BY DEF ApplyRoutes, RoutesInv, ScansKnown, Sources
<1>2. PICK filing \in CertPlacements(p, items) : certs' = CertsAfter(p, filing)
  BY DEF ApplyRoutes
<1>3. certs' \in [Ids -> {None} \cup CertRow] /\ Rows(certs) \subseteq Rows(certs')
  BY <1>1, <1>2, CertsApplied DEF RoutesInv
<1>4. PICK at \in RoutePlacements(p, items) :
        routes' = linkRouteCerts(RoutesAfter(p, items, at), certs')
  BY DEF ApplyRoutes
<1> DEFINE filed == RoutesAfter(p, items, at)
<1>5. /\ filed \in [Ids -> {None} \cup RouteRow] /\ RoutesKeyed(filed)
      /\ \A i \in Rows(filed) : /\ filed[i].service \in {0} \cup Rows(services)
                                /\ filed[i].cert \in {0} \cup Rows(certs)
  BY <1>1, RoutesApplied DEF RoutesInv
<1> HIDE DEF filed
<1>6. \A i \in Rows(filed) : /\ filed[i].service \in {0} \cup Rows(services)
                             /\ filed[i].cert \in {0} \cup Rows(certs')
  BY <1>3, <1>5
<1>7. /\ routes' \in [Ids -> {None} \cup RouteRow] /\ RoutesKeyed(routes')
      /\ \A i \in Rows(routes') : /\ routes'[i].service \in {0} \cup Rows(services)
                                  /\ routes'[i].cert \in {0} \cup Rows(certs')
      /\ \A i \in Live(routes') : routes'[i].cert = CertOf(certs', routes'[i].domain)
  <2>1. routes' = linkRouteCerts(filed, certs')
    BY <1>4 DEF filed
  <2> QED
    BY <1>5, <1>6, <2>1, LinkedTable, ZenonT(60)
<1>8. services' = services /\ mu' = mu /\ mu = None
  BY DEF ApplyRoutes
<1>9. TypeOK'
  BY <1>3, <1>7, <1>8 DEF RoutesInv, TypeOK
<1>10. LinksCover' /\ LinksAreUnique'
  BY <1>7, CertOfCovers DEF LinksCover, LinksAreUnique, Live
<1>11. scan' = [scan EXCEPT ![p] = [at |-> "applied", items |-> <<>>]]
  BY DEF ApplyRoutes
<1>12. scan'[p].at = "applied" /\ ScansKnown'
  BY <1>1, <1>8, <1>11, ScanMoves DEF RoutesInv, ScansKnown, ApplyRoutes
<1>13. PlanSettles' /\ RoutesAreResolved'
  BY <1>1, <1>8, <1>12 DEF PlanSettles, RoutesAreResolved, Settled
<1>14. ServicesKeyed(services')
  BY <1>8 DEF RoutesInv
<1> QED
  BY <1>7, <1>9, <1>10, <1>12, <1>13, <1>14 DEF RoutesInv

\* Steps that touch no table leave to show what they change of the scans.
LEMMA TablesStay ==
  ASSUME RoutesInv, UNCHANGED <<services, routes, certs, unlinked>>
  PROVE  /\ mu' \in Sources \cup {None} => TypeOK'
         /\ LinksCover' /\ LinksAreUnique'
         /\ ServicesKeyed(services') /\ RoutesKeyed(routes')
         /\ (Settled' => Settled) => RoutesAreResolved'
         /\ UNCHANGED <<mu, plan, stale>> => PlanSettles'
<1>1. mu' \in Sources \cup {None} => TypeOK'
  BY DEF RoutesInv, TypeOK
<1>2. LinksCover' /\ LinksAreUnique'
  BY DEF RoutesInv, LinksCover, LinksAreUnique
<1>3. ServicesKeyed(services') /\ RoutesKeyed(routes')
  BY DEF RoutesInv
<1>4. (Settled' => Settled) => RoutesAreResolved'
  BY DEF RoutesInv, RoutesAreResolved
<1>5. UNCHANGED <<mu, plan, stale>> => PlanSettles'
  BY DEF RoutesInv, PlanSettles, Agrees, Resolved
<1> QED
  BY <1>1, <1>2, <1>3, <1>4, <1>5

LEMMA ReadProxyKeeps ==
  ASSUME RoutesInv, NEW p \in Proxies, NEW found \in Reports, ReadProxy(p, found)
  PROVE  RoutesInv'
<1> DEFINE items == [d \in DOMAIN found |->
                       [upstream |-> found[d].upstream, cert |-> found[d].cert,
                        ref |-> Resolution(services, found[d].upstream).ref,
                        status |-> Resolution(services, found[d].upstream).status]]
<1>1. /\ p \in Sources /\ scan[p].at = "idle"
      /\ scan' = [scan EXCEPT ![p] = [at |-> "read", items |-> items]]
      /\ UNCHANGED <<services, routes, certs, mu, plan, stale, unlinked>>
  BY DEF ReadProxy, Sources
<1>2. DOMAIN items \subseteq Domains /\ \A d \in DOMAIN items : items[d].upstream \in Names
  BY DEF Reports
<1>3. \A d \in DOMAIN items : items[d].status \in {"ok", "broken"}
  <2> SUFFICES ASSUME NEW d \in DOMAIN items PROVE items[d].status \in {"ok", "broken"}
    OBVIOUS
  <2>1. items[d].status = Resolution(services, found[d].upstream).status
    OBVIOUS
  <2> QED
    BY <2>1, ResolutionIs
<1> HIDE DEF items
<1>4. /\ DOMAIN scan' = Sources /\ \A c \in Sources : DOMAIN scan'[c] = {"at", "items"}
      /\ scan'[p].at = "read" /\ \A c \in Sources \ {p} : scan'[c] = scan[c]
  BY <1>1, ScanMoves DEF RoutesInv
<1>5. scan'[p].items = items
  BY <1>1 DEF RoutesInv, ScansKnown
<1>6. ScansKnown'
  BY <1>1, <1>2, <1>3, <1>4, <1>5 DEF RoutesInv, ScansKnown, TypeOK
<1>7. Settled' => Settled
  BY <1>1, <1>4 DEF Settled
<1> QED
  BY <1>1, <1>6, <1>7, TablesStay DEF RoutesInv, TypeOK

LEMMA ReconcileLoadKeeps ==
  ASSUME RoutesInv, NEW s \in Sources, ReconcileLoad(s)
  PROVE  RoutesInv'
<1> DEFINE write(i) == [id |-> i, ref |-> Resolution(services, routes[i].upstream).ref,
                        status |-> Resolution(services, routes[i].upstream).status]
<1>1. /\ scan[s].at = "applied" /\ mu' = s /\ plan' = {write(i) : i \in Live(routes)}
      /\ UNCHANGED <<services, routes, certs, scan, unlinked>>
  BY DEF ReconcileLoad, ToReconcile
<1>2. mu' # None
  BY <1>1, NoRow
<1>3. \A i : /\ write(i).id = i /\ write(i).ref = Resolution(services, routes[i].upstream).ref
             /\ write(i).status = Resolution(services, routes[i].upstream).status
             /\ write(i).status \in {"ok", "broken"}
  BY ResolutionIs
<1> HIDE DEF write
<1>4. ScansKnown'
  <2>1. \A x \in plan' : x.id \in Ids /\ x.status \in {"ok", "broken"}
    BY <1>1, <1>3 DEF Live, Rows
  <2> QED
    BY <1>1, <1>2, <2>1 DEF RoutesInv, ScansKnown
<1>5. PlanSettles'
  <2>1. \A x \in plan' : Agrees(x)'
    BY <1>1, <1>3 DEF Agrees
  <2>2. \A i \in Live(routes') : \E x \in plan' : x.id = i
    BY <1>1, <1>3
  <2> QED
    BY <2>1, <2>2 DEF PlanSettles
<1>6. RoutesAreResolved'
  BY <1>2 DEF RoutesAreResolved, Settled
<1> QED
  BY <1>1, <1>4, <1>5, <1>6, TablesStay DEF RoutesInv

LEMMA ReconcileWriteKeeps ==
  ASSUME RoutesInv, NEW x \in plan, ReconcileWrite(x)
  PROVE  RoutesInv'
<1>1. /\ plan' = plan \ {x} /\ mu # None
      /\ x.id \in Ids /\ x.status \in {"ok", "broken"}
      /\ UNCHANGED <<services, certs, scan, mu, stale, unlinked>>
  BY DEF ReconcileWrite, RoutesInv, ScansKnown
<1> DEFINE service == IdOf(services, x.ref)
<1>2. service \in {0} \cup Rows(services) /\ service \in {0} \cup Ids
  BY IdOfRange DEF Rows
<1>3. routes \in [Ids -> {None} \cup RouteRow]
  BY DEF RoutesInv, TypeOK
<1>4. \A i \in Ids :
        /\ routes'[i] \in {None} \cup RouteRow
        /\ routes'[i] # None <=> routes[i] # None
        /\ routes[i] # None =>
             /\ routes'[i].conn = routes[i].conn /\ routes'[i].domain = routes[i].domain
             /\ routes'[i].upstream = routes[i].upstream /\ routes'[i].gone = routes[i].gone
             /\ routes'[i].cert = routes[i].cert
             /\ IF i = x.id THEN routes'[i].service = service /\ routes'[i].status = x.status
                ELSE routes'[i] = routes[i]
  <2>1. CASE routes[x.id] = None
    BY <1>3, <2>1 DEF ReconcileWrite
  <2>2. CASE routes[x.id] # None
    <3>1. routes[x.id] \in RouteRow
      BY <1>1, <1>3, <2>2
    <3>2. routes' = [routes EXCEPT ![x.id] = [routes[x.id] EXCEPT !.service = service,
                                                                 !.status = x.status]]
      BY <1>1, <1>3, <2>2, <3>1 DEF ReconcileWrite, RouteRow
    <3> HIDE DEF service
    <3>3. routes'[x.id] = [routes[x.id] EXCEPT !.service = service, !.status = x.status]
      BY <1>1, <1>3, <3>2
    <3>4. \A i \in Ids \ {x.id} : routes'[i] = routes[i]
      BY <1>3, <3>2
    <3>5. routes'[x.id] \in RouteRow
      BY <1>1, <1>2, <3>1, <3>3 DEF RouteRow
    <3>6. /\ routes'[x.id].conn = routes[x.id].conn /\ routes'[x.id].domain = routes[x.id].domain
          /\ routes'[x.id].upstream = routes[x.id].upstream
          /\ routes'[x.id].gone = routes[x.id].gone /\ routes'[x.id].cert = routes[x.id].cert
          /\ routes'[x.id].service = service /\ routes'[x.id].status = x.status
      BY <3>1, <3>3 DEF RouteRow
    <3> QED
      BY <1>3, <2>2, <3>4, <3>5, <3>6, NoRow
  <2> QED
    BY <2>1, <2>2
<1>5. routes' \in [Ids -> {None} \cup RouteRow]
  <2>1. routes' = routes \/ routes' = [routes EXCEPT ![x.id].service = service, ![x.id].status = x.status]
    BY DEF ReconcileWrite
  <2>2. routes' = [i \in Ids |-> routes'[i]]
    BY <1>3, <2>1
  <2> QED
    BY <1>4, <2>2
<1>6. /\ Rows(routes') = Rows(routes) /\ Live(routes') = Live(routes)
  BY <1>4 DEF Rows, Live
<1>7. TypeOK'
  <2>1. \A i \in Rows(routes') : /\ routes'[i].service \in {0} \cup Rows(services)
                                 /\ routes'[i].cert \in {0} \cup Rows(certs)
    BY <1>2, <1>4 DEF RoutesInv, TypeOK, Rows
  <2> QED
    BY <1>1, <1>5, <2>1 DEF RoutesInv, TypeOK
<1>8. LinksCover' /\ LinksAreUnique'
  <2>1. \A i \in Live(routes) : routes'[i].cert = routes[i].cert /\ routes'[i].domain = routes[i].domain
    BY <1>4 DEF Live, Rows
  <2> QED
    BY <1>1, <1>6, <2>1 DEF RoutesInv, LinksCover, LinksAreUnique
<1>9. ServicesKeyed(services') /\ RoutesKeyed(routes')
  <2>1. RoutesKeyed(routes')
    BY <1>4 DEF RoutesInv, RoutesKeyed, Rows
  <2> QED
    BY <1>1, <2>1 DEF RoutesInv
<1>10. ScansKnown'
  BY <1>1 DEF RoutesInv, ScansKnown
<1>11. PlanSettles'
  <2> SUFFICES ASSUME ~stale
               PROVE  /\ \A y \in plan' : y.id \in Rows(routes') => Agrees(y)'
                      /\ \A i \in Live(routes') : Resolved(i)' \/ \E y \in plan' : y.id = i
    BY <1>1 DEF PlanSettles
  <2>1. /\ \A y \in plan : y.id \in Rows(routes) => Agrees(y)
        /\ \A i \in Live(routes) : Resolved(i) \/ \E y \in plan : y.id = i
    BY <1>1 DEF RoutesInv, PlanSettles
  <2>2. ASSUME NEW y \in plan', y.id \in Rows(routes') PROVE Agrees(y)'
    <3>1. Agrees(y) /\ routes'[y.id].upstream = routes[y.id].upstream
      BY <1>1, <1>4, <1>6, <2>1, <2>2 DEF Rows
    <3> QED
      BY <1>1, <3>1 DEF Agrees
  <2>3. ASSUME NEW i \in Live(routes') PROVE Resolved(i)' \/ \E y \in plan' : y.id = i
    <3>1. i \in Ids /\ i \in Rows(routes) /\ i \in Live(routes)
      BY <1>6 DEF Live, Rows
    <3>2. routes[i] # None /\ routes'[i].upstream = routes[i].upstream
      BY <1>4, <3>1 DEF Rows
    <3>3. CASE i = x.id
      <4>1. Agrees(x) /\ routes'[i].service = service /\ routes'[i].status = x.status
        BY <1>4, <2>1, <3>1, <3>2, <3>3
      <4> QED
        BY <1>1, <3>2, <3>3, <4>1 DEF Agrees, Resolved
    <3>4. CASE i # x.id
      <4>1. routes'[i] = routes[i]
        BY <1>4, <3>1, <3>2, <3>4
      <4>2. CASE Resolved(i)
        BY <1>1, <4>1, <4>2 DEF Resolved
      <4>3. CASE \E y \in plan : y.id = i
        BY <1>1, <3>4, <4>3
      <4> QED
        BY <2>1, <3>1, <4>2, <4>3
    <3> QED
      BY <3>3, <3>4
  <2> QED
    BY <2>2, <2>3
<1>12. RoutesAreResolved'
  BY <1>1 DEF RoutesAreResolved, Settled
<1> QED
  BY <1>7, <1>8, <1>9, <1>10, <1>11, <1>12 DEF RoutesInv

LEMMA ReconcileDoneKeeps ==
  ASSUME RoutesInv, ReconcileDone
  PROVE  RoutesInv'
<1>1. /\ mu \in Sources /\ mu # None /\ plan = {} /\ mu' = None
      /\ scan' = [scan EXCEPT ![mu] = Idle]
      /\ UNCHANGED <<services, routes, certs, plan, stale, unlinked>>
  BY DEF ReconcileDone, RoutesInv, TypeOK
<1>2. /\ DOMAIN scan' = Sources /\ \A c \in Sources : DOMAIN scan'[c] = {"at", "items"}
      /\ scan'[mu].at = "idle" /\ \A c \in Sources \ {mu} : scan'[c] = scan[c]
  BY <1>1, ScanMoves DEF RoutesInv, Idle
<1>3. ScansKnown'
  BY <1>1, <1>2 DEF RoutesInv, ScansKnown
<1>4. PlanSettles'
  BY <1>1 DEF PlanSettles
<1>5. RoutesAreResolved'
  <2> SUFFICES ASSUME ~stale, NEW i \in Live(routes') PROVE Resolved(i)'
    BY <1>1 DEF RoutesAreResolved, Settled, Resolved
  <2>1. Resolved(i)
    BY <1>1 DEF RoutesInv, PlanSettles
  <2> QED
    BY <1>1, <2>1 DEF Resolved
<1> QED
  BY <1>1, <1>3, <1>4, <1>5, TablesStay DEF RoutesInv

LEMMA AbandonKeeps ==
  ASSUME RoutesInv, NEW s \in Sources, Abandon(s)
  PROVE  RoutesInv'
<1>1. /\ scan' = [scan EXCEPT ![s] = Idle] /\ stale' = (stale \/ scan[s].at = "applied")
      /\ mu' = (IF mu = s THEN None ELSE mu) /\ plan' = (IF mu = s THEN {} ELSE plan)
      /\ UNCHANGED <<services, routes, certs, unlinked>>
  BY DEF Abandon
<1>2. /\ DOMAIN scan' = Sources /\ \A c \in Sources : DOMAIN scan'[c] = {"at", "items"}
      /\ scan'[s].at = "idle" /\ \A c \in Sources \ {s} : scan'[c] = scan[c]
  BY <1>1, ScanMoves DEF RoutesInv, Idle
<1>3. mu' \in Sources \cup {None} /\ (mu' # None => mu' = mu /\ mu # s /\ mu \in Sources)
  BY <1>1 DEF RoutesInv, TypeOK
<1>4. mu = s => scan[s].at = "applied"
  BY NoRow DEF RoutesInv, ScansKnown
<1>5. ScansKnown'
  BY <1>1, <1>2, <1>3 DEF RoutesInv, ScansKnown
<1>6. PlanSettles'
  <2>1. CASE mu = s
    BY <1>1, <2>1 DEF PlanSettles
  <2>2. CASE mu # s
    <3> SUFFICES ASSUME mu # None, ~stale
                 PROVE  /\ \A x \in plan' : x.id \in Rows(routes') => Agrees(x)'
                        /\ \A i \in Live(routes') : Resolved(i)' \/ \E x \in plan' : x.id = i
      BY <1>1, <2>2 DEF PlanSettles
    <3>1. /\ \A x \in plan : x.id \in Rows(routes) => Agrees(x)
          /\ \A i \in Live(routes) : Resolved(i) \/ \E x \in plan : x.id = i
      BY DEF RoutesInv, PlanSettles
    <3>2. (\A x : Agrees(x)' <=> Agrees(x)) /\ (\A i : Resolved(i)' <=> Resolved(i))
      BY <1>1 DEF Agrees, Resolved
    <3> QED
      BY <1>1, <2>2, <3>1, <3>2
  <2> QED
    BY <2>1, <2>2
<1>7. Settled' => Settled
  BY <1>1, <1>2, <1>4 DEF Settled
<1> QED
  BY <1>1, <1>3, <1>5, <1>6, <1>7, TablesStay DEF RoutesInv

LEMMA SetNullRow ==
  ASSUME NEW rs, NEW ss, NEW cs, NEW i \in Ids, rs[i] \in {None} \cup RouteRow
  PROVE  LET now == SetNull(rs, ss, cs)[i] IN
         /\ now \in {None} \cup RouteRow
         /\ now # None <=> rs[i] # None
         /\ rs[i] # None =>
              /\ now.conn = rs[i].conn /\ now.domain = rs[i].domain /\ now.gone = rs[i].gone
              /\ now.upstream = rs[i].upstream /\ now.status = rs[i].status
              /\ now.service = IF rs[i].service \in ss THEN 0 ELSE rs[i].service
              /\ now.cert = IF rs[i].cert \in cs THEN 0 ELSE rs[i].cert
<1>1. CASE rs[i] = None
  BY <1>1 DEF SetNull
<1>2. CASE rs[i] # None
  <2> DEFINE service == IF rs[i].service \in ss THEN 0 ELSE rs[i].service
             cert == IF rs[i].cert \in cs THEN 0 ELSE rs[i].cert
  <2>1. rs[i] \in RouteRow
    BY <1>2
  <2>2. SetNull(rs, ss, cs)[i] = [rs[i] EXCEPT !.service = service, !.cert = cert]
    BY <1>2, <2>1 DEF SetNull, RouteRow
  <2>3. service \in {0} \cup Ids /\ cert \in {0} \cup Ids
    BY <2>1 DEF RouteRow
  <2> HIDE DEF service, cert
  <2>4. SetNull(rs, ss, cs)[i] \in RouteRow
    BY <2>1, <2>2, <2>3 DEF RouteRow
  <2>5. SetNull(rs, ss, cs)[i] # None
    BY <2>4, NoRow
  <2>6. LET now == SetNull(rs, ss, cs)[i] IN
        /\ now.conn = rs[i].conn /\ now.domain = rs[i].domain /\ now.gone = rs[i].gone
        /\ now.upstream = rs[i].upstream /\ now.status = rs[i].status
        /\ now.service = service /\ now.cert = cert
    BY <2>1, <2>2 DEF RouteRow
  <2> QED
    BY <1>2, <2>4, <2>5, <2>6 DEF service, cert
<1> QED
  BY <1>1, <1>2

\* A resolved route stays resolved when only rows that are gone are purged.
LEMMA PurgeResolves ==
  ASSUME RoutesInv, NEW after \in [Ids -> {None} \cup ServiceRow], NEW name,
         after = [i \in Ids |-> IF i \in Rows(services) \ Live(services) THEN None ELSE services[i]]
  PROVE  LET r == Resolution(services, name) IN
         /\ Resolution(after, name) = r
         /\ IdOf(after, r.ref) = IdOf(services, r.ref)
         /\ IdOf(services, r.ref) \notin Rows(services) \ Live(services)
<1> DEFINE r == Resolution(services, name)
<1>1. services \in [Ids -> {None} \cup ServiceRow] /\ ServicesKeyed(services)
  BY DEF RoutesInv, TypeOK
<1>2. \A i \in Ids : after[i] = IF i \in Rows(services) \ Live(services) THEN None ELSE services[i]
  OBVIOUS
<1>3. Live(after) = Live(services) /\ Rows(after) = Live(services)
  BY <1>2 DEF Live, Rows
<1>4. \A i \in Live(services) : after[i] = services[i]
  BY <1>2 DEF Live, Rows
<1>5. Resolution(after, name) = r
  BY <1>3, <1>4, ResolutionStays
<1>6. ServicesKeyed(after)
  BY <1>1, <1>3, <1>4 DEF ServicesKeyed, Live
<1>7. /\ IdOf(after, r.ref) = IdOf(services, r.ref)
      /\ IdOf(services, r.ref) \notin Rows(services) \ Live(services)
  <2>1. CASE r.ref = None
    BY <2>1, IdsArePositive DEF IdOf, Rows
  <2>2. ASSUME NEW i \in Live(services), r.ref = <<services[i].conn, name>>, services[i].name = name
        PROVE  /\ IdOf(after, r.ref) = IdOf(services, r.ref)
               /\ IdOf(services, r.ref) \notin Rows(services) \ Live(services)
    <3> HIDE DEF r
    <3>1. CASE services[i].conn = Orphan
      BY <2>2, <3>1, IdsArePositive DEF IdOf, Rows
    <3>2. CASE services[i].conn \in Sources
      <4>1. i \in Live(after) /\ after[i] = services[i]
        BY <1>3, <1>4
      <4>2. IdOf(services, r.ref) = i
        BY <1>1, <2>2, <3>2, IdOfLive
      <4>3. IdOf(after, r.ref) = i
        BY <1>6, <2>2, <3>2, <4>1, IdOfLive
      <4> QED
        BY <4>2, <4>3
    <3>3. services[i] \in ServiceRow
      BY <1>1 DEF Live, Rows
    <3> QED
      BY <3>1, <3>2, <3>3 DEF ServiceRow, Sources
  <2> QED
    BY <2>1, <2>2, ResolutionIs
<1> QED
  BY <1>5, <1>7

LEMMA PurgeGoneKeeps ==
  ASSUME RoutesInv, PurgeGone
  PROVE  RoutesInv'
<1> DEFINE gone(t) == Rows(t) \ Live(t)
           drop(t) == [i \in Ids |-> IF i \in gone(t) THEN None ELSE t[i]]
<1>1. /\ services' = drop(services) /\ certs' = drop(certs) /\ mu = None
      /\ routes' = SetNull(drop(routes), gone(services), gone(certs))
      /\ UNCHANGED <<scan, mu, plan, stale, unlinked>>
  BY DEF PurgeGone
<1>2. /\ services \in [Ids -> {None} \cup ServiceRow] /\ certs \in [Ids -> {None} \cup CertRow]
      /\ routes \in [Ids -> {None} \cup RouteRow]
  BY DEF RoutesInv, TypeOK
<1>3. \A t : /\ Live(drop(t)) = Live(t) /\ Rows(drop(t)) = Live(t)
             /\ \A i \in Live(t) : drop(t)[i] = t[i]
  BY DEF Live, Rows
<1>4. /\ services' \in [Ids -> {None} \cup ServiceRow] /\ certs' \in [Ids -> {None} \cup CertRow]
      /\ drop(routes) \in [Ids -> {None} \cup RouteRow]
  BY <1>1, <1>2
<1>5. \A i \in Ids :
        LET old == drop(routes)[i] IN
        /\ routes'[i] \in {None} \cup RouteRow
        /\ routes'[i] # None <=> old # None
        /\ old # None =>
             /\ routes'[i].conn = old.conn /\ routes'[i].domain = old.domain
             /\ routes'[i].gone = old.gone
             /\ routes'[i].upstream = old.upstream /\ routes'[i].status = old.status
             /\ routes'[i].service = IF old.service \in gone(services) THEN 0 ELSE old.service
             /\ routes'[i].cert = IF old.cert \in gone(certs) THEN 0 ELSE old.cert
  <2> SUFFICES ASSUME NEW i \in Ids
               PROVE  LET old == drop(routes)[i] IN
                      /\ routes'[i] \in {None} \cup RouteRow
                      /\ routes'[i] # None <=> old # None
                      /\ old # None =>
                           /\ routes'[i].conn = old.conn /\ routes'[i].domain = old.domain
                           /\ routes'[i].gone = old.gone
                           /\ routes'[i].upstream = old.upstream /\ routes'[i].status = old.status
                           /\ routes'[i].service =
                                IF old.service \in gone(services) THEN 0 ELSE old.service
                           /\ routes'[i].cert = IF old.cert \in gone(certs) THEN 0 ELSE old.cert
    OBVIOUS
  <2> HIDE DEF drop, gone
  <2>1. drop(routes)[i] \in {None} \cup RouteRow
    BY <1>4
  <2> QED
    BY <1>1, <2>1, SetNullRow
<1>6. routes' = [i \in Ids |-> routes'[i]]
  BY <1>1 DEF SetNull
<1> HIDE DEF drop
<1>7. \A i \in Ids :
        /\ routes'[i] # None <=> i \in Live(routes)
        /\ i \in Live(routes) =>
             /\ routes'[i].conn = routes[i].conn /\ routes'[i].domain = routes[i].domain
             /\ ~routes'[i].gone
             /\ routes'[i].upstream = routes[i].upstream /\ routes'[i].status = routes[i].status
             /\ routes'[i].service =
                  IF routes[i].service \in gone(services) THEN 0 ELSE routes[i].service
             /\ routes'[i].cert = IF routes[i].cert \in gone(certs) THEN 0 ELSE routes[i].cert
  <2>1. \A i \in Ids : drop(routes)[i] # None <=> i \in Live(routes)
    BY <1>3 DEF Rows
  <2> QED
    BY <1>3, <1>5, <2>1 DEF Live
<1>8. Rows(routes') = Live(routes) /\ Live(routes') = Live(routes)
  BY <1>7 DEF Live, Rows
<1>9. Rows(services') = Live(services) /\ Rows(certs') = Live(certs) /\ Live(certs') = Live(certs)
  BY <1>1, <1>3
<1>10. \A i \in Live(routes) : /\ i \in Ids /\ i \in Rows(routes)
                               /\ routes[i].service \in {0} \cup Rows(services)
                               /\ routes[i].cert \in {0} \cup Rows(certs)
  BY DEF RoutesInv, TypeOK, Live, Rows
<1>11. TypeOK'
  <2>1. routes' \in [Ids -> {None} \cup RouteRow]
    BY <1>5, <1>6
  <2>2. \A i \in Rows(routes') : /\ routes'[i].service \in {0} \cup Rows(services')
                                 /\ routes'[i].cert \in {0} \cup Rows(certs')
    BY <1>7, <1>8, <1>9, <1>10
  <2> QED
    BY <1>1, <1>4, <2>1, <2>2 DEF RoutesInv, TypeOK
<1>12. LinksCover' /\ LinksAreUnique'
  <2>1. \A i \in Live(certs) : certs'[i] = certs[i]
    BY <1>1, <1>3
  <2>2. \A i \in Live(routes) : routes[i].cert # 0 => routes[i].cert \in Live(certs)
    BY <1>10 DEF RoutesInv, LinksCover, Live
  <2>3. \A i \in Live(routes) : routes'[i].cert = routes[i].cert /\ routes'[i].domain = routes[i].domain
    BY <1>7, <1>10, <2>2
  <2>4. LinksCover'
    BY <1>8, <2>1, <2>2, <2>3 DEF RoutesInv, LinksCover
  <2>5. \A domain : CertOf(certs', domain) = CertOf(certs, domain)
    BY <1>9, <2>1, CertOfStays
  <2>6. LinksAreUnique'
    BY <1>1, <1>8, <2>3, <2>5 DEF RoutesInv, LinksAreUnique
  <2> QED
    BY <2>4, <2>6
<1>13. ServicesKeyed(services') /\ RoutesKeyed(routes')
  <2>1. \A i \in Live(services) : services'[i] = services[i]
    BY <1>1, <1>3
  <2>2. ServicesKeyed(services')
    BY <1>9, <2>1 DEF RoutesInv, ServicesKeyed, Live
  <2>3. RoutesKeyed(routes')
    BY <1>7, <1>8, <1>10 DEF RoutesInv, RoutesKeyed
  <2> QED
    BY <2>2, <2>3
<1>14. ScansKnown' /\ PlanSettles'
  BY <1>1 DEF RoutesInv, ScansKnown, PlanSettles
<1>15. RoutesAreResolved'
  <2> SUFFICES ASSUME Settled, NEW i \in Live(routes') PROVE Resolved(i)'
    BY <1>1 DEF RoutesAreResolved, Settled, Resolved
  <2> DEFINE r == Resolution(services, routes[i].upstream)
  <2>1. i \in Live(routes) /\ i \in Ids
    BY <1>8, <1>10
  <2>2. routes[i].status = r.status /\ routes[i].service = IdOf(services, r.ref)
    BY <2>1 DEF RoutesInv, RoutesAreResolved
  <2>3. /\ Resolution(services', routes[i].upstream) = r
        /\ IdOf(services', r.ref) = IdOf(services, r.ref)
        /\ IdOf(services, r.ref) \notin gone(services)
    BY <1>1, <1>4, PurgeResolves DEF drop
  <2>4. /\ routes'[i].upstream = routes[i].upstream /\ routes'[i].status = routes[i].status
        /\ routes'[i].service = routes[i].service
    BY <1>7, <2>1, <2>2, <2>3
  <2> QED
    BY <2>2, <2>3, <2>4 DEF Resolved
<1> QED
  BY <1>11, <1>12, <1>13, <1>14, <1>15 DEF RoutesInv

LEMMA DeleteSourceKeeps ==
  ASSUME RoutesInv, NEW s \in Sources, DeleteSource(s)
  PROVE  RoutesInv'
<1> DEFINE orphan(t) ==
             [i \in Ids |-> IF i \in Of(t, s) THEN [t[i] EXCEPT !.conn = Orphan] ELSE t[i]]
<1>1. /\ services' = orphan(services) /\ certs' = orphan(certs)
      /\ routes' = [i \in Ids |-> IF i \in Of(routes, s) THEN None ELSE routes[i]]
      /\ stale' = TRUE
      /\ UNCHANGED <<mu, plan, unlinked>>
      /\ scan' = [scan EXCEPT ![s] =
           IF scan[s].at = "read" /\ DOMAIN scan[s].items # {} THEN Idle ELSE scan[s]]
  BY DEF DeleteSource
<1>2. /\ services \in [Ids -> {None} \cup ServiceRow] /\ certs \in [Ids -> {None} \cup CertRow]
      /\ routes \in [Ids -> {None} \cup RouteRow]
  BY DEF RoutesInv, TypeOK
<1>3. \A i \in Ids :
        /\ services'[i] \in {None} \cup ServiceRow
        /\ services'[i] # None <=> services[i] # None
        /\ services[i] # None =>
             /\ services'[i].name = services[i].name
             /\ services'[i].conn = services[i].conn \/ services'[i].conn = Orphan
  BY <1>1, <1>2, NoRow DEF Of, Rows, ServiceRow
<1>4. \A i \in Ids :
        /\ certs'[i] \in {None} \cup CertRow
        /\ certs'[i] # None <=> certs[i] # None
        /\ certs[i] # None => certs'[i].domain = certs[i].domain /\ certs'[i].gone = certs[i].gone
  BY <1>1, <1>2, NoRow DEF Of, Rows, CertRow
<1>5. \A i \in Ids : routes'[i] = None \/ routes'[i] = routes[i]
  BY <1>1
<1>6. /\ services' \in [Ids -> {None} \cup ServiceRow] /\ certs' \in [Ids -> {None} \cup CertRow]
      /\ routes' \in [Ids -> {None} \cup RouteRow]
  <2>1. services' = [i \in Ids |-> services'[i]] /\ certs' = [i \in Ids |-> certs'[i]]
    BY <1>1
  <2> QED
    BY <1>1, <1>2, <1>3, <1>4, <2>1
<1>7. /\ Rows(services') = Rows(services) /\ Rows(certs') = Rows(certs)
      /\ Live(certs') = Live(certs)
  BY <1>3, <1>4 DEF Rows, Live
<1>8. /\ Rows(routes') \subseteq Rows(routes) /\ Live(routes') \subseteq Live(routes)
      /\ \A i \in Rows(routes') : routes'[i] = routes[i]
  BY <1>5 DEF Rows, Live
<1>9. TypeOK'
  <2>1. \A i \in Rows(routes') : /\ routes'[i].service \in {0} \cup Rows(services')
                                 /\ routes'[i].cert \in {0} \cup Rows(certs')
    BY <1>7, <1>8 DEF RoutesInv, TypeOK
  <2> QED
    BY <1>1, <1>6, <2>1 DEF RoutesInv, TypeOK
<1>10. LinksCover' /\ LinksAreUnique'
  <2>1. \A i \in Live(routes') : i \in Live(routes) /\ routes'[i] = routes[i] /\ i \in Rows(routes)
    BY <1>8 DEF Live
  <2>2. \A i \in Rows(certs) : certs'[i].domain = certs[i].domain /\ certs'[i].gone = certs[i].gone
    BY <1>4 DEF Rows
  <2>3. LinksCover'
    BY <2>1, <2>2 DEF RoutesInv, TypeOK, LinksCover
  <2>4. \A domain : CertOf(certs', domain) = CertOf(certs, domain)
    BY <1>7, <2>2, CertOfStays DEF Live
  <2>5. LinksAreUnique'
    BY <1>1, <2>1, <2>4 DEF RoutesInv, LinksAreUnique
  <2> QED
    BY <2>3, <2>5
<1>11. ServicesKeyed(services') /\ RoutesKeyed(routes')
  <2>1. ServicesKeyed(services')
    BY <1>3, <1>7, OwnersDiffer DEF RoutesInv, ServicesKeyed, Rows
  <2>2. RoutesKeyed(routes')
    BY <1>8 DEF RoutesInv, RoutesKeyed
  <2> QED
    BY <2>1, <2>2
<1>12. ScansKnown'
  <2>1. DOMAIN scan = Sources
    BY DEF RoutesInv, ScansKnown
  <2>2. /\ DOMAIN scan' = Sources
        /\ \A t \in Sources : scan'[t] = scan[t] \/ (t = s /\ scan[s].at = "read" /\ scan'[t] = Idle)
    BY <1>1, <2>1
  <2>3. Idle.at = "idle" /\ DOMAIN Idle = {"at", "items"}
    BY DEF Idle
  <2>4. mu # None => mu \in Sources
    BY DEF RoutesInv, TypeOK
  <2>5. mu' # None => scan'[mu'].at = "applied"
    BY <1>1, <2>2, <2>4 DEF RoutesInv, ScansKnown
  <2>6. \A t \in Sources : DOMAIN scan'[t] = {"at", "items"}
    BY <2>2, <2>3 DEF RoutesInv, ScansKnown
  <2>7. \A t \in Sources : scan'[t].at = "read" => scan'[t] = scan[t]
    BY <2>2, <2>3
  <2> QED
    BY <1>1, <2>2, <2>5, <2>6, <2>7 DEF RoutesInv, ScansKnown
<1>13. PlanSettles' /\ RoutesAreResolved'
  BY <1>1 DEF RoutesInv, PlanSettles, RoutesAreResolved, Settled
<1> QED
  BY <1>9, <1>10, <1>11, <1>12, <1>13 DEF RoutesInv

LEMMA CreateRouteKeeps ==
  ASSUME RoutesInv, NEW domain \in Domains, NEW upstream \in Names, CreateRoute(domain, upstream)
  PROVE  RoutesInv'
<1> DEFINE new == [conn |-> Manual, domain |-> domain, upstream |-> upstream,
                   service |-> 0, status |-> "broken", gone |-> FALSE, cert |-> 0]
<1>1. PICK k \in NextIds(routes) : routes' = [routes EXCEPT ![k] = new]
  BY DEF CreateRoute
<1>2. stale' = TRUE /\ unlinked' = TRUE /\ UNCHANGED <<services, certs, scan, mu, plan>>
  BY DEF CreateRoute
<1>3. k \in Ids
  BY DEF NextIds, Unused
<1>4. new \in RouteRow /\ new.service = 0 /\ new.cert = 0 /\ new.conn = Manual /\ new # None
  <2>1. new \in RouteRow
    BY DEF RouteRow
  <2> QED
    BY <2>1, NoRow
<1> HIDE DEF new
<1>5. routes \in [Ids -> {None} \cup RouteRow]
  BY DEF RoutesInv, TypeOK
<1>6. /\ routes' \in [Ids -> {None} \cup RouteRow] /\ routes'[k] = new
      /\ \A i \in Ids \ {k} : routes'[i] = routes[i]
  BY <1>1, <1>3, <1>4, <1>5
<1>7. TypeOK'
  <2>1. \A i \in Rows(routes') : /\ routes'[i].service \in {0} \cup Rows(services)
                                 /\ routes'[i].cert \in {0} \cup Rows(certs)
    BY <1>4, <1>6 DEF RoutesInv, TypeOK, Rows
  <2> QED
    BY <1>2, <1>6, <2>1 DEF RoutesInv, TypeOK
<1>8. LinksCover' /\ LinksAreUnique'
  BY <1>2, <1>4, <1>6 DEF RoutesInv, LinksCover, LinksAreUnique, Live, Rows
<1>9. ServicesKeyed(services') /\ RoutesKeyed(routes')
  <2>1. RoutesKeyed(routes')
    BY <1>4, <1>6, OwnersDiffer DEF RoutesInv, RoutesKeyed, Rows
  <2> QED
    BY <1>2, <2>1 DEF RoutesInv
<1>10. ScansKnown' /\ PlanSettles' /\ RoutesAreResolved'
  BY <1>2 DEF RoutesInv, ScansKnown, PlanSettles, RoutesAreResolved, Settled
<1> QED
  BY <1>7, <1>8, <1>9, <1>10 DEF RoutesInv

LEMMA DeleteRouteKeeps ==
  ASSUME RoutesInv, NEW k \in Ids, DeleteRoute(k)
  PROVE  RoutesInv'
<1>1. /\ routes' = [routes EXCEPT ![k] = None]
      /\ UNCHANGED <<services, certs, scan, mu, plan, stale, unlinked>>
  BY DEF DeleteRoute
<1>2. routes \in [Ids -> {None} \cup RouteRow]
  BY DEF RoutesInv, TypeOK
<1>3. /\ routes' \in [Ids -> {None} \cup RouteRow]
      /\ Rows(routes') \subseteq Rows(routes) /\ Live(routes') \subseteq Live(routes)
      /\ \A i \in Rows(routes') : routes'[i] = routes[i]
  BY <1>1, <1>2 DEF Rows, Live
<1>4. Live(routes') \subseteq Rows(routes')
  BY DEF Live
<1>5. TypeOK'
  BY <1>1, <1>3 DEF RoutesInv, TypeOK
<1>6. LinksCover' /\ LinksAreUnique'
  BY <1>1, <1>3, <1>4 DEF RoutesInv, LinksCover, LinksAreUnique
<1>7. ServicesKeyed(services') /\ RoutesKeyed(routes')
  BY <1>1, <1>3, ZenonT(60) DEF RoutesInv, RoutesKeyed
<1>8. ScansKnown'
  BY <1>1 DEF RoutesInv, ScansKnown
<1>9. \A i \in Live(routes') : Resolved(i)' <=> Resolved(i)
  BY <1>1, <1>3, <1>4 DEF Resolved
<1>10. PlanSettles'
  <2>1. \A x \in plan : x.id \in Rows(routes') => (Agrees(x)' <=> Agrees(x))
    BY <1>1, <1>3 DEF Agrees
  <2> QED
    BY <1>1, <1>3, <1>9, <2>1 DEF RoutesInv, PlanSettles
<1>11. RoutesAreResolved'
  BY <1>1, <1>3, <1>9 DEF RoutesInv, RoutesAreResolved, Settled, Resolved
<1> QED
  BY <1>5, <1>6, <1>7, <1>8, <1>10, <1>11 DEF RoutesInv

LEMMA CreateCertKeeps ==
  ASSUME RoutesInv, NEW domain \in Domains, CreateCert(domain)
  PROVE  RoutesInv'
<1> DEFINE new == [conn |-> Manual, domain |-> domain, gone |-> FALSE]
<1>1. PICK k \in NextIds(certs) : certs' = [certs EXCEPT ![k] = new]
  BY DEF CreateCert
<1>2. unlinked' = TRUE /\ UNCHANGED <<services, routes, scan, mu, plan, stale>>
  BY DEF CreateCert
<1>3. k \in Ids /\ k \notin Rows(certs)
  <2>1. k \in Nat /\ \A j \in Rows(certs) : j < k
    BY IdsArePositive DEF NextIds, Unused
  <2>2. k \in Rows(certs) => k < k
    BY <2>1
  <2> QED
    BY <2>1, <2>2 DEF NextIds, Unused
<1>4. new \in CertRow
  BY DEF CertRow
<1> HIDE DEF new
<1>5. /\ certs' \in [Ids -> {None} \cup CertRow] /\ Rows(certs) \subseteq Rows(certs')
      /\ \A i \in Rows(certs) : certs'[i] = certs[i]
  BY <1>1, <1>3, <1>4, NoRow DEF RoutesInv, TypeOK, Rows
<1>6. TypeOK'
  BY <1>2, <1>5 DEF RoutesInv, TypeOK
<1>7. LinksCover' /\ LinksAreUnique'
  BY <1>2, <1>5 DEF RoutesInv, TypeOK, LinksCover, LinksAreUnique, Live
<1>8. ServicesKeyed(services') /\ RoutesKeyed(routes')
  BY <1>2 DEF RoutesInv
<1>9. ScansKnown' /\ PlanSettles' /\ RoutesAreResolved'
  BY <1>2 DEF RoutesInv, ScansKnown, PlanSettles, Agrees, Resolved, RoutesAreResolved, Settled
<1> QED
  BY <1>6, <1>7, <1>8, <1>9 DEF RoutesInv

LEMMA DeleteCertKeeps ==
  ASSUME RoutesInv, NEW k \in Ids, DeleteCert(k)
  PROVE  RoutesInv'
<1>1. /\ certs' = [certs EXCEPT ![k] = None] /\ routes' = SetNull(routes, {}, {k})
      /\ unlinked' = TRUE
      /\ UNCHANGED <<services, scan, mu, plan, stale>>
  BY DEF DeleteCert
<1>2. certs \in [Ids -> {None} \cup CertRow] /\ routes \in [Ids -> {None} \cup RouteRow]
  BY DEF RoutesInv, TypeOK
<1>3. /\ certs' \in [Ids -> {None} \cup CertRow] /\ Rows(certs') = Rows(certs) \ {k}
      /\ \A i \in Ids \ {k} : certs'[i] = certs[i]
  BY <1>1, <1>2 DEF Rows
<1>4. \A i \in Ids :
        /\ routes'[i] \in {None} \cup RouteRow
        /\ routes'[i] # None <=> routes[i] # None
        /\ routes[i] # None =>
             /\ routes'[i].conn = routes[i].conn /\ routes'[i].domain = routes[i].domain
             /\ routes'[i].gone = routes[i].gone /\ routes'[i].upstream = routes[i].upstream
             /\ routes'[i].status = routes[i].status /\ routes'[i].service = routes[i].service
             /\ routes'[i].cert = IF routes[i].cert = k THEN 0 ELSE routes[i].cert
  BY <1>1, <1>2, SetNullRow
<1>5. routes' \in [Ids -> {None} \cup RouteRow]
  <2>1. routes' = [i \in Ids |-> routes'[i]]
    BY <1>1 DEF SetNull
  <2> QED
    BY <1>4, <2>1
<1>6. Rows(routes') = Rows(routes) /\ Live(routes') = Live(routes)
  BY <1>4 DEF Rows, Live
<1>7. \A i \in Rows(routes) : /\ routes'[i].conn = routes[i].conn
                              /\ routes'[i].domain = routes[i].domain
                              /\ routes'[i].upstream = routes[i].upstream
                              /\ routes'[i].status = routes[i].status
                              /\ routes'[i].service = routes[i].service
                              /\ routes'[i].cert = IF routes[i].cert = k THEN 0 ELSE routes[i].cert
  BY <1>4 DEF Rows
<1>8. Live(routes) \subseteq Rows(routes)
  BY DEF Live
<1>9. TypeOK'
  <2>1. \A i \in Rows(routes') : /\ routes'[i].service \in {0} \cup Rows(services)
                                 /\ routes'[i].cert \in {0} \cup Rows(certs')
    BY <1>3, <1>6, <1>7 DEF RoutesInv, TypeOK
  <2> QED
    BY <1>1, <1>3, <1>5, <2>1 DEF RoutesInv, TypeOK
<1>10. LinksCover' /\ LinksAreUnique'
  <2> SUFFICES ASSUME NEW i \in Live(routes'), routes'[i].cert # 0
               PROVE  LET c == certs'[routes'[i].cert] IN ~c.gone /\ c.domain = routes'[i].domain
    BY <1>1 DEF LinksCover, LinksAreUnique
  <2>1. i \in Live(routes) /\ i \in Rows(routes)
    BY <1>6, <1>8
  <2>2. /\ routes[i].cert # 0 /\ routes[i].cert # k /\ routes'[i].cert = routes[i].cert
        /\ routes'[i].domain = routes[i].domain
    BY <1>7, <2>1
  <2>3. routes[i].cert \in Ids \ {k}
    BY <2>1, <2>2 DEF RoutesInv, TypeOK, Rows
  <2> QED
    BY <1>3, <2>1, <2>2, <2>3 DEF RoutesInv, LinksCover
<1>11. ServicesKeyed(services') /\ RoutesKeyed(routes')
  <2>1. RoutesKeyed(routes')
    BY <1>6, <1>7 DEF RoutesInv, RoutesKeyed
  <2> QED
    BY <1>1, <2>1 DEF RoutesInv
<1>12. ScansKnown'
  BY <1>1 DEF RoutesInv, ScansKnown
<1>13. \A i \in Rows(routes) : Resolved(i)' <=> Resolved(i)
  BY <1>1, <1>7 DEF Resolved
<1>14. PlanSettles'
  <2>1. \A x \in plan : x.id \in Rows(routes) => (Agrees(x)' <=> Agrees(x))
    BY <1>1, <1>7 DEF Agrees
  <2> QED
    BY <1>1, <1>6, <1>8, <1>13, <2>1 DEF RoutesInv, PlanSettles
<1>15. RoutesAreResolved'
  BY <1>1, <1>6, <1>8, <1>13 DEF RoutesInv, RoutesAreResolved, Settled, Resolved
<1> QED
  BY <1>9, <1>10, <1>11, <1>12, <1>14, <1>15 DEF RoutesInv

LEMMA RoutesInvStep == RoutesInv /\ [Next]_vars => RoutesInv'
<1> SUFFICES ASSUME RoutesInv, [Next]_vars PROVE RoutesInv'
  OBVIOUS
<1>1. ASSUME NEW p \in Proxies, ApplyRoutes(p) \/ \E found \in Reports : ReadProxy(p, found)
      PROVE  RoutesInv'
  BY <1>1, ApplyRoutesKeeps, ReadProxyKeeps
<1>2. ASSUME NEW d \in Dockers, NEW names \in SUBSET Names, ApplyServices(d, names)
      PROVE  RoutesInv'
  BY <1>2, ApplyServicesKeeps
<1>3. ASSUME NEW s \in Sources, ReconcileLoad(s) \/ Abandon(s)
      PROVE  RoutesInv'
  BY <1>3, ReconcileLoadKeeps, AbandonKeeps
<1>4. ASSUME NEW x \in plan, ReconcileWrite(x)
      PROVE  RoutesInv'
  BY <1>4, ReconcileWriteKeeps
<1>5. ASSUME ReconcileDone \/ PurgeGone
      PROVE  RoutesInv'
  BY <1>5, ReconcileDoneKeeps, PurgeGoneKeeps
<1>6. ASSUME Requests
      PROVE  RoutesInv'
  BY <1>6, DeleteSourceKeeps, CreateCertKeeps, CreateRouteKeeps, DeleteRouteKeeps, DeleteCertKeeps
     DEF Requests
<1>7. CASE UNCHANGED vars
  <2>1. UNCHANGED <<services, routes, certs, scan, mu, plan, stale, unlinked>>
    BY <1>7 DEF vars
  <2>2. ScansKnown'
    BY <2>1 DEF RoutesInv, ScansKnown
  <2>3. Settled' => Settled
    BY <2>1 DEF Settled
  <2> QED
    BY <2>1, <2>2, <2>3, TablesStay DEF RoutesInv, TypeOK
<1> QED
  BY <1>1, <1>2, <1>3, <1>4, <1>5, <1>6, <1>7 DEF Next

LEMMA PartsMoveRows == PartsSpec => Init /\ [][Next]_vars
<1>1. PartsInit => Init
  BY DEF PartsInit
<1>2. [PartsNext]_Parts => [Next]_vars
  <2> SUFFICES ASSUME [PartsNext]_Parts, ~UNCHANGED vars PROVE Next
    OBVIOUS
  <2> QED
    BY DEF PartsNext, Parts
<1> QED
  BY <1>1, <1>2, PTL DEF PartsSpec, Parts

LEMMA RoutesInvHolds == PartsSpec => []RoutesInv
  BY RoutesInvInit, RoutesInvStep, PartsMoveRows, PTL

-----------------------------------------------------------------------------

\* ReconcileStore, purgeGone, the requests (RoutesAreResolved): when every scan that applied
\* has resolved the routes and no request came since, each active route says what the
\* inventory says, however the statements of a reconciliation met requests.
THEOREM RoutesStayResolved == PartsSpec => []RoutesAreResolved
<1>1. RoutesInv => RoutesAreResolved
  BY DEF RoutesInv
<1> QED
  BY <1>1, RoutesInvHolds, PTL

\* linkRouteCerts, the foreign keys (LinksAreSound): no route names a row that is not there,
\* and an active one is linked to an active certificate of its domain, or to none.
THEOREM LinksStaySound == PartsSpec => []LinksAreSound
<1>1. RoutesInv => LinksAreSound
  BY DEF RoutesInv, LinksAreSound
<1> QED
  BY <1>1, RoutesInvHolds, PTL

\* applyRoutes (RescanIsSilent): a scan that reads what is filed and resolved already adds
\* nothing to the change feed.
THEOREM RescansAreSilent == PartsSpec => RescanIsSilent
<1> DEFINE Silent ==
             \A p \in Proxies : ApplyRoutes(p) /\ Settled =>
               \A d \in DOMAIN scan[p].items, i \in news' :
                 LET x == scan[p].items[d] IN
                 ~(routes[i] # None /\ routes[i].conn = p /\ routes[i].domain = d /\ ~routes[i].gone
                     /\ routes[i].upstream = x.upstream
                     /\ x.status = Resolution(services, x.upstream).status)
<1>1. RoutesInv /\ [Next]_vars => [Silent]_vars
  <2> SUFFICES ASSUME RoutesInv, NEW p \in Proxies, ApplyRoutes(p), Settled,
                      NEW d \in DOMAIN scan[p].items, NEW i \in news',
                      routes[i] # None, routes[i].conn = p, routes[i].domain = d, ~routes[i].gone,
                      routes[i].upstream = scan[p].items[d].upstream,
                      scan[p].items[d].status =
                        Resolution(services, scan[p].items[d].upstream).status
               PROVE  FALSE
    OBVIOUS
  <2> DEFINE items == scan[p].items
             x == items[d]
             old == [k \in DOMAIN items |-> {j \in Of(routes, p) : routes[j].domain = k}]
  <2>1. PICK at \in RoutePlacements(p, items) : news' = RouteNews(routes, RoutesAfter(p, items, at))
    BY DEF ApplyRoutes
  <2> DEFINE filed == RoutesAfter(p, items, at)
  <2>2. i \in Ids /\ i \in Rows(routes) /\ i \in Live(routes) /\ i \in old[d]
    BY <2>1 DEF RouteNews, Rows, Live, Of
  <2>3. at \in Placements(routes, old) /\ DOMAIN old = DOMAIN items
    BY DEF RoutePlacements
  <2>4. at[d] \in old[d] /\ at[d] \in Range(at) /\ KeyAt(at, at[d]) = d
    BY <2>2, <2>3, Placed
  <2>5. at[d] = i
    <3>1. at[d] \in Rows(routes) /\ routes[at[d]].conn = p /\ routes[at[d]].domain = d
      BY <2>4 DEF Of
    <3> QED
      BY <2>2, <3>1 DEF RoutesInv, RoutesKeyed, Sources
  <2>6. filed[i] = Filed(p, d, x, i)
    BY <2>2, <2>4, <2>5 DEF RoutesAfter
  <2>7. filed[i].upstream = x.upstream /\ filed[i].status = x.status /\ ~filed[i].gone
    BY <2>6 DEF Filed
  <2>8. routes[i].status = Resolution(services, routes[i].upstream).status
    BY <2>2 DEF RoutesInv, RoutesAreResolved
  <2>9. routes[i].gone = FALSE /\ filed[i].gone = FALSE
    BY <2>2, <2>6 DEF RoutesInv, TypeOK, RouteRow, Filed
  <2> HIDE DEF filed, x, items
  <2>10. <<routes[i].upstream, routes[i].status, routes[i].gone>>
           = <<filed[i].upstream, filed[i].status, filed[i].gone>>
    BY <2>7, <2>8, <2>9 DEF x, items
  <2>11. i \in RouteNews(routes, filed)
    BY <2>1 DEF filed
  <2> QED
    BY <2>10, <2>11 DEF RouteNews
<1> QED
  BY <1>1, RoutesInvHolds, PartsMoveRows, PTL DEF RescanIsSilent
-----------------------------------------------------------------------------
\* Resolve: the cascade of the code computes the definition, whatever is known.

\* A port belongs to a service that is known.
UpstreamsInv ==
  /\ DOMAIN known = ServiceSlots
  /\ \A p \in ports : \E s \in ServiceSlots : known[s] # None /\ ServiceRef[s] = p.service

LEMMA UpstreamsInvInit == R!Init => UpstreamsInv
  BY DEF R!Init, UpstreamsInv

LEMMA UpstreamsInvStep == UpstreamsInv /\ [R!Next]_(R!vars) => UpstreamsInv'
<1> SUFFICES ASSUME UpstreamsInv, [R!Next]_(R!vars) PROVE UpstreamsInv'
  OBVIOUS
<1>1. CASE R!ReportHost
  BY <1>1 DEF R!ReportHost, UpstreamsInv
<1>2. ASSUME NEW s \in ServiceSlots, NEW x \in ServiceReports, R!ReportService(s, x)
      PROVE  UpstreamsInv'
  BY <1>2, ReportsAssumption DEF R!ReportService, UpstreamsInv
<1>3. ASSUME NEW s \in ServiceSlots, R!RetireService(s)
      PROVE  UpstreamsInv'
  BY <1>3 DEF R!RetireService, UpstreamsInv
<1>4. ASSUME NEW p \in PortReports, R!OpenPort(p) \/ R!ClosePort(p), UNCHANGED <<hosts, known>>
      PROVE  UpstreamsInv'
  BY <1>4 DEF R!OpenPort, R!ClosePort, R!Known, R!Alive, UpstreamsInv
<1>5. CASE UNCHANGED R!vars
  BY <1>5 DEF R!vars, UpstreamsInv
<1> QED
  BY <1>1, <1>2, <1>3, <1>4, <1>5 DEF R!Next

LEMMA ServiceRefsAreFinite ==
  ASSUME NEW S \in SUBSET {ServiceRef[s] : s \in ServiceSlots}
  PROVE  IsFiniteSet(S)
<1> DEFINE all == {ServiceRef[s] : s \in ServiceSlots}
           ref == [s \in ServiceSlots |-> ServiceRef[s]]
<1>1. IsFiniteSet(all)
  <2>1. ref \in Surjection(ServiceSlots, all)
    BY DEF Surjection
  <2> HIDE DEF ref, all
  <2> QED
    BY <2>1, SlotsAssumption, FS_Surjection
<1> QED
  BY <1>1, FS_Subset

LEMMA OneElement ==
  ASSUME NEW S, IsFiniteSet(S)
  PROVE  R!Cardinality(S) = 1 <=> \E r \in S : S = {r}
<1>1. R!Cardinality(S) = Cardinality(S)
  BY DEF R!Cardinality, Cardinality
<1>2. Cardinality(S) = 1 <=> \E r : S = {r}
  BY FS_Singleton
<1> QED
  BY <1>1, <1>2

\* What the services that the evidence speaks for make of a route.
Outcome(S, x, high) ==
  IF \E r \in S : S = {r}
  THEN LET r == CHOOSE r \in S : TRUE IN
       R!matched(r, IF high /\ R!Answering(r, x.port) # {} THEN "high" ELSE "medium")
  ELSE R!broken

LEMMA DecideIs ==
  ASSUME NEW S \in SUBSET {ServiceRef[s] : s \in ServiceSlots}, NEW x, NEW high \in BOOLEAN
  PROVE  R!Decide(S, x, high) = Outcome(S, x, high)
<1>1. R!Cardinality(S) = 1 <=> \E r \in S : S = {r}
  BY ServiceRefsAreFinite, OneElement
<1> QED
  BY <1>1 DEF R!Decide, R!verified, Outcome

\* What the candidates are the refs of.
LEMMA CandidateRefs ==
  ASSUME NEW x
  PROVE  LET refs == {ServiceRef[s] : s \in R!Alive} IN
         /\ R!Refs(R!ipCandidates(x)) \subseteq refs /\ R!Refs(R!named(x)) \subseteq refs
         /\ \A cs : /\ R!scopeCandidates(cs, x) \subseteq cs
                    /\ R!Refs(cs) # {} <=> cs # {}
                    /\ R!Refs(R!scopeCandidates(cs, x)) =
                         {r \in R!Refs(cs) : \E c \in R!scopeCandidates(cs, x) : c.ref = r}
<1>1. \A s, n : R!Candidate(s, n).ref = ServiceRef[s]
  BY DEF R!Candidate
<1>2. R!Refs(R!ipCandidates(x)) \subseteq {ServiceRef[s] : s \in R!Alive}
  <2>1. ASSUME NEW c \in R!ipCandidates(x) PROVE \E s \in R!Alive : c.ref = ServiceRef[s]
    <3>1. \E s \in R!Alive : \E n : c = R!Candidate(s, n)
      BY DEF R!ipCandidates
    <3> QED
      BY <1>1, <3>1
  <2> QED
    BY <2>1 DEF R!Refs
<1>3. R!Refs(R!named(x)) \subseteq {ServiceRef[s] : s \in R!Alive}
  BY <1>1 DEF R!Refs, R!named
<1>4. \A cs : R!scopeCandidates(cs, x) \subseteq cs
  BY DEF R!scopeCandidates
<1>5. \A cs : R!Refs(cs) # {} <=> cs # {}
  BY DEF R!Refs
<1>6. \A cs : R!Refs(R!scopeCandidates(cs, x)) =
                {r \in R!Refs(cs) : \E c \in R!scopeCandidates(cs, x) : c.ref = r}
  BY <1>4 DEF R!Refs
<1> QED
  BY <1>2, <1>3, <1>4, <1>5, <1>6

LEMMA ReachedRefs ==
  ASSUME UpstreamsInv, NEW x
  PROVE  {p.service : p \in {q \in ports : R!Reaches(q, x)}}
           = {r \in {ServiceRef[s] : s \in R!Alive} : \E p \in R!PortsOf(r) : R!Reaches(p, x)}
<1>1. \A p \in ports : p.service \in {ServiceRef[s] : s \in R!Alive}
  BY DEF UpstreamsInv, R!Alive
<1> QED
  BY <1>1 DEF R!PortsOf

\* The strongest evidence, and what of it is in scope.
KnownRefs == {ServiceRef[s] : s \in R!Alive}
Best(x) ==
  {r \in KnownRefs : /\ R!Evidence(r, x) > 0
                     /\ \A q \in KnownRefs : R!Evidence(q, x) <= R!Evidence(r, x)}
InScope(x, level) ==
  {r \in Best(x) : level = 1
     \/ \E c \in R!scopeCandidates(IF level = 3 THEN R!ipCandidates(x) ELSE R!named(x), x) :
          c.ref = r}

LEMMA DefinitionIs ==
  ASSUME NEW x, NEW level \in 1..3,
         \A r \in Best(x) : R!Evidence(r, x) = level
  PROVE  R!Definition(x) = Outcome(InScope(x, level), x, level > 1)
<1> DEFINE in == InScope(x, level)
<1>1. in = {r \in Best(x) : R!Evidence(r, x) = 1
              \/ \E c \in R!scopeCandidates(IF R!Evidence(r, x) = 3 THEN R!ipCandidates(x)
                                            ELSE R!named(x), x) : c.ref = r}
  BY DEF InScope
<1>2. ASSUME NEW r \in in, in = {r}
      PROVE  R!Evidence(CHOOSE q \in in : TRUE, x) = level
  <2>1. (CHOOSE q \in in : TRUE) = r /\ r \in Best(x)
    BY <1>2 DEF InScope
  <2> QED
    BY <2>1
<1> HIDE DEF in
<1>3. R!Definition(x) =
        IF \E r \in in : in = {r}
        THEN LET r == CHOOSE r \in in : TRUE IN
             R!matched(r, IF R!Evidence(r, x) > 1 /\ R!Answering(r, x.port) # {}
                          THEN "high" ELSE "medium")
        ELSE R!broken
  BY <1>1 DEF R!Definition, Best, KnownRefs
<1>4. R!Definition(x) = Outcome(in, x, level > 1)
  BY <1>2, <1>3 DEF Outcome
<1> QED
  BY <1>4 DEF in

LEMMA EvidenceIs ==
  ASSUME NEW r, NEW x
  PROVE  R!Evidence(r, x) =
           IF r \in R!Refs(R!ipCandidates(x)) THEN 3
           ELSE IF r \in R!Refs(R!named(x)) THEN 2
           ELSE IF \E p \in R!PortsOf(r) : R!Reaches(p, x) THEN 1 ELSE 0
<1>1. R!Refs(R!named(x) \cup R!ipCandidates(x))
        = R!Refs(R!named(x)) \cup R!Refs(R!ipCandidates(x))
  BY DEF R!Refs
<1> QED
  BY <1>1 DEF R!Evidence

LEMMA CascadeComputesDefinition ==
  ASSUME UpstreamsInv, NEW x
  PROVE  R!resolve(x) = R!Definition(x)
<1> DEFINE ip == R!Refs(R!ipCandidates(x))
           nm == R!Refs(R!named(x))
           reached == {p.service : p \in {q \in ports : R!Reaches(q, x)}}
<1>1. ip \subseteq KnownRefs /\ nm \subseteq KnownRefs
  BY CandidateRefs DEF KnownRefs
<1>2. reached = {r \in KnownRefs : \E p \in R!PortsOf(r) : R!Reaches(p, x)}
  BY ReachedRefs DEF KnownRefs
<1>3. \A r : R!Evidence(r, x) = IF r \in ip THEN 3 ELSE IF r \in nm THEN 2
                                ELSE IF \E p \in R!PortsOf(r) : R!Reaches(p, x) THEN 1 ELSE 0
  BY EvidenceIs
<1>4. KnownRefs \subseteq {ServiceRef[s] : s \in ServiceSlots}
  BY DEF KnownRefs, R!Alive
<1>5. CASE R!ipCandidates(x) # {}
  <2> DEFINE in == R!Refs(R!scopeCandidates(R!ipCandidates(x), x))
  <2>1. ip # {} /\ in = {r \in ip : \E c \in R!scopeCandidates(R!ipCandidates(x), x) : c.ref = r}
    BY <1>5, CandidateRefs
  <2>2. R!resolve(x) = R!Decide(in, x, TRUE)
    BY <1>5 DEF R!resolve
  <2> HIDE DEF ip, nm, in
  <2>3. Best(x) = ip /\ \A r \in Best(x) : R!Evidence(r, x) = 3
    BY <1>1, <1>3, <2>1 DEF Best
  <2>4. InScope(x, 3) = in
    BY <2>1, <2>3 DEF InScope
  <2>5. in \in SUBSET {ServiceRef[s] : s \in ServiceSlots}
    BY <1>1, <1>4, <2>1
  <2>6. R!Definition(x) = Outcome(in, x, TRUE)
    <3>1. R!Definition(x) = Outcome(in, x, 3 > 1)
      BY <2>3, <2>4, DefinitionIs
    <3> QED
      BY <3>1 DEF Outcome
  <2> QED
    BY <2>2, <2>5, <2>6, DecideIs
<1>6. CASE R!ipCandidates(x) = {} /\ R!named(x) # {}
  <2> DEFINE in == R!Refs(R!scopeCandidates(R!named(x), x))
  <2>1. /\ ip = {} /\ nm # {}
        /\ in = {r \in nm : \E c \in R!scopeCandidates(R!named(x), x) : c.ref = r}
    BY <1>6, CandidateRefs
  <2>2. R!resolve(x) = R!Decide(in, x, TRUE)
    BY <1>6 DEF R!resolve
  <2> HIDE DEF ip, nm, in
  <2>3. Best(x) = nm /\ \A r \in Best(x) : R!Evidence(r, x) = 2
    BY <1>1, <1>3, <2>1 DEF Best
  <2>4. InScope(x, 2) = in
    BY <2>1, <2>3 DEF InScope
  <2>5. in \in SUBSET {ServiceRef[s] : s \in ServiceSlots}
    BY <1>1, <1>4, <2>1
  <2>6. R!Definition(x) = Outcome(in, x, TRUE)
    <3>1. R!Definition(x) = Outcome(in, x, 2 > 1)
      BY <2>3, <2>4, DefinitionIs
    <3> QED
      BY <3>1 DEF Outcome
  <2> QED
    BY <2>2, <2>5, <2>6, DecideIs
<1>7. CASE R!ipCandidates(x) = {} /\ R!named(x) = {}
  <2>1. ip = {} /\ nm = {}
    BY <1>7, CandidateRefs
  <2>2. R!resolve(x) = R!Decide(reached, x, FALSE)
    BY <1>7 DEF R!resolve
  <2> HIDE DEF ip, nm, reached
  <2>3. Best(x) = reached /\ \A r \in Best(x) : R!Evidence(r, x) = 1
    BY <1>2, <1>3, <2>1 DEF Best
  <2>4. InScope(x, 1) = reached
    BY <2>3 DEF InScope
  <2>5. reached \in SUBSET {ServiceRef[s] : s \in ServiceSlots}
    BY <1>2, <1>4
  <2>6. R!Definition(x) = Outcome(reached, x, FALSE)
    <3>1. R!Definition(x) = Outcome(reached, x, 1 > 1)
      BY <2>3, <2>4, DefinitionIs
    <3> QED
      BY <3>1 DEF Outcome
  <2> QED
    BY <2>2, <2>5, <2>6, DecideIs
<1> QED
  BY <1>5, <1>6, <1>7

LEMMA HighAnswers ==
  ASSUME NEW S, NEW x, NEW high, R!Decide(S, x, high).confidence = "high"
  PROVE  R!Answering(R!Decide(S, x, high).service, x.port) # {}
  BY DEF R!Decide, R!verified, R!matched, R!broken

LEMMA ResolutionsAreRight == ASSUME UpstreamsInv PROVE R!ResolutionIsRight
<1>1. R!MatchesDefinition
  BY CascadeComputesDefinition DEF R!MatchesDefinition
<1>2. R!HighIsProven
  <2> SUFFICES ASSUME NEW x \in Upstreams, R!resolve(x).confidence = "high"
               PROVE  \E p \in ports : /\ p.service = R!resolve(x).service
                                       /\ x.port \in {p.container, p.number}
    BY DEF R!HighIsProven
  <2>1. \E S, high : R!resolve(x) = R!Decide(S, x, high)
    BY DEF R!resolve
  <2>2. R!Answering(R!resolve(x).service, x.port) # {}
    BY <2>1, HighAnswers
  <2> QED
    BY <2>2 DEF R!Answering, R!PortsOf
<1>3. R!LoopbackStaysHome
  <2> SUFFICES ASSUME NEW x \in Upstreams, R!Evidence(R!resolve(x).service, x) = 1
               PROVE  \E p \in R!PortsOf(R!resolve(x).service) :
                        p.number = x.port /\ (p.published \/ p.host = x.proxy)
    BY DEF R!LoopbackStaysHome
  <2>1. \E p \in R!PortsOf(R!resolve(x).service) : R!Reaches(p, x)
    BY EvidenceIs
  <2> QED
    BY <2>1 DEF R!Reaches
<1> QED
  BY <1>1, <1>2, <1>3 DEF R!ResolutionIsRight

LEMMA PartsMoveUpstreams == PartsSpec => R!Init /\ [][R!Next]_(R!vars)
<1>1. PartsInit => R!Init
  BY DEF PartsInit
<1>2. [PartsNext]_Parts => [R!Next]_(R!vars)
  <2> SUFFICES ASSUME [PartsNext]_Parts, ~UNCHANGED R!vars PROVE R!Next
    OBVIOUS
  <2> QED
    BY DEF PartsNext, Parts, inventory, R!vars
<1> QED
  BY <1>1, <1>2, PTL DEF PartsSpec, Parts

\* resolve.Routes (ResolutionIsRight): the cascade of the code computes the documented
\* definition for every upstream, a high confidence is proven by a port, and a listener on
\* loopback is reached from its own host only.
THEOREM ResolutionsStayRight == PartsSpec => []ResolutionIsRight
<1>1. UpstreamsInv => ResolutionIsRight
  BY ResolutionsAreRight DEF ResolutionIsRight
<1> QED
  BY <1>1, UpstreamsInvInit, UpstreamsInvStep, PartsMoveUpstreams, PTL

-----------------------------------------------------------------------------
\* MachineLinks: what a view is linked to.

\* A key tells the kind of its host.
MachinesInv ==
  /\ DOMAIN machines = MachineSlots
  /\ \A i, j \in M!Reported : MachineRef[i] = MachineRef[j] => machines[i].kind = machines[j].kind

LEMMA MachinesInvInit == M!Init => MachinesInv
  BY DEF M!Init, MachinesInv, M!Reported

LEMMA MachinesInvStep == MachinesInv /\ [M!Next]_machines => MachinesInv'
<1> SUFFICES ASSUME MachinesInv, [M!Next]_machines PROVE MachinesInv'
  OBVIOUS
<1>1. ASSUME NEW i \in MachineSlots, M!Retire(i) PROVE MachinesInv'
  BY <1>1 DEF M!Retire, M!Reported, MachinesInv
<1>2. ASSUME NEW i \in MachineSlots, NEW h \in MachineReports, M!Report(i, h) PROVE MachinesInv'
  <2>1. machines' = [machines EXCEPT ![i] = h]
    BY <1>2 DEF M!Report
  <2>2. machines'[i] = h /\ \A j \in MachineSlots \ {i} : machines'[j] = machines[j]
    BY <2>1 DEF MachinesInv
  <2>3. \A j \in M!Reported \ {i} : MachineRef[j] = MachineRef[i] => machines[j].kind = h.kind
    BY <1>2 DEF M!Report
  <2>4. \A j \in M!Reported' : j = i \/ (j \in M!Reported \ {i} /\ machines'[j] = machines[j])
    BY <2>2 DEF M!Reported
  <2> QED
    BY <2>1, <2>2, <2>3, <2>4 DEF MachinesInv
<1>3. CASE UNCHANGED machines
  BY <1>3 DEF M!Reported, MachinesInv
<1> QED
  BY <1>1, <1>2, <1>3 DEF M!Next

LEMMA MachineCardinality == \A S : M!Cardinality(S) = Cardinality(S)
BY DEF M!Cardinality, Cardinality

\* What a view may be is the ref of a machine, and the refs are finitely many.
LEMMA MatchesAreMachines ==
  ASSUME NEW v
  PROVE  /\ M!ByAddress(v) \subseteq {MachineRef[m] : m \in M!Machines}
         /\ M!Matches(v) \subseteq {MachineRef[m] : m \in M!Machines}
<1>1. \A texts : /\ M!AtAddress(texts) \subseteq {MachineRef[m] : m \in M!Machines}
                 /\ M!Named(texts) \subseteq {MachineRef[m] : m \in M!Machines}
  BY DEF M!AtAddress, M!Named
<1>2. /\ M!ByAddress(v) \subseteq {MachineRef[m] : m \in M!Machines}
      /\ M!ByName(v) \subseteq {MachineRef[m] : m \in M!Machines}
  BY <1>1 DEF M!ByAddress, M!ByName
<1> QED
  BY <1>2 DEF M!Matches

LEMMA MachineRefsAreFinite ==
  ASSUME NEW S \in SUBSET {MachineRef[m] : m \in M!Machines}
  PROVE  IsFiniteSet(S)
<1> DEFINE all == {MachineRef[m] : m \in MachineSlots}
           ref == [m \in MachineSlots |-> MachineRef[m]]
<1>1. IsFiniteSet(all)
  <2>1. ref \in Surjection(MachineSlots, all)
    BY DEF Surjection
  <2> HIDE DEF ref, all
  <2> QED
    BY <2>1, SlotsAssumption, FS_Surjection
<1>2. S \in SUBSET all
  BY DEF M!Machines, M!Reported
<1> HIDE DEF all
<1> QED
  BY <1>1, <1>2, FS_Subset

LEMMA OneMachine ==
  ASSUME NEW v, M!Cardinality(M!Matches(v)) = 1
  PROVE  M!Matches(v) = {CHOOSE m \in M!Matches(v) : TRUE}
<1>1. IsFiniteSet(M!Matches(v))
  BY MatchesAreMachines, MachineRefsAreFinite
<1>2. \E m : M!Matches(v) = {m}
  BY <1>1, MachineCardinality, FS_Singleton
<1>3. PICK m : M!Matches(v) = {m}
  BY <1>2
<1>4. (CHOOSE q \in M!Matches(v) : TRUE) = m
  BY <1>3
<1> QED
  BY <1>3, <1>4

LEMMA ClaimsAre ==
  /\ DOMAIN M!Claims = {v \in M!Views : M!Cardinality(M!Matches(v)) = 1}
  /\ \A v \in DOMAIN M!Claims :
       /\ v \in M!Views /\ M!Claims[v] = M!Claim(v)
       /\ M!Matches(v) = {M!Claims[v].machine}
       /\ M!Claims[v].family = M!viewFamily(machines[v].kind)
       /\ M!Claims[v].byAddress = (M!ByAddress(v) # {})
<1>1. /\ DOMAIN M!Claims = {v \in M!Views : M!Cardinality(M!Matches(v)) = 1}
      /\ \A v \in DOMAIN M!Claims : M!Claims[v] = M!Claim(v)
  BY DEF M!Claims
<1>2. \A v : /\ M!Claim(v).machine = CHOOSE m \in M!Matches(v) : TRUE
             /\ M!Claim(v).family = M!viewFamily(machines[v].kind)
             /\ M!Claim(v).byAddress = (M!ByAddress(v) # {})
  BY DEF M!Claim
<1> QED
  BY <1>1, <1>2, OneMachine

LEMMA LinksAre ==
  /\ DOMAIN M!Links = {v \in DOMAIN M!Claims :
       /\ \A w \in DOMAIN M!Claims : MachineRef[w] = MachineRef[v] => w <= v
       /\ ~M!Outdone(v, M!Claims)}
  /\ \A v \in DOMAIN M!Links : M!Links[v] = M!Claims[v].machine
  BY DEF M!Links


LEMMA OneAddress ==
  ASSUME NEW v, M!Cardinality(M!ByAddress(v)) = 1
  PROVE  M!ByAddress(v) # {} /\ M!Cardinality(M!Matches(v)) = 1
<1>1. IsFiniteSet(M!ByAddress(v))
  BY MatchesAreMachines, MachineRefsAreFinite
<1>2. \E m : M!ByAddress(v) = {m}
  BY <1>1, MachineCardinality, FS_Singleton
<1> QED
  BY <1>2 DEF M!Matches

\* Equal claims cancel each other; one by name yields to one by address.
LEMMA OneClaimHolds ==
  ASSUME NEW v \in DOMAIN M!Claims, NEW w \in DOMAIN M!Claims, v # w,
         ~M!Outdone(v, M!Claims), ~M!Outdone(w, M!Claims),
         M!Claims[v].family = M!Claims[w].family
  PROVE  M!Claims[v].machine # M!Claims[w].machine
<1>1. M!Claims[v] = M!Claim(v) /\ M!Claims[w] = M!Claim(w)
  BY ClaimsAre
<1>2. SUFFICES ASSUME M!Claims[v].machine = M!Claims[w].machine PROVE FALSE
  OBVIOUS
<1>3. M!Claims[v].byAddress \in BOOLEAN /\ M!Claims[w].byAddress \in BOOLEAN
  BY ClaimsAre
<1>4. \A a, b \in DOMAIN M!Claims :
        M!Claims[a].family = M!Claims[b].family /\ M!Claims[a].machine = M!Claims[b].machine =>
          /\ M!Claims[a].byAddress = M!Claims[b].byAddress => M!Claims[a] = M!Claims[b]
          /\ M!Claims[b].byAddress = TRUE =>
               M!Claims[b] = [M!Claims[a] EXCEPT !.byAddress = TRUE]
  <2> SUFFICES ASSUME NEW a \in DOMAIN M!Claims, NEW b \in DOMAIN M!Claims,
                      M!Claims[a].family = M!Claims[b].family,
                      M!Claims[a].machine = M!Claims[b].machine
               PROVE  /\ M!Claims[a].byAddress = M!Claims[b].byAddress =>
                           M!Claims[a] = M!Claims[b]
                      /\ M!Claims[b].byAddress = TRUE =>
                           M!Claims[b] = [M!Claims[a] EXCEPT !.byAddress = TRUE]
    OBVIOUS
  <2> DEFINE claim(f, m, by) == [family |-> f, machine |-> m, byAddress |-> by]
  <2>1. \A c \in DOMAIN M!Claims :
          M!Claims[c] = claim(M!Claims[c].family, M!Claims[c].machine, M!Claims[c].byAddress)
    BY ClaimsAre DEF M!Claim
  <2> DEFINE settled == TRUE
  <2> HIDE DEF settled
  <2>2. \A f, m, old :
          [claim(f, m, old) EXCEPT !.byAddress = settled] = claim(f, m, settled)
    OBVIOUS
  <2> HIDE DEF claim
  <2>3. M!Claims[a].byAddress = M!Claims[b].byAddress => M!Claims[a] = M!Claims[b]
    BY <2>1
  <2>4. ASSUME M!Claims[b].byAddress = TRUE
        PROVE  M!Claims[b] = [M!Claims[a] EXCEPT !.byAddress = TRUE]
    <3>1. M!Claims[b] = claim(M!Claims[a].family, M!Claims[a].machine, TRUE)
      BY <2>1, <2>4, Zenon
    <3>2. M!Claims[a]
            = claim(M!Claims[a].family, M!Claims[a].machine, M!Claims[a].byAddress)
      BY <2>1
    <3>3. [claim(M!Claims[a].family, M!Claims[a].machine, M!Claims[a].byAddress)
            EXCEPT !.byAddress = TRUE] = claim(M!Claims[a].family, M!Claims[a].machine, TRUE)
      BY <2>2, Zenon DEF settled
    <3> QED
      BY <3>1, <3>2, <3>3, Zenon
  <2> QED
    BY <2>3, <2>4, Zenon
<1>5. M!Claims[v].byAddress # M!Claims[w].byAddress
  BY <1>2, <1>4 DEF M!Outdone
<1>6. CASE M!Claims[w].byAddress = TRUE
  BY <1>2, <1>3, <1>4, <1>5, <1>6 DEF M!Outdone
<1>7. CASE M!Claims[v].byAddress = TRUE
  BY <1>2, <1>3, <1>4, <1>5, <1>7 DEF M!Outdone
<1> QED
  BY <1>3, <1>5, <1>6, <1>7

LEMMA ViewsOfAFamilyDiffer == M!OneViewPerFamily
<1> SUFFICES ASSUME NEW v \in DOMAIN M!Links
             PROVE  /\ \A w \in DOMAIN M!Links :
                         /\ M!viewFamily(machines[v].kind) = M!viewFamily(machines[w].kind)
                         /\ M!Links[v] = M!Links[w]
                         => v = w
                    /\ M!Links[v] \in {MachineRef[m] : m \in M!Machines}
  BY DEF M!OneViewPerFamily
<1>1. ASSUME NEW w \in DOMAIN M!Links,
             M!viewFamily(machines[v].kind) = M!viewFamily(machines[w].kind),
             M!Links[v] = M!Links[w]
      PROVE  v = w
  BY <1>1, LinksAre, ClaimsAre, OneClaimHolds
<1>2. M!Links[v] \in {MachineRef[m] : m \in M!Machines}
  <2>1. M!Links[v] \in M!Matches(v)
    BY LinksAre, ClaimsAre
  <2> QED
    BY <2>1, MatchesAreMachines
<1> QED
  BY <1>1, <1>2

LEMMA AddressIsLinked ==
  ASSUME MachinesInv, NEW v \in M!Views, M!Cardinality(M!ByAddress(v)) = 1,
         \A w \in M!Views \ {v} :
           M!viewFamily(machines[w].kind) = M!viewFamily(machines[v].kind)
             => M!ByAddress(v) \cap M!ByAddress(w) = {} /\ MachineRef[v] # MachineRef[w]
  PROVE  v \in DOMAIN M!Links /\ M!ByAddress(v) = {M!Links[v]}
<1>1. M!ByAddress(v) # {} /\ v \in DOMAIN M!Claims
  BY OneAddress, ClaimsAre
<1>2. M!ByAddress(v) = {M!Claims[v].machine} /\ M!Claims[v].byAddress = TRUE
  BY <1>1, ClaimsAre DEF M!Matches
<1>3. \A w \in DOMAIN M!Claims : MachineRef[w] = MachineRef[v] => w <= v
  <2> SUFFICES ASSUME NEW w \in DOMAIN M!Claims, MachineRef[w] = MachineRef[v] PROVE w = v
    <3>1. v \in Nat
      BY SlotsAssumption DEF M!Views, M!Reported
    <3> QED
      BY <3>1
  <2>1. w \in M!Views
    BY ClaimsAre
  <2>2. machines[w].kind = machines[v].kind
    BY <2>1 DEF MachinesInv, M!Views
  <2> QED
    BY <2>1, <2>2
<1>4. ~M!Outdone(v, M!Claims)
  <2> SUFFICES ASSUME NEW w \in DOMAIN M!Claims \ {v}, M!Claims[w] = M!Claims[v] PROVE FALSE
    BY <1>2 DEF M!Outdone
  <2>1. w \in M!Views \ {v} /\ M!viewFamily(machines[w].kind) = M!viewFamily(machines[v].kind)
    BY <1>1, ClaimsAre
  <2>2. M!ByAddress(w) = {M!Claims[v].machine}
    BY <1>2, ClaimsAre DEF M!Matches
  <2> QED
    BY <1>2, <2>1, <2>2
<1> QED
  BY <1>1, <1>2, <1>3, <1>4, LinksAre

LEMMA AddressesSettle == ASSUME MachinesInv PROVE M!AddressSettles
<1>1. \A v \in M!Views : [x \in M!Views |-> M!ByAddress(x)][v] = M!ByAddress(v)
  OBVIOUS
<1> QED
  BY <1>1, AddressIsLinked DEF M!AddressSettles

LEMMA DNSGoesByAddress == M!DNSByAddressOnly
<1> SUFFICES ASSUME NEW v \in DOMAIN M!Links, machines[v].kind = "dns"
             PROVE  \E m \in M!Machines :
                      M!canonicalHost(machines[m].address) = M!canonicalHost(machines[v].address)
  BY DEF M!DNSByAddressOnly
<1>1. M!viewFamily(machines[v].kind) = "dns"
  BY DEF M!viewFamily
<1>2. M!Links[v] \in M!Matches(v)
  BY LinksAre, ClaimsAre
<1>3. M!Links[v] \in M!AtAddress({M!recordAddress(machines[v].address)})
  BY <1>1, <1>2 DEF M!Matches, M!ByName, M!ByAddress
<1>4. PICK m \in M!Machines : M!canonicalHost(machines[m].address) # ""
        /\ M!canonicalHost(machines[m].address) = M!recordAddress(machines[v].address)
  BY <1>3 DEF M!AtAddress
<1>5. M!recordAddress(machines[v].address) = M!canonicalHost(machines[v].address)
  BY <1>4 DEF M!recordAddress
<1> QED
  BY <1>4, <1>5

LEMMA ProxiesAreOnMachines == ASSUME MachinesInv PROVE M!ProxyOnMachine
<1> SUFFICES ASSUME NEW i, NEW m \in M!Stands(i) PROVE m \in M!Machines
  <2>1. \A i : M!Stands(i) \subseteq M!Machines
    OBVIOUS
  <2>2. \A name : M!MachineHostIDs(name) \subseteq M!Machines
    BY <2>1 DEF M!MachineHostIDs
  <2> QED
    BY <2>2 DEF M!ProxyOnMachine
<1>1. PICK v \in DOMAIN M!Links : MachineRef[m] = M!Links[v]
  BY DEF M!Stands
<1>2. PICK x \in M!Machines : M!Links[v] = MachineRef[x]
  BY ViewsOfAFamilyDiffer DEF M!OneViewPerFamily
<1>3. machines[m].kind = machines[x].kind
  BY <1>1, <1>2 DEF MachinesInv, M!Stands, M!Machines
<1> QED
  BY <1>2, <1>3 DEF M!Machines, M!Stands

LEMMA PartsMoveMachines == PartsSpec => M!Init /\ [][M!Next]_machines
<1>1. PartsInit => M!Init
  BY DEF PartsInit
<1>2. [PartsNext]_Parts => [M!Next]_machines
  BY DEF PartsNext, Parts
<1> QED
  BY <1>1, <1>2, PTL DEF PartsSpec, Parts

\* linkMachines (LinksAreRight): in every inventory a machine is claimed by one view of a
\* family, a view alone at a machine's address is linked to it, a DNS record by its address
\* only, and a proxy stands on a machine.
THEOREM MachinesStayRight == PartsSpec => []MachinesAreRight
<1>1. MachinesInv => MachinesAreRight
  BY ViewsOfAFamilyDiffer, AddressesSettle, DNSGoesByAddress, ProxiesAreOnMachines
     DEF MachinesAreRight, M!LinksAreRight
<1> QED
  BY <1>1, MachinesInvInit, MachinesInvStep, PartsMoveMachines, PTL
-----------------------------------------------------------------------------
\* ImageUpdates: the feed and the rows.

\* A row remembers the digest of its newest entry.
Remembered ==
  \A r \in ImageRefs :
    IF row[r] = None \/ row[r].notified = NoDigest THEN entries[r] = <<>>
    ELSE entries[r] # <<>> /\ entries[r][Len(entries[r])] = row[r].notified

ImagesInv == U!NewsIsToldOnce /\ Remembered

\* What a scan brings back and what Refresh makes of it.

LEMMA RowFields ==
  ASSUME U!TypeOK, NEW r \in ImageRefs, row[r] # None
  PROVE  /\ row[r] \in U!Row /\ row[r].owner \in sources
         /\ row[r].lookup = "resolved" <=> row[r].remote \in Digests
         /\ row[r].notified \in Digests \cup {NoDigest}
  BY DigestsAssumption DEF U!TypeOK, U!Row

LEMMA Found ==
  ASSUME U!TypeOK, NEW s \in Registries, U!Scanning(s)
  PROVE  /\ answers[s] \in U!Snapshot
         /\ DOMAIN answers[s] \subseteq ImageRefs
         /\ \A r \in DOMAIN answers[s] : answers[s][r] \in U!Finding
  BY DEF U!TypeOK, U!Scanning, U!Snapshot

LEMMA RefreshKeeps ==
  ASSUME U!TypeOK, NEW s \in sources, NEW r \in ImageRefs, NEW new \in U!Finding
  PROVE  LET now == U!Refresh(s, row[r], new) IN
         /\ now \in U!Row
         /\ [now EXCEPT !.notified = now.remote] \in U!Row
         /\ now.owner = s /\ ~now.retired
         /\ now.lookup = "resolved" <=> now.remote \in Digests
         /\ now.notified = IF row[r] = None THEN NoDigest ELSE row[r].notified
         /\ U!Keeps(row[r], new) => now.remote = row[r].remote
<1>1. s \in Registries
  BY DEF U!TypeOK
<1>2. CASE U!Keeps(row[r], new)
  <2>1. row[r] # None
    BY <1>2 DEF U!Keeps
  <2> QED
    BY <1>1, <1>2, <2>1, RowFields DEF U!Refresh, U!Row
<1>3. CASE ~U!Keeps(row[r], new)
  <2>1. row[r] # None => row[r].notified \in Digests \cup {NoDigest}
    BY RowFields
  <2>2. /\ new.lookup \in {"resolved", "unresolved"} /\ new.remote \in Digests \cup {NoDigest}
        /\ new.lookup = "resolved" <=> new.remote \in Digests
    BY DigestsAssumption DEF U!Finding
  <2> QED
    BY <1>1, <1>3, <2>1, <2>2 DEF U!Refresh, U!Row
<1> QED
  BY <1>2, <1>3

\* One reference of an applied scan.
LEMMA ApplyOne ==
  ASSUME U!TypeOK, NEW s \in Registries, U!Apply(s), NEW r \in ImageRefs
  PROVE  /\ s \in sources /\ U!Scanning(s)
         /\ \/ /\ r \in DOMAIN answers[s]
               /\ LET now == U!Refresh(s, row[r], answers[s][r]) IN
                  \/ /\ U!News(r, now)
                     /\ row'[r] = [now EXCEPT !.notified = now.remote]
                     /\ entries'[r] = Append(entries[r], now.remote)
                  \/ /\ ~U!News(r, now)
                     /\ row'[r] = now
                     /\ entries'[r] = entries[r]
            \/ /\ r \notin DOMAIN answers[s] /\ entries'[r] = entries[r]
               /\ IF U!Stale(s, r, DOMAIN answers[s])
                    THEN row'[r] = [row[r] EXCEPT !.retired = TRUE]
                    ELSE row'[r] = row[r]
  BY DEF U!Apply

LEMMA ImagesTypeInit == U!Init => U!TypeOK
  BY PublishedAssumption DEF U!Init, U!TypeOK

LEMMA ImagesTypeStep == ASSUME U!TypeOK, [U!Next]_(U!vars) PROVE U!TypeOK'
<1>1. ASSUME NEW r \in ImageRefs, NEW d \in Digests, U!Publish(r, d) PROVE U!TypeOK'
  BY <1>1, PublishedAssumption DEF U!Publish, U!TypeOK
<1>2. ASSUME NEW r \in ImageRefs, NEW containers \in SUBSET (Digests \cup {NoDigest}),
             U!Deploy(r, containers)
      PROVE  U!TypeOK'
  BY <1>2 DEF U!Deploy, U!TypeOK
<1>3. ASSUME NEW s \in Registries, U!AddSource(s) PROVE U!TypeOK'
  BY <1>3 DEF U!AddSource, U!TypeOK
<1>4. ASSUME NEW s \in Registries, U!DeleteSource(s) PROVE U!TypeOK'
  BY <1>4 DEF U!DeleteSource, U!TypeOK
<1>5. ASSUME NEW s \in Registries, NEW refs \in SUBSET ImageRefs, U!Lookup(s, refs) PROVE U!TypeOK'
  <2>1. answers' \in [Registries -> U!Snapshot \cup {None}]
    BY <1>5 DEF U!Lookup, U!TypeOK, U!Snapshot
  <2> QED
    BY <1>5, <2>1 DEF U!Lookup, U!TypeOK
<1>6. ASSUME NEW s \in Registries, U!Apply(s) PROVE U!TypeOK'
  <2>1. ASSUME NEW r \in ImageRefs
        PROVE  /\ row'[r] \in U!Row \cup {None}
               /\ row'[r] # None => /\ row'[r].owner \in sources
                                    /\ row'[r].lookup = "resolved" <=> row'[r].remote # NoDigest
               /\ entries'[r] \in Seq(Digests)
    <3>1. CASE r \in DOMAIN answers[s]
      <4> DEFINE now == U!Refresh(s, row[r], answers[s][r])
      <4>1. s \in sources /\ answers[s][r] \in U!Finding
        BY <1>6, <3>1, ApplyOne, Found
      <4>2. /\ now \in U!Row /\ [now EXCEPT !.notified = now.remote] \in U!Row /\ now.owner = s
            /\ now.lookup = "resolved" <=> now.remote \in Digests
        BY <4>1, RefreshKeeps
      <4>3. now.lookup = "resolved" <=> now.remote # NoDigest
        BY <4>2, DigestsAssumption DEF U!Row
      <4>4. CASE /\ U!News(r, now) /\ row'[r] = [now EXCEPT !.notified = now.remote]
                 /\ entries'[r] = Append(entries[r], now.remote)
        <5>1. now.remote \in Digests /\ entries[r] \in Seq(Digests)
          BY <4>2, <4>4 DEF U!News, U!TypeOK
        <5> QED
          BY <4>1, <4>2, <4>3, <4>4, <5>1 DEF U!Row
      <4>5. CASE row'[r] = now /\ entries'[r] = entries[r]
        BY <4>1, <4>2, <4>3, <4>5 DEF U!TypeOK
      <4> HIDE DEF now
      <4> QED
        BY <1>6, <3>1, <4>4, <4>5, ApplyOne DEF now
    <3>2. CASE r \notin DOMAIN answers[s] /\ ~U!Stale(s, r, DOMAIN answers[s])
      BY <1>6, <3>2, ApplyOne DEF U!TypeOK
    <3>3. CASE r \notin DOMAIN answers[s] /\ U!Stale(s, r, DOMAIN answers[s])
      <4>1. row[r] # None
        BY <3>3 DEF U!Stale
      <4>2. row'[r] = [row[r] EXCEPT !.retired = TRUE] /\ entries'[r] = entries[r]
        BY <1>6, <3>3, ApplyOne
      <4>3. /\ row'[r] \in U!Row /\ row'[r].owner = row[r].owner
            /\ row'[r].lookup = row[r].lookup /\ row'[r].remote = row[r].remote
        BY <4>1, <4>2, RowFields DEF U!Row
      <4> QED
        BY <4>1, <4>2, <4>3 DEF U!TypeOK
    <3> QED
      BY <3>1, <3>2, <3>3
  <2>2. DOMAIN row' = ImageRefs /\ DOMAIN entries' = ImageRefs
    BY <1>6 DEF U!Apply
  <2>3. row' \in [ImageRefs -> U!Row \cup {None}] /\ entries' \in [ImageRefs -> Seq(Digests)]
    <3>1. row' = [r \in ImageRefs |-> row'[r]] /\ entries' = [r \in ImageRefs |-> entries'[r]]
      BY <1>6 DEF U!Apply
    <3> QED
      BY <2>1, <3>1
  <2>4. covered' \in [Registries -> SUBSET ImageRefs]
    BY <1>6, Found DEF U!Apply, U!TypeOK
  <2> QED
    BY <1>6, <2>1, <2>3, <2>4 DEF U!Apply, U!TypeOK
<1>7. ASSUME NEW s \in Registries, U!Abandon(s) PROVE U!TypeOK'
  BY <1>7 DEF U!Abandon, U!TypeOK
<1>8. ASSUME NEW r \in ImageRefs, U!Purge(r) PROVE U!TypeOK'
  BY <1>8 DEF U!Purge, U!TypeOK
<1>9. CASE UNCHANGED U!vars
  BY <1>9 DEF U!vars, U!TypeOK
<1> QED
  BY <1>1, <1>2, <1>3, <1>4, <1>5, <1>6, <1>7, <1>8, <1>9 DEF U!Next

-----------------------------------------------------------------------------
\* The feed.

LEMMA RememberedStep ==
  ASSUME U!TypeOK, U!NoEcho, Remembered, [U!Next]_(U!vars)
  PROVE  U!NoEcho' /\ Remembered'
<1>1. ASSUME NEW s \in Registries, U!Apply(s), NEW r \in ImageRefs
      PROVE  /\ IF row'[r] = None \/ row'[r].notified = NoDigest THEN entries'[r] = <<>>
                ELSE entries'[r] # <<>> /\ entries'[r][Len(entries'[r])] = row'[r].notified
             /\ \A i \in 1..(Len(entries'[r]) - 1) : entries'[r][i] # entries'[r][i + 1]
  <2>1. entries[r] \in Seq(Digests)
    BY DEF U!TypeOK
  <2>2. CASE r \in DOMAIN answers[s]
    <3> DEFINE now == U!Refresh(s, row[r], answers[s][r])
    <3>1. s \in sources /\ answers[s][r] \in U!Finding
      BY <1>1, <2>2, ApplyOne, Found
    <3>2. /\ now \in U!Row /\ [now EXCEPT !.notified = now.remote] \in U!Row
          /\ now.lookup = "resolved" <=> now.remote \in Digests
          /\ now.notified = IF row[r] = None THEN NoDigest ELSE row[r].notified
      BY <3>1, RefreshKeeps
    <3>3. CASE /\ U!News(r, now) /\ row'[r] = [now EXCEPT !.notified = now.remote]
               /\ entries'[r] = Append(entries[r], now.remote)
      <4>1. now.remote \in Digests /\ now.remote # now.notified
        BY <3>2, <3>3 DEF U!News
      <4>2. row'[r] # None /\ row'[r].notified = now.remote
        BY <3>2, <3>3, NoRowAssumption DEF U!Row
      <4>3. /\ entries'[r] # <<>> /\ Len(entries'[r]) = Len(entries[r]) + 1
            /\ entries'[r][Len(entries'[r])] = now.remote
            /\ \A i \in 1..Len(entries[r]) : entries'[r][i] = entries[r][i]
        BY <2>1, <3>3, <4>1
      <4>4. entries[r] # <<>> => entries[r][Len(entries[r])] # now.remote
        BY <3>2, <4>1 DEF Remembered
      <4>5. ASSUME NEW i \in 1..(Len(entries'[r]) - 1) PROVE entries'[r][i] # entries'[r][i + 1]
        <5>1. Len(entries[r]) \in Nat /\ i \in 1..Len(entries[r])
          BY <2>1, <4>3
        <5>2. CASE i = Len(entries[r])
          BY <2>1, <4>3, <4>4, <5>1, <5>2
        <5>3. CASE i # Len(entries[r])
          <6>1. i \in 1..(Len(entries[r]) - 1) /\ i + 1 \in 1..Len(entries[r])
            BY <5>1, <5>3
          <6> QED
            BY <4>3, <5>1, <6>1 DEF U!NoEcho
        <5> QED
          BY <5>2, <5>3
      <4> QED
        BY <4>1, <4>2, <4>3, <4>5, DigestsAssumption
    <3>4. CASE row'[r] = now /\ entries'[r] = entries[r]
      BY <3>2, <3>4, NoRowAssumption DEF Remembered, U!NoEcho
    <3> HIDE DEF now
    <3> QED
      BY <1>1, <2>2, <3>3, <3>4, ApplyOne DEF now
  <2>3. CASE r \notin DOMAIN answers[s]
    <3>1. entries'[r] = entries[r]
      BY <1>1, <2>3, ApplyOne
    <3>2. row[r] = None => row'[r] = None
      BY <1>1, <2>3, ApplyOne DEF U!Stale
    <3>3. row[r] # None => row'[r] # None /\ row'[r].notified = row[r].notified
      <4>1. CASE U!Stale(s, r, DOMAIN answers[s])
        <5>1. row[r] # None => [row[r] EXCEPT !.retired = TRUE] \in U!Row
          BY RowFields DEF U!Row
        <5>2. row'[r] = [row[r] EXCEPT !.retired = TRUE]
          BY <1>1, <2>3, <4>1, ApplyOne
        <5> QED
          BY <5>1, <5>2, RowFields, NoRowAssumption DEF U!Row
      <4>2. CASE ~U!Stale(s, r, DOMAIN answers[s])
        BY <1>1, <2>3, <4>2, ApplyOne
      <4> QED
        BY <4>1, <4>2
    <3> QED
      BY <3>1, <3>2, <3>3 DEF Remembered, U!NoEcho
  <2> QED
    BY <2>2, <2>3
<1>2. ASSUME NEW s \in Registries, U!Apply(s) PROVE U!NoEcho' /\ Remembered'
  BY <1>1, <1>2 DEF U!NoEcho, Remembered
<1>3. ASSUME \A r \in ImageRefs : \/ row'[r] = row[r] /\ entries'[r] = entries[r]
                                  \/ row'[r] = None /\ entries'[r] = <<>>
      PROVE  U!NoEcho' /\ Remembered'
  BY <1>3 DEF U!NoEcho, Remembered
<1>4. ASSUME NEW s \in Registries, U!DeleteSource(s) PROVE U!NoEcho' /\ Remembered'
  BY <1>3, <1>4 DEF U!DeleteSource
<1>5. ASSUME NEW r \in ImageRefs, U!Purge(r) PROVE U!NoEcho' /\ Remembered'
  BY <1>3, <1>5 DEF U!Purge, U!TypeOK
<1>6. CASE UNCHANGED <<row, entries>>
  BY <1>3, <1>6
<1> QED
  BY <1>2, <1>4, <1>5, <1>6 DEF U!Next, U!Publish, U!Deploy, U!AddSource, U!Lookup, U!Abandon, U!vars

\* Who answered last covers what is shown.
LEMMA OwnerStep == ASSUME U!TypeOK, U!OwnerCovers, [U!Next]_(U!vars) PROVE U!OwnerCovers'
<1>1. ASSUME NEW s \in Registries, U!Apply(s) PROVE U!OwnerCovers'
  <2>1. covered' = [covered EXCEPT ![s] = DOMAIN answers[s]]
    BY <1>1 DEF U!Apply
  <2>2. ASSUME NEW r \in ImageRefs, row'[r] # None
        PROVE  ~row'[r].retired <=> r \in covered'[row'[r].owner]
    <3>1. covered'[s] = DOMAIN answers[s] /\ \A t \in Registries \ {s} : covered'[t] = covered[t]
      BY <2>1 DEF U!TypeOK
    <3>2. CASE r \in DOMAIN answers[s]
      <4>1. s \in sources /\ answers[s][r] \in U!Finding
        BY <1>1, <3>2, ApplyOne, Found
      <4>2. row'[r].owner = s /\ ~row'[r].retired
        <5> DEFINE now == U!Refresh(s, row[r], answers[s][r])
        <5>1. now \in U!Row /\ now.owner = s /\ ~now.retired
          BY <4>1, RefreshKeeps, ZenonT(60)
        <5>2. row'[r] = now \/ row'[r] = [now EXCEPT !.notified = now.remote]
          BY <1>1, <3>2, ApplyOne
        <5> HIDE DEF now
        <5> QED
          BY <5>1, <5>2 DEF U!Row
      <4> QED
        BY <3>1, <3>2, <4>2
    <3>3. CASE r \notin DOMAIN answers[s] /\ U!Stale(s, r, DOMAIN answers[s])
      <4>1. row[r] # None /\ row[r].owner = s /\ row'[r] = [row[r] EXCEPT !.retired = TRUE]
        BY <1>1, <3>3, ApplyOne DEF U!Stale
      <4>2. row'[r].owner = s /\ row'[r].retired
        BY <4>1, RowFields DEF U!Row
      <4> QED
        BY <3>1, <3>3, <4>2
    <3>4. CASE r \notin DOMAIN answers[s] /\ ~U!Stale(s, r, DOMAIN answers[s])
      <4>1. row'[r] = row[r]
        BY <1>1, <3>4, ApplyOne
      <4>2. row[r].owner \in Registries \ {s}
        BY <2>2, <3>4, <4>1, RowFields DEF U!Stale, U!TypeOK
      <4> QED
        BY <2>2, <3>1, <4>1, <4>2 DEF U!OwnerCovers
    <3> QED
      BY <3>2, <3>3, <3>4
  <2> QED
    BY <2>2 DEF U!OwnerCovers
<1>2. ASSUME NEW s \in Registries, U!AddSource(s) PROVE U!OwnerCovers'
  <2>1. \A r \in ImageRefs : row[r] # None => row[r].owner \in Registries \ {s}
    BY <1>2, RowFields DEF U!AddSource, U!TypeOK
  <2> QED
    BY <1>2, <2>1 DEF U!AddSource, U!OwnerCovers, U!TypeOK
<1>3. ASSUME NEW s \in Registries, U!DeleteSource(s) PROVE U!OwnerCovers'
  BY <1>3 DEF U!DeleteSource, U!OwnerCovers
<1>4. ASSUME NEW r \in ImageRefs, U!Purge(r) PROVE U!OwnerCovers'
  BY <1>4 DEF U!Purge, U!OwnerCovers, U!TypeOK
<1>5. CASE UNCHANGED <<row, covered>>
  BY <1>5 DEF U!OwnerCovers
<1> QED
  BY <1>1, <1>2, <1>3, <1>4, <1>5 DEF U!Next, U!Publish, U!Deploy, U!Lookup, U!Abandon, U!vars

-----------------------------------------------------------------------------

LEMMA ImagesInvInit == U!Init => ImagesInv
<1>1. U!Init => U!NoEcho /\ U!OwnerCovers /\ Remembered
  BY DEF U!Init, U!NoEcho, U!OwnerCovers, Remembered
<1> QED
  BY <1>1, ImagesTypeInit DEF ImagesInv, U!NewsIsToldOnce

LEMMA ImagesInvStep == ImagesInv /\ [U!Next]_(U!vars) => ImagesInv'
  BY ImagesTypeStep, RememberedStep, OwnerStep DEF ImagesInv, U!NewsIsToldOnce

LEMMA PartsMoveImages == PartsSpec => U!Init /\ [][U!Next]_(U!vars)
<1>1. PartsInit => U!Init
  BY DEF PartsInit
<1>2. [PartsNext]_Parts => [U!Next]_(U!vars)
  <2> SUFFICES ASSUME [PartsNext]_Parts, ~UNCHANGED U!vars PROVE U!Next
    OBVIOUS
  <2> QED
    BY DEF PartsNext, Parts, images, U!vars
<1> QED
  BY <1>1, <1>2, PTL DEF PartsSpec, Parts

LEMMA ImagesInvHolds == PartsSpec => []ImagesInv
  BY ImagesInvInit, ImagesInvStep, PartsMoveImages, PTL

\* applyImageUpdates, purgeRetiredImageUpdates, the delete of a connector: the feed never
\* repeats itself, and a row is shown exactly as long as its source covers it.
THEOREM ToldOnce == PartsSpec => []NewsIsToldOnce
<1>1. ImagesInv => NewsIsToldOnce
  BY DEF ImagesInv, NewsIsToldOnce
<1> QED
  BY <1>1, ImagesInvHolds, PTL

\* applyImageUpdates: containers are shown as behind only with the entry that says so, and
\* an outage, a rate limit or a retirement forgets no answer.
THEOREM NothingLost == PartsSpec => NothingKnownIsLost
<1> DEFINE Tells ==
             \A s \in Registries, r \in ImageRefs :
               /\ U!Scanning(s) /\ U!Apply(s)
               /\ r \in DOMAIN answers[s]
               /\ row'[r].lookup = "resolved" /\ U!Behind(r, row'[r].remote)
               => entries'[r] # <<>> /\ entries'[r][Len(entries'[r])] = row'[r].remote
           Definite ==
             \A r \in ImageRefs :
               /\ row[r] # None /\ row[r].lookup = "resolved"
               /\ row'[r] # None /\ row'[r].remote # row[r].remote
               => \E s \in Registries : /\ U!Scanning(s) /\ r \in DOMAIN answers[s]
                                        /\ ~answers[s][r].transient
<1>1. ImagesInv /\ [U!Next]_(U!vars) => [Tells]_(U!vars)
  <2> SUFFICES ASSUME ImagesInv, NEW s \in Registries, NEW r \in ImageRefs,
                      U!Scanning(s), U!Apply(s), r \in DOMAIN answers[s],
                      row'[r].lookup = "resolved", U!Behind(r, row'[r].remote)
               PROVE  entries'[r] # <<>> /\ entries'[r][Len(entries'[r])] = row'[r].remote
    OBVIOUS
  <2> DEFINE now == U!Refresh(s, row[r], answers[s][r])
  <2>1. U!TypeOK /\ Remembered /\ entries[r] \in Seq(Digests)
    BY DEF ImagesInv, U!NewsIsToldOnce, U!TypeOK
  <2>2. s \in sources /\ answers[s][r] \in U!Finding
    BY <2>1, ApplyOne, Found
  <2>3. /\ now \in U!Row /\ [now EXCEPT !.notified = now.remote] \in U!Row
        /\ now.lookup = "resolved" <=> now.remote \in Digests
        /\ now.notified = IF row[r] = None THEN NoDigest ELSE row[r].notified
    BY <2>1, <2>2, RefreshKeeps
  <2>4. CASE /\ U!News(r, now) /\ row'[r] = [now EXCEPT !.notified = now.remote]
             /\ entries'[r] = Append(entries[r], now.remote)
    <3>1. row'[r].remote = now.remote /\ now.remote \in Digests
      BY <2>3, <2>4 DEF U!Row, U!News
    <3> QED
      BY <2>1, <2>4, <3>1
  <2>5. CASE ~U!News(r, now) /\ row'[r] = now /\ entries'[r] = entries[r]
    <3>1. now.remote = now.notified /\ now.remote \in Digests
      BY <2>3, <2>5 DEF U!News
    <3>2. row[r] # None /\ row[r].notified = now.remote
      BY <2>3, <3>1, DigestsAssumption
    <3> QED
      BY <2>1, <2>5, <3>1, <3>2, DigestsAssumption DEF Remembered
  <2> HIDE DEF now
  <2> QED
    BY <2>1, <2>4, <2>5, ApplyOne DEF now
<1>2. ImagesInv /\ [U!Next]_(U!vars) => [Definite]_(U!vars)
  <2> SUFFICES ASSUME ImagesInv, U!Next, NEW r \in ImageRefs,
                      row[r] # None, row[r].lookup = "resolved", row'[r] # None, row'[r].remote # row[r].remote
               PROVE  \E s \in Registries : /\ U!Scanning(s) /\ r \in DOMAIN answers[s]
                                            /\ ~answers[s][r].transient
    OBVIOUS
  <2>1. U!TypeOK
    BY DEF ImagesInv, U!NewsIsToldOnce
  <2>2. ASSUME NEW s \in Registries, U!DeleteSource(s) PROVE FALSE
    BY <2>2 DEF U!DeleteSource
  <2>3. ASSUME NEW q \in ImageRefs, U!Purge(q) PROVE FALSE
    BY <2>1, <2>3 DEF U!Purge, U!TypeOK
  <2>4. PICK s \in Registries : U!Apply(s)
    BY <2>2, <2>3 DEF U!Next, U!Publish, U!Deploy, U!AddSource, U!Lookup, U!Abandon
  <2>5. r \in DOMAIN answers[s]
    <3>1. CASE U!Stale(s, r, DOMAIN answers[s])
      BY <2>1, <2>4, <3>1, ApplyOne, RowFields DEF U!Row
    <3> QED
      BY <2>1, <2>4, <3>1, ApplyOne
  <2> DEFINE now == U!Refresh(s, row[r], answers[s][r])
  <2>6. s \in sources /\ U!Scanning(s) /\ answers[s][r] \in U!Finding
    BY <2>1, <2>4, <2>5, ApplyOne, Found
  <2>7. now \in U!Row /\ (U!Keeps(row[r], answers[s][r]) => now.remote = row[r].remote)
    <3>1. now \in U!Row
      BY <2>1, <2>6, RefreshKeeps
    <3>2. U!Keeps(row[r], answers[s][r]) => now.remote = row[r].remote
      BY <2>1, <2>6 DEF U!Refresh
    <3> QED
      BY <3>1, <3>2
  <2>8. row'[r].remote = now.remote
    BY <2>1, <2>4, <2>5, <2>7, ApplyOne DEF U!Row
  <2>9. ~U!Keeps(row[r], answers[s][r])
    BY <2>7, <2>8
  <2> QED
    BY <2>5, <2>6, <2>9 DEF U!Keeps, U!Finding
<1> QED
  BY <1>1, <1>2, ImagesInvHolds, PartsMoveImages, PTL
     DEF NothingKnownIsLost, U!NothingKnownIsLost, U!Announced, U!OutageKeepsAnswer
=============================================================================

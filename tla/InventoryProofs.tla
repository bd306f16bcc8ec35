-------------------------- MODULE InventoryProofs --------------------------
(***************************************************************************)
(* That a source shows what its newest snapshot says, that tables and feed *)
(* agree, and that rows keep their identity, for every number of sources,  *)
(* keys and rows.  KeysAreUnique and ServicesOnHosts carry it: the row a   *)
(* key is placed on is the only one that can show it.                      *)
(***************************************************************************)
EXTENDS Inventory, TLAPS

-----------------------------------------------------------------------------

(* A present service runs on no host, or on a present one of its own source: the purge of *)
(* a host takes nothing of a service that is present.                                     *)
ServicesOnHosts ==
  \A i \in Rows(services) :
    services[i].state = "active" /\ services[i].host # None =>
      services[i].host \in Live(hosts, services[i].source)

UniqueIn(table) ==
  \A i, j \in Rows(table) :
    table[i].source # None /\ table[i].source = table[j].source
      /\ table[i].key = table[j].key => i = j

(* What a snapshot says of the rows of its source, and the rows of the snapshot. *)
HostsShow(c, snap) ==
  /\ \A i \in Live(hosts, c) : hosts[i].key \in snap.hosts
  /\ \A h \in snap.hosts : \E i \in Live(hosts, c) : hosts[i].key = h

HostOf(i) == IF services[i].host = None THEN None ELSE hosts[services[i].host].key

LinkOf(snap, k) == IF snap.services[k].host \in snap.hosts THEN snap.services[k].host ELSE None

ServicesShow(c, snap) ==
  /\ \A i \in Live(services, c) :
       LET k == services[i].key IN
       /\ k \in DOMAIN snap.services
       /\ services[i].name = snap.services[k].name
       /\ services[i].version = snap.services[k].version
       /\ HostOf(i) = LinkOf(snap, k)
  /\ \A k \in DOMAIN snap.services : \E i \in Live(services, c) : services[i].key = k

PortsShow(c, snap) ==
  /\ \A i \in Rows(ports) : ports[i].source = c => ports[i].key \in snap.ports
  /\ \A k \in snap.ports : \E i \in Rows(ports) : ports[i].source = c /\ ports[i].key = k

Shows(c, snap) == HostsShow(c, snap) /\ ServicesShow(c, snap) /\ PortsShow(c, snap)

InventoryInv ==
  /\ TypeOK
  /\ UniqueIn(hosts) /\ UniqueIn(services) /\ UniqueIn(ports)
  /\ ServicesOnHosts
  /\ PortsFollowServices
  /\ FeedMatchesState
  /\ \A c \in Sources : last[c] # None => Shows(c, last[c])

-----------------------------------------------------------------------------

LEMMA NoneApart ==
  /\ None \notin Sources /\ None \notin HostKeys /\ None \notin Ids
  /\ None \notin HostRow /\ None \notin ServiceRow /\ None \notin PortRow
  /\ None \notin Snapshot
BY NoneAssumption

LEMMA SnapshotType ==
  ASSUME NEW snap \in Snapshot
  PROVE  /\ snap.hosts \subseteq HostKeys
         /\ DOMAIN snap.services \subseteq ServiceKeys
         /\ \A k \in DOMAIN snap.services : /\ snap.services[k] \in [name: Names, version: Versions, host: HostKeys]
                                            /\ snap.services[k].name \in Names
                                            /\ snap.services[k].version \in Versions
                                            /\ snap.services[k].host \in HostKeys
         /\ snap.ports \subseteq PortKey
         /\ \A p \in snap.ports : p[1] \in DOMAIN snap.services /\ p[2] \in Tuples /\ p = <<p[1], p[2]>>
<1>1. /\ snap.hosts \in SUBSET HostKeys
      /\ snap.services \in UNION {[K -> [name: Names, version: Versions, host: HostKeys]] :
                                    K \in SUBSET ServiceKeys}
      /\ snap.ports \in SUBSET PortKey
      /\ \A p \in snap.ports : p[1] \in DOMAIN snap.services
  BY DEF Snapshot
<1>2. PICK K \in SUBSET ServiceKeys :
        snap.services \in [K -> [name: Names, version: Versions, host: HostKeys]]
  BY <1>1
<1>3. \A k \in DOMAIN snap.services : snap.services[k] \in [name: Names, version: Versions, host: HostKeys]
  BY <1>2
<1>4. \A p \in snap.ports : p[2] \in Tuples /\ p = <<p[1], p[2]>>
  BY <1>1 DEF PortKey
<1> QED BY <1>1, <1>2, <1>3, <1>4

(* The three placements: a key goes to the row that has it; else to one it adopts; else to  *)
(* a fresh one, if all it may adopt are claimed by others.                                  *)
LEMMA HostPlaced ==
  ASSUME NEW c \in Sources, NEW snap \in Snapshot, NEW at \in HostPlacements(c, snap)
  PROVE  /\ DOMAIN at = snap.hosts
         /\ \A k \in snap.hosts :
              /\ at[k] \in Ids
              /\ \/ at[k] \in WithKey(hosts, c, k)
                 \/ WithKey(hosts, c, k) = {} /\ at[k] \notin Rows(hosts)
         /\ \A k, l \in snap.hosts : at[k] = at[l] => k = l
BY DEF HostPlacements, Placements, IsInjective

MayAdopt(c, snap, hostAt, k) ==
  {i \in Live(services, c) :
     /\ services[i].name = snap.services[k].name
     /\ services[i].host = HostId(hostAt, snap.services[k].host)
     /\ services[i].key \notin DOMAIN snap.services}

LEMMA ServicePlaced ==
  ASSUME NEW c \in Sources, NEW snap \in Snapshot, NEW hostAt,
         NEW at \in ServicePlacements(c, snap, hostAt)
  PROVE  /\ DOMAIN at = DOMAIN snap.services
         /\ \A k \in DOMAIN at :
              /\ at[k] \in Ids
              /\ \/ at[k] \in WithKey(services, c, k)
                 \/ /\ WithKey(services, c, k) = {}
                    /\ at[k] \in Rows(services) /\ at[k] \in MayAdopt(c, snap, hostAt, k)
                 \/ /\ WithKey(services, c, k) = {}
                    /\ at[k] \notin Rows(services)
                    /\ \A i \in MayAdopt(c, snap, hostAt, k) : \E l \in DOMAIN at : i = at[l]
         /\ \A k, l \in DOMAIN at : at[k] = at[l] => k = l
<1> DEFINE Missing == {k \in DOMAIN snap.services : WithKey(services, c, k) = {}}
           adopted == {k \in Missing : at[k] \in Rows(services)}
           claimed == {at[k] : k \in adopted}
<1>1. /\ at \in [DOMAIN snap.services -> Ids]
      /\ IsInjective(at)
      /\ \A k \in DOMAIN snap.services \ Missing : at[k] \in WithKey(services, c, k)
      /\ \A k \in adopted : at[k] \in MayAdopt(c, snap, hostAt, k)
      /\ \A k \in Missing \ adopted : MayAdopt(c, snap, hostAt, k) \subseteq claimed
  BY DEF ServicePlacements, Placements, MayAdopt
<1>2. \A k \in DOMAIN at : at[k] \in Ids /\ (k \in Missing <=> WithKey(services, c, k) = {})
  BY <1>1
<1>3. \A k \in Missing : k \in adopted <=> at[k] \in Rows(services)
  OBVIOUS
<1>4. \A i \in claimed : \E l \in DOMAIN at : i = at[l]
  BY <1>1
<1> HIDE DEF Missing, adopted, claimed
<1>5. DOMAIN at = DOMAIN snap.services
  BY <1>1
<1>6. \A k, l \in DOMAIN at : at[k] = at[l] => k = l
  BY <1>1 DEF IsInjective
<1>7. ASSUME NEW k \in DOMAIN at
      PROVE  \/ at[k] \in WithKey(services, c, k)
             \/ /\ WithKey(services, c, k) = {}
                /\ at[k] \in Rows(services) /\ at[k] \in MayAdopt(c, snap, hostAt, k)
             \/ /\ WithKey(services, c, k) = {}
                /\ at[k] \notin Rows(services)
                /\ \A i \in MayAdopt(c, snap, hostAt, k) : \E l \in DOMAIN at : i = at[l]
  BY <1>1, <1>2, <1>3, <1>4, <1>5
<1> QED BY <1>2, <1>5, <1>6, <1>7

MayTake(c, snap, serviceAt, k) ==
  {i \in Rows(ports) : /\ ports[i].source = c
                       /\ ports[i].service = serviceAt[k[1]]
                       /\ ports[i].tuple = k[2]
                       /\ ports[i].key \notin snap.ports}

LEMMA PortPlaced ==
  ASSUME NEW c \in Sources, NEW snap \in Snapshot, NEW serviceAt,
         NEW at \in PortPlacements(c, snap, serviceAt)
  PROVE  /\ DOMAIN at = snap.ports
         /\ \A k \in DOMAIN at :
              /\ at[k] \in Ids
              /\ \/ at[k] \in WithKey(ports, c, k)
                 \/ /\ WithKey(ports, c, k) = {}
                    /\ at[k] \in Rows(ports) /\ at[k] \in MayTake(c, snap, serviceAt, k)
                 \/ /\ WithKey(ports, c, k) = {}
                    /\ at[k] \notin Rows(ports)
                    /\ \A i \in MayTake(c, snap, serviceAt, k) :
                         \E l \in DOMAIN at : i = at[l] /\ i \in MayTake(c, snap, serviceAt, l)
         /\ \A k, l \in DOMAIN at : at[k] = at[l] => k = l
<1> DEFINE Missing == {k \in snap.ports : WithKey(ports, c, k) = {}}
           adopted == {k \in Missing : at[k] \in Rows(ports)}
           claimed == {at[k] : k \in adopted}
<1>1. /\ at \in [snap.ports -> Ids]
      /\ IsInjective(at)
      /\ \A k \in snap.ports \ Missing : at[k] \in WithKey(ports, c, k)
      /\ \A k \in adopted : at[k] \in MayTake(c, snap, serviceAt, k)
      /\ \A k \in Missing \ adopted : MayTake(c, snap, serviceAt, k) \subseteq claimed
  BY DEF PortPlacements, Placements, MayTake
<1>2. \A k \in DOMAIN at : at[k] \in Ids /\ (k \in Missing <=> WithKey(ports, c, k) = {})
  BY <1>1
<1>3. \A k \in Missing : k \in adopted <=> at[k] \in Rows(ports)
  OBVIOUS
<1>4. \A i \in claimed : \E l \in DOMAIN at : i = at[l] /\ l \in adopted
  BY <1>1
<1> HIDE DEF Missing, adopted, claimed
<1>5. DOMAIN at = snap.ports
  BY <1>1
<1>6. \A k, l \in DOMAIN at : at[k] = at[l] => k = l
  BY <1>1 DEF IsInjective
<1>7. ASSUME NEW k \in DOMAIN at
      PROVE  \/ at[k] \in WithKey(ports, c, k)
             \/ /\ WithKey(ports, c, k) = {}
                /\ at[k] \in Rows(ports) /\ at[k] \in MayTake(c, snap, serviceAt, k)
             \/ /\ WithKey(ports, c, k) = {}
                /\ at[k] \notin Rows(ports)
                /\ \A i \in MayTake(c, snap, serviceAt, k) :
                     \E l \in DOMAIN at : i = at[l] /\ i \in MayTake(c, snap, serviceAt, l)
  BY <1>1, <1>2, <1>3, <1>4, <1>5
<1> QED BY <1>2, <1>5, <1>6, <1>7

-----------------------------------------------------------------------------
(* What Apply makes of the three tables. *)

(* The keys of K are placed on rows of c; the rows that stay keep source and key. *)
Placing(table, after, c, K, at) ==
  /\ \A k \in K : /\ at[k] \in Ids
                  /\ after[at[k]] # None /\ after[at[k]].source = c /\ after[at[k]].key = k
                  /\ WithKey(table, c, k) # {} => at[k] \in WithKey(table, c, k)
  /\ \A i \in Ids : \/ \E k \in K : i = at[k]
                    \/ after[i] = None
                    \/ /\ table[i] # None
                       /\ after[i].source = table[i].source /\ after[i].key = table[i].key

(* Keys stay unique: a key is placed on the row that has it. *)
LEMMA UniqueAfter ==
  ASSUME NEW table, NEW after, NEW c, c # None, NEW K, NEW at, UniqueIn(table),
         Placing(table, after, c, K, at)
  PROVE  UniqueIn(after)
<1> USE DEF Placing
<1> SUFFICES ASSUME NEW i \in Ids, NEW j \in Ids, after[i] # None, after[j] # None,
                    after[i].source # None, after[i].source = after[j].source,
                    after[i].key = after[j].key
             PROVE  i = j
  BY DEF UniqueIn, Rows
<1>1. ASSUME NEW x \in Ids, NEW y \in Ids, after[x] # None, after[y] # None,
             after[x].source = after[y].source, after[x].key = after[y].key,
             NEW k \in K, x = at[k], ~\E l \in K : y = at[l]
      PROVE  FALSE
  <2>1. table[y] # None /\ table[y].source = c /\ table[y].key = k
    BY <1>1
  <2>2. y \in WithKey(table, c, k)
    BY <2>1 DEF WithKey, Rows
  <2>3. x \in WithKey(table, c, k)
    BY <1>1, <2>2
  <2>4. x = y
    BY <2>2, <2>3 DEF WithKey, UniqueIn
  <2> QED BY <1>1, <2>4
<1>2. CASE (\E k \in K : i = at[k]) /\ (\E k \in K : j = at[k])
  BY <1>2
<1>3. CASE (\E k \in K : i = at[k]) /\ ~(\E k \in K : j = at[k])
  BY <1>1, <1>3
<1>4. CASE ~(\E k \in K : i = at[k]) /\ (\E k \in K : j = at[k])
  BY <1>1, <1>4
<1>5. CASE ~(\E k \in K : i = at[k]) /\ ~(\E k \in K : j = at[k])
  BY <1>5 DEF UniqueIn, Rows
<1> QED BY <1>2, <1>3, <1>4, <1>5

LEMMA HostRowFields ==
  ASSUME TypeOK, NEW i \in Rows(hosts)
  PROVE  /\ i \in Ids /\ hosts[i] \in HostRow /\ hosts[i] # None
         /\ hosts[i].source \in Sources \cup {None} /\ hosts[i].key \in HostKeys
         /\ hosts[i].state \in Gone
BY DEF TypeOK, Rows, HostRow

LEMMA ServiceRowFields ==
  ASSUME TypeOK, NEW i \in Rows(services)
  PROVE  /\ i \in Ids /\ services[i] \in ServiceRow /\ services[i] # None
         /\ services[i].source \in Sources \cup {None} /\ services[i].key \in ServiceKeys
         /\ services[i].name \in Names /\ services[i].version \in Versions
         /\ services[i].host \in Ids \cup {None} /\ services[i].state \in Gone
BY DEF TypeOK, Rows, ServiceRow

LEMMA PortRowFields ==
  ASSUME TypeOK, NEW i \in Rows(ports)
  PROVE  /\ i \in Ids /\ ports[i] \in PortRow /\ ports[i] # None
         /\ ports[i].source \in Sources /\ ports[i].key \in PortKey
         /\ ports[i].service \in Ids /\ ports[i].host \in Ids \cup {None} /\ ports[i].tuple \in Tuples
BY DEF TypeOK, Rows, PortRow

LEMMA HostsAfterIs ==
  ASSUME TypeOK, NEW c \in Sources, NEW snap \in Snapshot, NEW at \in HostPlacements(c, snap),
         hosts' = HostsAfter(c, at)
  PROVE  /\ hosts' \in [Ids -> HostRow \cup {None}]
         /\ \A k \in snap.hosts :
              /\ at[k] \in Ids
              /\ hosts'[at[k]] # None
              /\ hosts'[at[k]].source = c /\ hosts'[at[k]].key = k /\ hosts'[at[k]].state = "active"
         /\ \A i \in Ids : (\E k \in snap.hosts : i = at[k]) <=> i \in Range(at)
         /\ \A i \in Ids :
              \/ i \in Range(at)
              \/ /\ i \in Live(hosts, c)
                 /\ hosts'[i] # None
                 /\ hosts'[i].source = c /\ hosts'[i].key = hosts[i].key /\ hosts'[i].state = "gone"
              \/ i \notin Live(hosts, c) /\ hosts'[i] = hosts[i]
<1>1. /\ DOMAIN at = snap.hosts
      /\ \A k \in snap.hosts : at[k] \in Ids
      /\ \A k, l \in snap.hosts : at[k] = at[l] => k = l
  BY HostPlaced
<1>2. \A i \in Ids : (\E k \in snap.hosts : i = at[k]) <=> i \in Range(at)
  BY <1>1 DEF Range
<1>3. ASSUME NEW k \in snap.hosts
      PROVE  /\ hosts'[at[k]] = [source |-> c, key |-> k, state |-> "active"]
             /\ hosts'[at[k]] \in HostRow
  <2>1. at[k] \in Range(at) /\ at[k] \in Ids
    BY <1>1, <1>2
  <2>2. (CHOOSE h \in DOMAIN at : at[h] = at[k]) = k
    BY <1>1
  <2>3. hosts'[at[k]] = [source |-> c, key |-> k, state |-> "active"]
    BY <2>1, <2>2 DEF HostsAfter
  <2>4. k \in HostKeys
    BY SnapshotType
  <2> QED BY <2>3, <2>4 DEF HostRow, Gone
<1>4. ASSUME NEW i \in Live(hosts, c), i \notin Range(at)
      PROVE  /\ hosts'[i] \in HostRow
             /\ hosts'[i].source = c /\ hosts'[i].key = hosts[i].key /\ hosts'[i].state = "gone"
  <2>1. i \in Rows(hosts) /\ i \in Ids /\ hosts[i].source = c
    BY DEF Live, Rows
  <2>2. hosts'[i] = [hosts[i] EXCEPT !.state = "gone"]
    BY <1>4, <2>1 DEF HostsAfter, Retire
  <2>3. hosts[i] \in HostRow
    BY <2>1, HostRowFields
  <2> QED BY <2>1, <2>2, <2>3 DEF HostRow, Gone
<1>5. ASSUME NEW i \in Ids, i \notin Range(at), i \notin Live(hosts, c)
      PROVE  hosts'[i] = hosts[i]
  BY <1>5 DEF HostsAfter
<1>6. hosts \in [Ids -> HostRow \cup {None}]
  BY DEF TypeOK
<1>7. \A i \in Ids : hosts'[i] \in HostRow \cup {None}
  BY <1>2, <1>3, <1>4, <1>5, <1>6
<1>8. hosts' = [i \in Ids |-> hosts'[i]]
  BY DEF HostsAfter
<1>9. hosts' \in [Ids -> HostRow \cup {None}]
  BY <1>7, <1>8, Zenon
<1>10. \A i \in Ids : hosts'[i] \in HostRow => hosts'[i] # None
  BY NoneApart
<1>11. \A i \in Live(hosts, c) : i \in Ids
  BY DEF Live, Rows
<1>12. ASSUME NEW k \in snap.hosts
       PROVE  /\ at[k] \in Ids
              /\ hosts'[at[k]] # None
              /\ hosts'[at[k]].source = c /\ hosts'[at[k]].key = k /\ hosts'[at[k]].state = "active"
  <2>1. at[k] \in Ids /\ hosts'[at[k]] \in HostRow
    BY <1>1, <1>3
  <2>2. hosts'[at[k]] # None
    BY <2>1, <1>10
  <2>3. hosts'[at[k]] = [source |-> c, key |-> k, state |-> "active"]
    BY <1>3
  <2>4. hosts'[at[k]].source = c /\ hosts'[at[k]].key = k /\ hosts'[at[k]].state = "active"
    BY <2>3
  <2> QED BY <2>1, <2>2, <2>4
<1>13. ASSUME NEW i \in Ids, i \notin Range(at)
       PROVE  \/ /\ i \in Live(hosts, c)
                 /\ hosts'[i] # None
                 /\ hosts'[i].source = c /\ hosts'[i].key = hosts[i].key /\ hosts'[i].state = "gone"
              \/ i \notin Live(hosts, c) /\ hosts'[i] = hosts[i]
  BY <1>4, <1>5, <1>10, <1>13
<1> QED BY <1>2, <1>9, <1>12, <1>13

LEMMA HostIdIs ==
  ASSUME NEW c \in Sources, NEW snap \in Snapshot, NEW at \in HostPlacements(c, snap), NEW h
  PROVE  /\ h \in snap.hosts => HostId(at, h) = at[h] /\ HostId(at, h) \in Ids
         /\ h \notin snap.hosts => HostId(at, h) = None
         /\ HostId(at, h) \in Ids \cup {None}
BY HostPlaced DEF HostId

LEMMA ServicesAfterIs ==
  ASSUME TypeOK, NEW c \in Sources, NEW snap \in Snapshot, NEW hostAt \in HostPlacements(c, snap),
         NEW at \in ServicePlacements(c, snap, hostAt),
         services' = ServicesAfter(c, snap, hostAt, at)
  PROVE  /\ services' \in [Ids -> ServiceRow \cup {None}]
         /\ DOMAIN at = DOMAIN snap.services
         /\ \A k \in DOMAIN snap.services :
              /\ at[k] \in Ids
              /\ services'[at[k]] # None
              /\ services'[at[k]].source = c /\ services'[at[k]].key = k
              /\ services'[at[k]].name = snap.services[k].name
              /\ services'[at[k]].version = snap.services[k].version
              /\ services'[at[k]].host = HostId(hostAt, snap.services[k].host)
              /\ services'[at[k]].state = "active"
         /\ \A i \in Ids : (\E k \in DOMAIN snap.services : i = at[k]) <=> i \in Range(at)
         /\ \A i \in Ids :
              \/ i \in Range(at)
              \/ /\ i \in Live(services, c)
                 /\ services'[i] # None
                 /\ services'[i].source = c /\ services'[i].key = services[i].key
                 /\ services'[i].name = services[i].name
                 /\ services'[i].host = services[i].host
                 /\ services'[i].state = "gone"
              \/ i \notin Live(services, c) /\ services'[i] = services[i]
<1>1. /\ DOMAIN at = DOMAIN snap.services
      /\ \A k \in DOMAIN at : at[k] \in Ids
      /\ \A k, l \in DOMAIN at : at[k] = at[l] => k = l
  BY ServicePlaced
<1>2. \A i \in Ids : (\E k \in DOMAIN snap.services : i = at[k]) <=> i \in Range(at)
  BY <1>1 DEF Range
<1>3. ASSUME NEW k \in DOMAIN snap.services
      PROVE  /\ services'[at[k]] = ServiceRowFor(c, snap, hostAt, k)
             /\ services'[at[k]] \in ServiceRow
  <2>1. at[k] \in Range(at) /\ at[k] \in Ids
    BY <1>1, <1>2
  <2>2. (CHOOSE l \in DOMAIN at : at[l] = at[k]) = k
    BY <1>1
  <2>3. services'[at[k]] = ServiceRowFor(c, snap, hostAt, k)
    BY <2>1, <2>2 DEF ServicesAfter
  <2>4. /\ k \in ServiceKeys
        /\ snap.services[k].name \in Names /\ snap.services[k].version \in Versions
    BY SnapshotType
  <2>5. HostId(hostAt, snap.services[k].host) \in Ids \cup {None}
    BY HostIdIs
  <2>6. ServiceRowFor(c, snap, hostAt, k) \in ServiceRow
    BY <2>4, <2>5 DEF ServiceRowFor, ServiceRow, Gone
  <2> QED BY <2>3, <2>6
<1>4. ASSUME NEW i \in Live(services, c), i \notin Range(at)
      PROVE  /\ services'[i] \in ServiceRow
             /\ services'[i].source = c /\ services'[i].key = services[i].key
             /\ services'[i].name = services[i].name
             /\ services'[i].host = services[i].host
             /\ services'[i].state = "gone"
  <2>1. i \in Rows(services) /\ i \in Ids /\ services[i].source = c
    BY DEF Live, Rows
  <2>2. services'[i] = [services[i] EXCEPT !.state = "gone"]
    BY <1>4, <2>1 DEF ServicesAfter, Retire
  <2>3. services[i] \in ServiceRow
    BY <2>1, ServiceRowFields
  <2> QED BY <2>1, <2>2, <2>3 DEF ServiceRow, Gone
<1>5. ASSUME NEW i \in Ids, i \notin Range(at), i \notin Live(services, c)
      PROVE  services'[i] = services[i]
  BY <1>5 DEF ServicesAfter
<1>6. services \in [Ids -> ServiceRow \cup {None}]
  BY DEF TypeOK
<1>7. \A i \in Ids : services'[i] \in ServiceRow \cup {None}
  BY <1>2, <1>3, <1>4, <1>5, <1>6
<1>8. services' = [i \in Ids |-> services'[i]]
  BY DEF ServicesAfter
<1>9. services' \in [Ids -> ServiceRow \cup {None}]
  BY <1>7, <1>8, Zenon
<1>10. \A i \in Ids : services'[i] \in ServiceRow => services'[i] # None
  BY NoneApart
<1>12. ASSUME NEW k \in DOMAIN snap.services
       PROVE  /\ at[k] \in Ids
              /\ services'[at[k]] # None
              /\ services'[at[k]].source = c /\ services'[at[k]].key = k
              /\ services'[at[k]].name = snap.services[k].name
              /\ services'[at[k]].version = snap.services[k].version
              /\ services'[at[k]].host = HostId(hostAt, snap.services[k].host)
              /\ services'[at[k]].state = "active"
  <2>1. at[k] \in Ids /\ services'[at[k]] \in ServiceRow
    BY <1>1, <1>3
  <2>2. services'[at[k]] # None
    BY <2>1, <1>10
  <2>3. services'[at[k]] = ServiceRowFor(c, snap, hostAt, k)
    BY <1>3
  <2> QED BY <2>1, <2>2, <2>3 DEF ServiceRowFor
<1>13. ASSUME NEW i \in Ids, i \notin Range(at)
       PROVE  \/ /\ i \in Live(services, c)
                 /\ services'[i] # None
                 /\ services'[i].source = c /\ services'[i].key = services[i].key
                 /\ services'[i].name = services[i].name
                 /\ services'[i].host = services[i].host
                 /\ services'[i].state = "gone"
              \/ i \notin Live(services, c) /\ services'[i] = services[i]
  BY <1>4, <1>5, <1>10, <1>13
<1> QED BY <1>1, <1>2, <1>9, <1>12, <1>13

LEMMA PortsAfterIs ==
  ASSUME TypeOK, NEW c \in Sources, NEW snap \in Snapshot, NEW hostAt \in HostPlacements(c, snap),
         NEW serviceAt \in ServicePlacements(c, snap, hostAt),
         NEW at \in PortPlacements(c, snap, serviceAt),
         ports' = PortsAfter(c, snap, hostAt, serviceAt, at)
  PROVE  /\ ports' \in [Ids -> PortRow \cup {None}]
         /\ DOMAIN at = snap.ports
         /\ \A k \in snap.ports :
              /\ at[k] \in Ids
              /\ ports'[at[k]] # None
              /\ ports'[at[k]].source = c /\ ports'[at[k]].key = k
              /\ k[1] \in DOMAIN snap.services
              /\ ports'[at[k]].service = serviceAt[k[1]]
              /\ ports'[at[k]].host = HostId(hostAt, snap.services[k[1]].host)
              /\ ports'[at[k]].tuple = k[2]
         /\ \A i \in Ids : (\E k \in snap.ports : i = at[k]) <=> i \in Range(at)
         /\ \A i \in Ids :
              \/ i \in Range(at)
              \/ /\ i \in Rows(ports) /\ ports[i].source = c
                 /\ ports'[i] = None
              \/ /\ ~(i \in Rows(ports) /\ ports[i].source = c)
                 /\ ports'[i] = ports[i]
<1>1. /\ DOMAIN at = snap.ports
      /\ \A k \in DOMAIN at : at[k] \in Ids
      /\ \A k, l \in DOMAIN at : at[k] = at[l] => k = l
  BY PortPlaced
<1>2. \A i \in Ids : (\E k \in snap.ports : i = at[k]) <=> i \in Range(at)
  BY <1>1 DEF Range
<1> DEFINE row(k) == [source |-> c, key |-> k, service |-> serviceAt[k[1]],
                      host |-> HostId(hostAt, snap.services[k[1]].host), tuple |-> k[2]]
<1>3. ASSUME NEW k \in snap.ports
      PROVE  /\ ports'[at[k]] = row(k)
             /\ row(k) \in PortRow
             /\ k[1] \in DOMAIN snap.services
  <2>1. at[k] \in Range(at) /\ at[k] \in Ids
    BY <1>1, <1>2
  <2>2. (CHOOSE l \in DOMAIN at : at[l] = at[k]) = k
    BY <1>1
  <2>3. ports'[at[k]] = row(k)
    BY <2>1, <2>2 DEF PortsAfter
  <2>4. k \in PortKey /\ k[1] \in DOMAIN snap.services /\ k[2] \in Tuples
    BY SnapshotType
  <2>5. serviceAt[k[1]] \in Ids
    BY <2>4, ServicePlaced
  <2>6. HostId(hostAt, snap.services[k[1]].host) \in Ids \cup {None}
    BY HostIdIs
  <2>7. row(k) \in PortRow
    BY <2>4, <2>5, <2>6 DEF PortRow
  <2> QED BY <2>3, <2>4, <2>7
<1>4. ASSUME NEW i \in Ids, i \notin Range(at)
      PROVE  \/ /\ i \in Rows(ports) /\ ports[i].source = c
                /\ ports'[i] = None
             \/ /\ ~(i \in Rows(ports) /\ ports[i].source = c)
                /\ ports'[i] = ports[i]
  BY <1>4 DEF PortsAfter
<1>5. ports \in [Ids -> PortRow \cup {None}]
  BY DEF TypeOK
<1>6. ASSUME NEW k \in snap.ports
      PROVE  /\ at[k] \in Ids
             /\ ports'[at[k]] \in PortRow
             /\ ports'[at[k]] # None
             /\ ports'[at[k]].source = c /\ ports'[at[k]].key = k
             /\ k[1] \in DOMAIN snap.services
             /\ ports'[at[k]].service = serviceAt[k[1]]
             /\ ports'[at[k]].host = HostId(hostAt, snap.services[k[1]].host)
             /\ ports'[at[k]].tuple = k[2]
  <2>1. at[k] \in Ids /\ k[1] \in DOMAIN snap.services
    BY <1>1, <1>3
  <2>2. ports'[at[k]] = row(k) /\ row(k) \in PortRow
    BY <1>3
  <2>3. ports'[at[k]] # None
    BY <2>2, NoneApart
  <2> QED BY <2>1, <2>2, <2>3
<1>7. \A i \in Ids : ports'[i] \in PortRow \cup {None}
  BY <1>2, <1>4, <1>5, <1>6
<1>8. ports' = [i \in Ids |-> ports'[i]]
  BY DEF PortsAfter
<1>9. ports' \in [Ids -> PortRow \cup {None}]
  BY <1>7, <1>8, Zenon
<1> QED BY <1>1, <1>2, <1>4, <1>6, <1>9

(* A scan of c that found these rows for its keys. *)
Scanned(c, snap, hostAt, serviceAt, portAt) ==
  /\ hostAt \in HostPlacements(c, snap)
  /\ serviceAt \in ServicePlacements(c, snap, hostAt)
  /\ portAt \in PortPlacements(c, snap, serviceAt)
  /\ hosts' = HostsAfter(c, hostAt)
  /\ services' = ServicesAfter(c, snap, hostAt, serviceAt)
  /\ ports' = PortsAfter(c, snap, hostAt, serviceAt, portAt)

(* A placed row is new or was one of the source. *)
LEMMA OwnRows ==
  ASSUME NEW c \in Sources, NEW snap \in Snapshot, NEW hostAt, NEW serviceAt, NEW portAt,
         Scanned(c, snap, hostAt, serviceAt, portAt)
  PROVE  /\ \A i \in Range(hostAt) : i \in Rows(hosts) => hosts[i].source = c
         /\ \A i \in Range(serviceAt) : i \in Rows(services) => services[i].source = c
         /\ \A i \in Range(portAt) : i \in Rows(ports) => ports[i].source = c
<1>1. /\ hostAt \in HostPlacements(c, snap)
      /\ serviceAt \in ServicePlacements(c, snap, hostAt)
      /\ portAt \in PortPlacements(c, snap, serviceAt)
  BY DEF Scanned
<1>2. \A i \in Range(hostAt) : i \in Rows(hosts) => hosts[i].source = c
  BY <1>1, HostPlaced DEF Range, WithKey
<1>3. \A i \in Range(serviceAt) : i \in Rows(services) => services[i].source = c
  BY <1>1, ServicePlaced DEF Range, WithKey, MayAdopt, Live
<1>4. \A i \in Range(portAt) : i \in Rows(ports) => ports[i].source = c
  BY <1>1, PortPlaced DEF Range, WithKey, MayTake
<1> QED BY <1>2, <1>3, <1>4

(* The rows of other sources, and of none, stay as they are; and no row becomes theirs. *)
LEMMA OthersStay ==
  ASSUME TypeOK, NEW c \in Sources, NEW snap \in Snapshot, NEW hostAt, NEW serviceAt, NEW portAt,
         Scanned(c, snap, hostAt, serviceAt, portAt), NEW i \in Ids
  PROVE  /\ hosts[i] # None /\ hosts[i].source # c => hosts'[i] = hosts[i]
         /\ hosts'[i] # None /\ hosts'[i].source # c => hosts'[i] = hosts[i]
         /\ services[i] # None /\ services[i].source # c => services'[i] = services[i]
         /\ services'[i] # None /\ services'[i].source # c => services'[i] = services[i]
         /\ ports[i] # None /\ ports[i].source # c => ports'[i] = ports[i]
         /\ ports'[i] # None /\ ports'[i].source # c => ports'[i] = ports[i]
<1>1. /\ hostAt \in HostPlacements(c, snap) /\ hosts' = HostsAfter(c, hostAt)
      /\ serviceAt \in ServicePlacements(c, snap, hostAt)
      /\ services' = ServicesAfter(c, snap, hostAt, serviceAt)
      /\ portAt \in PortPlacements(c, snap, serviceAt)
      /\ ports' = PortsAfter(c, snap, hostAt, serviceAt, portAt)
  BY DEF Scanned
<1>2. /\ hosts[i] # None /\ hosts[i].source # c => hosts'[i] = hosts[i]
      /\ hosts'[i] # None /\ hosts'[i].source # c => hosts'[i] = hosts[i]
  <2>1. i \in Range(hostAt) =>
          (hosts[i] # None => hosts[i].source = c) /\ hosts'[i].source = c
    BY <1>1, OwnRows, HostsAfterIs DEF Rows
  <2>2. i \in Live(hosts, c) => hosts[i].source = c
    BY DEF Live
  <2> QED BY <2>1, <2>2, <1>1, HostsAfterIs
<1>3. /\ services[i] # None /\ services[i].source # c => services'[i] = services[i]
      /\ services'[i] # None /\ services'[i].source # c => services'[i] = services[i]
  <2>1. i \in Range(serviceAt) =>
          (services[i] # None => services[i].source = c) /\ services'[i].source = c
    BY <1>1, OwnRows, ServicesAfterIs DEF Rows
  <2>2. i \in Live(services, c) => services[i].source = c
    BY DEF Live
  <2> QED BY <2>1, <2>2, <1>1, ServicesAfterIs
<1>4. /\ ports[i] # None /\ ports[i].source # c => ports'[i] = ports[i]
      /\ ports'[i] # None /\ ports'[i].source # c => ports'[i] = ports[i]
  <2>1. i \in Range(portAt) =>
          (ports[i] # None => ports[i].source = c) /\ ports'[i].source = c
    BY <1>1, OwnRows, PortsAfterIs DEF Rows
  <2> QED BY <2>1, <1>1, PortsAfterIs
<1> QED BY <1>2, <1>3, <1>4

LEMMA ApplyKeepsKeys ==
  ASSUME InventoryInv, NEW c \in Sources, NEW snap \in Snapshot,
         NEW hostAt, NEW serviceAt, NEW portAt, Scanned(c, snap, hostAt, serviceAt, portAt)
  PROVE  UniqueIn(hosts') /\ UniqueIn(services') /\ UniqueIn(ports')
<1>1. /\ hostAt \in HostPlacements(c, snap) /\ hosts' = HostsAfter(c, hostAt)
      /\ serviceAt \in ServicePlacements(c, snap, hostAt)
      /\ services' = ServicesAfter(c, snap, hostAt, serviceAt)
      /\ portAt \in PortPlacements(c, snap, serviceAt)
      /\ ports' = PortsAfter(c, snap, hostAt, serviceAt, portAt)
  BY DEF Scanned
<1>2. TypeOK /\ UniqueIn(hosts) /\ UniqueIn(services) /\ UniqueIn(ports) /\ c # None
  BY NoneApart DEF InventoryInv
<1>3. UniqueIn(hosts')
  <2>1. \A k \in snap.hosts :
          /\ hostAt[k] \in Ids
          /\ hosts'[hostAt[k]] # None /\ hosts'[hostAt[k]].source = c /\ hosts'[hostAt[k]].key = k
          /\ WithKey(hosts, c, k) # {} => hostAt[k] \in WithKey(hosts, c, k)
    BY <1>1, <1>2, HostsAfterIs, HostPlaced
  <2>2. \A i \in Ids : \/ \E k \in snap.hosts : i = hostAt[k]
                       \/ hosts'[i] = None
                       \/ /\ hosts[i] # None
                          /\ hosts'[i].source = hosts[i].source /\ hosts'[i].key = hosts[i].key
    BY <1>1, <1>2, HostsAfterIs DEF Live, Rows
  <2>3. Placing(hosts, hosts', c, snap.hosts, hostAt)
    BY <2>1, <2>2 DEF Placing
  <2> QED BY <1>2, <2>3, UniqueAfter
<1>4. UniqueIn(services')
  <2>1. \A k \in DOMAIN snap.services :
          /\ serviceAt[k] \in Ids
          /\ services'[serviceAt[k]] # None /\ services'[serviceAt[k]].source = c
          /\ services'[serviceAt[k]].key = k
          /\ WithKey(services, c, k) # {} => serviceAt[k] \in WithKey(services, c, k)
    BY <1>1, <1>2, ServicesAfterIs, ServicePlaced
  <2>2. \A i \in Ids : \/ \E k \in DOMAIN snap.services : i = serviceAt[k]
                       \/ services'[i] = None
                       \/ /\ services[i] # None
                          /\ services'[i].source = services[i].source
                          /\ services'[i].key = services[i].key
    BY <1>1, <1>2, ServicesAfterIs DEF Live, Rows
  <2>3. Placing(services, services', c, DOMAIN snap.services, serviceAt)
    BY <2>1, <2>2 DEF Placing
  <2> QED BY <1>2, <2>3, UniqueAfter
<1>5. UniqueIn(ports')
  <2>1. \A k \in snap.ports :
          /\ portAt[k] \in Ids
          /\ ports'[portAt[k]] # None /\ ports'[portAt[k]].source = c /\ ports'[portAt[k]].key = k
          /\ WithKey(ports, c, k) # {} => portAt[k] \in WithKey(ports, c, k)
    BY <1>1, <1>2, PortsAfterIs, PortPlaced
  <2>2. \A i \in Ids : \/ \E k \in snap.ports : i = portAt[k]
                       \/ ports'[i] = None
                       \/ /\ ports[i] # None
                          /\ ports'[i].source = ports[i].source /\ ports'[i].key = ports[i].key
    BY <1>1, <1>2, PortsAfterIs
  <2>3. Placing(ports, ports', c, snap.ports, portAt)
    BY <2>1, <2>2 DEF Placing
  <2> QED BY <1>2, <2>3, UniqueAfter
<1> QED BY <1>3, <1>4, <1>5

LEMMA ApplyKeepsHosts ==
  ASSUME InventoryInv, NEW c \in Sources, NEW snap \in Snapshot,
         NEW hostAt, NEW serviceAt, NEW portAt, Scanned(c, snap, hostAt, serviceAt, portAt)
  PROVE  ServicesOnHosts'
<1>1. /\ hostAt \in HostPlacements(c, snap) /\ hosts' = HostsAfter(c, hostAt)
      /\ serviceAt \in ServicePlacements(c, snap, hostAt)
      /\ services' = ServicesAfter(c, snap, hostAt, serviceAt)
  BY DEF Scanned
<1>2. TypeOK /\ ServicesOnHosts
  BY DEF InventoryInv
<1> SUFFICES ASSUME NEW i \in Ids, services'[i] # None, services'[i].state = "active",
                    services'[i].host # None
             PROVE  /\ services'[i].host \in Ids
                    /\ hosts'[services'[i].host] # None
                    /\ hosts'[services'[i].host].source = services'[i].source
                    /\ hosts'[services'[i].host].state = "active"
  BY DEF ServicesOnHosts, Rows, Live
<1>3. CASE i \in Range(serviceAt)
  <2>1. PICK k \in DOMAIN snap.services : i = serviceAt[k]
    BY <1>1, <1>2, <1>3, ServicesAfterIs
  <2>2. services'[i].host = HostId(hostAt, snap.services[k].host) /\ services'[i].source = c
    BY <1>1, <1>2, <2>1, ServicesAfterIs
  <2>3. snap.services[k].host \in snap.hosts /\ services'[i].host = hostAt[snap.services[k].host]
    BY <1>1, <2>2, HostIdIs
  <2> QED BY <1>1, <1>2, <2>2, <2>3, HostsAfterIs
<1>4. CASE i \notin Range(serviceAt)
  <2>1. i \notin Live(services, c) /\ services'[i] = services[i]
    BY <1>1, <1>2, <1>4, ServicesAfterIs
  <2>2. services[i].source # c
    BY <2>1 DEF Live, Rows
  <2>3. services[i].host \in Live(hosts, services[i].source)
    BY <1>2, <2>1 DEF ServicesOnHosts, Rows
  <2> DEFINE h == services[i].host
  <2>4. h \in Ids /\ hosts[h] # None /\ hosts[h].source = services[i].source /\ hosts[h].state = "active"
    BY <2>3 DEF Live, Rows
  <2>5. hosts'[h] = hosts[h]
    BY <1>2, <2>2, <2>4, OthersStay
  <2> QED BY <2>1, <2>4, <2>5
<1> QED BY <1>3, <1>4

LEMMA ApplyKeepsPorts ==
  ASSUME InventoryInv, NEW c \in Sources, NEW snap \in Snapshot,
         NEW hostAt, NEW serviceAt, NEW portAt, Scanned(c, snap, hostAt, serviceAt, portAt)
  PROVE  PortsFollowServices'
<1>1. /\ hostAt \in HostPlacements(c, snap)
      /\ serviceAt \in ServicePlacements(c, snap, hostAt)
      /\ services' = ServicesAfter(c, snap, hostAt, serviceAt)
      /\ portAt \in PortPlacements(c, snap, serviceAt)
      /\ ports' = PortsAfter(c, snap, hostAt, serviceAt, portAt)
  BY DEF Scanned
<1>2. TypeOK /\ PortsFollowServices
  BY DEF InventoryInv
<1> SUFFICES ASSUME NEW i \in Ids, ports'[i] # None
             PROVE  LET s == ports'[i].service IN
                    /\ s \in Ids /\ services'[s] # None
                    /\ services'[s].source = ports'[i].source /\ services'[s].state = "active"
                    /\ ports'[i].key = <<services'[s].key, ports'[i].tuple>>
                    /\ ports'[i].host = services'[s].host
  BY DEF PortsFollowServices, Rows, Live
<1>3. CASE i \in Range(portAt)
  <2>1. PICK k \in snap.ports : i = portAt[k]
    BY <1>1, <1>2, <1>3, PortsAfterIs
  <2>2. /\ ports'[i].source = c /\ ports'[i].key = k
        /\ k[1] \in DOMAIN snap.services
        /\ ports'[i].service = serviceAt[k[1]]
        /\ ports'[i].host = HostId(hostAt, snap.services[k[1]].host)
        /\ ports'[i].tuple = k[2]
    BY <1>1, <1>2, <2>1, PortsAfterIs
  <2> DEFINE s == serviceAt[k[1]]
  <2>3. /\ s \in Ids /\ services'[s] # None /\ services'[s].source = c
        /\ services'[s].key = k[1] /\ services'[s].state = "active"
        /\ services'[s].host = HostId(hostAt, snap.services[k[1]].host)
    BY <1>1, <1>2, <2>2, ServicesAfterIs
  <2>4. k = <<k[1], k[2]>>
    BY SnapshotType
  <2> QED BY <2>2, <2>3, <2>4
<1>4. CASE i \notin Range(portAt)
  <2>1. ports'[i] = ports[i] /\ ports[i].source # c
    BY <1>1, <1>2, <1>4, PortsAfterIs DEF Rows
  <2> DEFINE s == ports[i].service
  <2>2. /\ s \in Ids /\ services[s] # None
        /\ services[s].source = ports[i].source /\ services[s].state = "active"
        /\ ports[i].key = <<services[s].key, ports[i].tuple>>
        /\ ports[i].host = services[s].host
    BY <1>2, <2>1 DEF PortsFollowServices, Rows, Live
  <2>3. services'[s] = services[s]
    BY <1>2, <2>1, <2>2, OthersStay
  <2> QED BY <2>1, <2>2, <2>3
<1> QED BY <1>3, <1>4

(* The source shows its newest snapshot. *)
LEMMA ApplyShows ==
  ASSUME InventoryInv, NEW c \in Sources, NEW snap \in Snapshot,
         NEW hostAt, NEW serviceAt, NEW portAt, Scanned(c, snap, hostAt, serviceAt, portAt)
  PROVE  Shows(c, snap)'
<1>1. /\ hostAt \in HostPlacements(c, snap) /\ hosts' = HostsAfter(c, hostAt)
      /\ serviceAt \in ServicePlacements(c, snap, hostAt)
      /\ services' = ServicesAfter(c, snap, hostAt, serviceAt)
      /\ portAt \in PortPlacements(c, snap, serviceAt)
      /\ ports' = PortsAfter(c, snap, hostAt, serviceAt, portAt)
  BY DEF Scanned
<1>2. TypeOK
  BY DEF InventoryInv
<1>3. HostsShow(c, snap)'
  <2>1. ASSUME NEW i \in Ids, hosts'[i] # None, hosts'[i].source = c, hosts'[i].state = "active"
        PROVE  hosts'[i].key \in snap.hosts
    <3>1. i \in Range(hostAt)
      BY <1>1, <1>2, <2>1, HostsAfterIs DEF Live, Rows
    <3> QED BY <1>1, <1>2, <3>1, HostsAfterIs
  <2>2. \A h \in snap.hosts : /\ hostAt[h] \in Ids /\ hosts'[hostAt[h]] # None
                              /\ hosts'[hostAt[h]].source = c
                              /\ hosts'[hostAt[h]].state = "active" /\ hosts'[hostAt[h]].key = h
    BY <1>1, <1>2, HostsAfterIs
  <2> QED BY <2>1, <2>2 DEF HostsShow, Live, Rows
<1>4. ASSUME NEW k \in DOMAIN snap.services
      PROVE  LET i == serviceAt[k] IN
             /\ i \in Ids /\ services'[i] # None /\ services'[i].source = c
             /\ services'[i].state = "active" /\ services'[i].key = k
             /\ services'[i].name = snap.services[k].name
             /\ services'[i].version = snap.services[k].version
             /\ HostOf(i)' = LinkOf(snap, k)
  <2> DEFINE i == serviceAt[k]
             h == snap.services[k].host
  <2>1. /\ i \in Ids /\ services'[i] # None /\ services'[i].source = c
        /\ services'[i].state = "active" /\ services'[i].key = k
        /\ services'[i].name = snap.services[k].name
        /\ services'[i].version = snap.services[k].version
        /\ services'[i].host = HostId(hostAt, h)
    BY <1>1, <1>2, ServicesAfterIs
  <2>2. HostOf(i)' = IF services'[i].host = None THEN None ELSE hosts'[services'[i].host].key
    BY <1>1 DEF HostOf
  <2>3. CASE h \in snap.hosts
    <3>1. HostId(hostAt, h) = hostAt[h] /\ hostAt[h] \in Ids /\ hostAt[h] # None
      BY <1>1, <2>3, HostIdIs, NoneApart
    <3>2. hosts'[hostAt[h]].key = h
      BY <1>1, <1>2, <2>3, HostsAfterIs
    <3> QED BY <2>1, <2>2, <2>3, <3>1, <3>2 DEF LinkOf
  <2>4. CASE h \notin snap.hosts
    BY <1>1, <2>1, <2>2, <2>4, HostIdIs DEF LinkOf
  <2> QED BY <2>1, <2>3, <2>4
<1>5. ServicesShow(c, snap)'
  <2>1. ASSUME NEW i \in Ids, services'[i] # None, services'[i].source = c,
               services'[i].state = "active"
        PROVE  /\ services'[i].key \in DOMAIN snap.services
               /\ i = serviceAt[services'[i].key]
    <3>1. i \in Range(serviceAt)
      BY <1>1, <1>2, <2>1, ServicesAfterIs DEF Live, Rows
    <3> QED BY <1>1, <1>2, <3>1, ServicesAfterIs
  <2>2. ASSUME NEW i \in Ids, services'[i] # None, services'[i].source = c,
               services'[i].state = "active"
        PROVE  LET k == services'[i].key IN
               /\ k \in DOMAIN snap.services
               /\ services'[i].name = snap.services[k].name
               /\ services'[i].version = snap.services[k].version
               /\ HostOf(i)' = LinkOf(snap, k)
    <3>1. PICK k \in DOMAIN snap.services : i = serviceAt[k] /\ services'[i].key = k
      BY <2>1, <2>2
    <3>2. /\ services'[i].name = snap.services[k].name
          /\ services'[i].version = snap.services[k].version
          /\ HostOf(i)' = LinkOf(snap, k)
      BY <1>4, <3>1
    <3> QED BY <3>1, <3>2
  <2>3. \A k \in DOMAIN snap.services :
          \E i \in Ids : /\ services'[i] # None /\ services'[i].source = c
                         /\ services'[i].state = "active" /\ services'[i].key = k
    BY <1>4
  <2> QED BY <2>2, <2>3 DEF ServicesShow, Live, Rows, LinkOf
<1>6. PortsShow(c, snap)'
  <2>1. ASSUME NEW i \in Ids, ports'[i] # None, ports'[i].source = c
        PROVE  ports'[i].key \in snap.ports
    <3>1. i \in Range(portAt)
      BY <1>1, <1>2, <2>1, PortsAfterIs DEF Rows
    <3> QED BY <1>1, <1>2, <3>1, PortsAfterIs
  <2>2. \A k \in snap.ports : /\ portAt[k] \in Ids /\ ports'[portAt[k]] # None
                              /\ ports'[portAt[k]].source = c /\ ports'[portAt[k]].key = k
    BY <1>1, <1>2, PortsAfterIs
  <2> QED BY <2>1, <2>2 DEF PortsShow, Rows
<1> QED BY <1>3, <1>5, <1>6 DEF Shows

(* What a source shows depends on its present hosts, services and ports alone. *)
LEMMA ShownStays ==
  ASSUME InventoryInv, NEW c \in Sources, NEW snap, Shows(c, snap),
         \A i \in Ids :
           /\ i \in Live(hosts, c) <=> i \in Ids /\ hosts'[i] # None /\ hosts'[i].source = c
                                                 /\ hosts'[i].state = "active"
           /\ i \in Live(hosts, c) => hosts'[i].key = hosts[i].key
           /\ i \in Live(services, c) <=>
                i \in Ids /\ services'[i] # None /\ services'[i].source = c
                          /\ services'[i].state = "active"
           /\ i \in Live(services, c) =>
                /\ services'[i].key = services[i].key /\ services'[i].name = services[i].name
                /\ services'[i].version = services[i].version
                /\ services'[i].host = services[i].host
           /\ ports'[i] # None /\ ports'[i].source = c => ports'[i] = ports[i]
           /\ ports[i] # None /\ ports[i].source = c => ports'[i] = ports[i]
  PROVE  Shows(c, snap)'
<1>1. HostsShow(c, snap)'
  BY DEF Shows, HostsShow, Live, Rows
<1>2. PortsShow(c, snap)'
  BY DEF Shows, PortsShow, Rows
<1>3. ASSUME NEW i \in Live(services, c)
      PROVE  IF services'[i].host = None THEN HostOf(i) = None
             ELSE hosts'[services'[i].host].key = HostOf(i)
  <2>1. i \in Ids /\ services'[i].host = services[i].host
    BY DEF Live, Rows
  <2>2. services[i].host # None => services[i].host \in Live(hosts, c)
    BY DEF InventoryInv, ServicesOnHosts, Live
  <2>3. \A h \in Live(hosts, c) : hosts'[h].key = hosts[h].key
    BY DEF Live, Rows
  <2> QED BY <2>1, <2>2, <2>3 DEF HostOf
<1>4. ServicesShow(c, snap)'
  <2>1. ASSUME NEW i \in Ids, services'[i] # None, services'[i].source = c,
               services'[i].state = "active"
        PROVE  LET k == services'[i].key IN
               /\ k \in DOMAIN snap.services
               /\ services'[i].name = snap.services[k].name
               /\ services'[i].version = snap.services[k].version
               /\ HostOf(i)' = LinkOf(snap, k)
    <3>1. i \in Live(services, c)
      BY <2>1
    <3> DEFINE k == services[i].key
    <3>2. /\ services'[i].key = k /\ services'[i].name = services[i].name
          /\ services'[i].version = services[i].version
      BY <3>1
    <3>3. /\ k \in DOMAIN snap.services
          /\ services[i].name = snap.services[k].name
          /\ services[i].version = snap.services[k].version
          /\ HostOf(i) = LinkOf(snap, k)
      BY <3>1 DEF Shows, ServicesShow
    <3>4. HostOf(i)' = HostOf(i)
      BY <1>3, <3>1 DEF HostOf
    <3> HIDE DEF k
    <3> QED BY <3>2, <3>3, <3>4
  <2>2. \A k \in DOMAIN snap.services :
          \E i \in Ids : /\ services'[i] # None /\ services'[i].source = c
                         /\ services'[i].state = "active" /\ services'[i].key = k
    <3> SUFFICES ASSUME NEW k \in DOMAIN snap.services
                 PROVE  \E i \in Ids : /\ services'[i] # None /\ services'[i].source = c
                                       /\ services'[i].state = "active" /\ services'[i].key = k
      OBVIOUS
    <3>1. PICK i \in Live(services, c) : services[i].key = k
      BY DEF Shows, ServicesShow
    <3>2. i \in Ids
      BY DEF Live, Rows
    <3> QED BY <3>1, <3>2
  <2> QED BY <2>1, <2>2 DEF ServicesShow, Live, Rows, LinkOf
<1> QED BY <1>1, <1>2, <1>4 DEF Shows

Marks == {"none", "added", "modified", "removed"}

Filed(old, mark) == IF mark = "none" THEN old ELSE mark

(* What a scan makes of the feed, and of filed, as Apply has it. *)
FeedIs(c, hostAt, serviceAt, portAt) ==
  LET changes == [host |-> HostChanges(c, hostAt),
                  service |-> ServiceChanges(c, serviceAt, services'),
                  port |-> PortChanges(c, portAt)]
  IN /\ feed' = [e \in Entity |-> IF changes[e[1]][e[2]] = "none" THEN feed[e]
                                  ELSE changes[e[1]][e[2]]]
     /\ filed' = (\E e \in Entity : changes[e[1]][e[2]] # "none")

(* The feed after a scan, of each kind of entity. *)
LEMMA FeedAfterIs ==
  ASSUME NEW c, NEW hostAt, NEW serviceAt, NEW portAt,
         feed \in [Entity -> Marks],
         FeedIs(c, hostAt, serviceAt, portAt)
  PROVE  /\ feed' \in [Entity -> Marks]
         /\ \A i \in Ids :
              /\ feed'[<<"host", i>>] = Filed(feed[<<"host", i>>], HostChanges(c, hostAt)[i])
              /\ feed'[<<"service", i>>] = Filed(feed[<<"service", i>>], ServiceChanges(c, serviceAt, services')[i])
              /\ feed'[<<"port", i>>] = Filed(feed[<<"port", i>>], PortChanges(c, portAt)[i])
<1> DEFINE changes == [host |-> HostChanges(c, hostAt),
                       service |-> ServiceChanges(c, serviceAt, services'),
                       port |-> PortChanges(c, portAt)]
<1>1. feed' = [e \in Entity |-> IF changes[e[1]][e[2]] = "none" THEN feed[e] ELSE changes[e[1]][e[2]]]
  BY DEF FeedIs
<1>2. /\ changes["host"] = HostChanges(c, hostAt)
      /\ changes["service"] = ServiceChanges(c, serviceAt, services')
      /\ changes["port"] = PortChanges(c, portAt)
  OBVIOUS
<1> HIDE DEF changes
<1>3. \A i \in Ids : /\ <<"host", i>> \in Entity /\ <<"service", i>> \in Entity /\ <<"port", i>> \in Entity
  BY DEF Entity
<1>4. \A i \in Ids : /\ HostChanges(c, hostAt)[i] \in Marks
                     /\ ServiceChanges(c, serviceAt, services')[i] \in Marks
                     /\ PortChanges(c, portAt)[i] \in Marks
  BY DEF HostChanges, ServiceChanges, PortChanges, Marks
<1>5. \A i \in Ids :
        /\ feed'[<<"host", i>>] = Filed(feed[<<"host", i>>], HostChanges(c, hostAt)[i])
        /\ feed'[<<"service", i>>] = Filed(feed[<<"service", i>>], ServiceChanges(c, serviceAt, services')[i])
        /\ feed'[<<"port", i>>] = Filed(feed[<<"port", i>>], PortChanges(c, portAt)[i])
  BY <1>1, <1>2, <1>3 DEF Filed
<1>6. \A e \in Entity : changes[e[1]][e[2]] \in Marks
  BY <1>2, <1>4 DEF Entity
<1>7. feed' \in [Entity -> Marks]
  BY <1>1, <1>6
<1> QED BY <1>5, <1>7

LEMMA ApplyKeepsFeed ==
  ASSUME InventoryInv, NEW c \in Sources, NEW snap \in Snapshot,
         NEW hostAt, NEW serviceAt, NEW portAt, Scanned(c, snap, hostAt, serviceAt, portAt),
         \A i \in Ids :
           /\ feed'[<<"host", i>>] = Filed(feed[<<"host", i>>], HostChanges(c, hostAt)[i])
           /\ feed'[<<"service", i>>] =
                Filed(feed[<<"service", i>>], ServiceChanges(c, serviceAt, services')[i])
           /\ feed'[<<"port", i>>] = Filed(feed[<<"port", i>>], PortChanges(c, portAt)[i])
  PROVE  FeedMatchesState'
<1>1. /\ hostAt \in HostPlacements(c, snap) /\ hosts' = HostsAfter(c, hostAt)
      /\ serviceAt \in ServicePlacements(c, snap, hostAt)
      /\ services' = ServicesAfter(c, snap, hostAt, serviceAt)
      /\ portAt \in PortPlacements(c, snap, serviceAt)
      /\ ports' = PortsAfter(c, snap, hostAt, serviceAt, portAt)
  BY DEF Scanned
<1>2. TypeOK /\ FeedMatchesState
  BY DEF InventoryInv
<1>3. ASSUME NEW i \in Ids, hosts'[i] # None
      PROVE  feed'[<<"host", i>>] = "removed" <=> hosts'[i].state # "active"
  <2>1. HostChanges(c, hostAt)[i] =
          CASE i \in Range(hostAt) /\ hosts[i] = None -> "added"
            [] i \in Range(hostAt) /\ hosts[i] # None /\ hosts[i].state # "active" -> "modified"
            [] i \in Live(hosts, c) \ Range(hostAt) -> "removed"
            [] OTHER -> "none"
    BY DEF HostChanges
  <2>2. hosts[i] # None => (feed[<<"host", i>>] = "removed" <=> hosts[i].state # "active")
    BY <1>2 DEF FeedMatchesState, Rows
  <2>3. i \in Range(hostAt) => hosts'[i].state = "active"
    BY <1>1, <1>2, HostsAfterIs
  <2>4. i \notin Range(hostAt) => \/ i \in Live(hosts, c) /\ hosts'[i].state = "gone"
                                  \/ i \notin Live(hosts, c) /\ hosts'[i] = hosts[i]
    BY <1>1, <1>2, HostsAfterIs
  <2>5. CASE i \in Range(hostAt)
    BY <2>1, <2>2, <2>3, <2>5 DEF Filed
  <2>6. CASE i \notin Range(hostAt) /\ i \in Live(hosts, c)
    BY <2>1, <2>4, <2>6 DEF Filed
  <2>7. CASE i \notin Range(hostAt) /\ i \notin Live(hosts, c)
    BY <2>1, <2>2, <2>4, <2>7, <1>3 DEF Filed
  <2> QED BY <2>5, <2>6, <2>7
<1>4. ASSUME NEW i \in Ids, services'[i] # None
      PROVE  feed'[<<"service", i>>] = "removed" <=> services'[i].state # "active"
  <2>1. ServiceChanges(c, serviceAt, services')[i] =
          CASE i \in Range(serviceAt) /\ services[i] = None -> "added"
            [] i \in Range(serviceAt) /\ services[i] # None /\ Differs(services[i], services'[i])
                 -> "modified"
            [] i \in Live(services, c) \ Range(serviceAt) -> "removed"
            [] OTHER -> "none"
    BY DEF ServiceChanges
  <2>2. services[i] # None => (feed[<<"service", i>>] = "removed" <=> services[i].state # "active")
    BY <1>2 DEF FeedMatchesState, Rows
  <2>3. i \in Range(serviceAt) => services'[i].state = "active"
    BY <1>1, <1>2, ServicesAfterIs
  <2>4. i \notin Range(serviceAt) => \/ i \in Live(services, c) /\ services'[i].state = "gone"
                                     \/ i \notin Live(services, c) /\ services'[i] = services[i]
    BY <1>1, <1>2, ServicesAfterIs
  <2>5. services[i].state # services'[i].state => Differs(services[i], services'[i])
    BY DEF Differs
  <2>6. CASE i \in Range(serviceAt)
    BY <2>1, <2>2, <2>3, <2>5, <2>6 DEF Filed
  <2>7. CASE i \notin Range(serviceAt) /\ i \in Live(services, c)
    BY <2>1, <2>4, <2>7 DEF Filed
  <2>8. CASE i \notin Range(serviceAt) /\ i \notin Live(services, c)
    BY <2>1, <2>2, <2>4, <2>8, <1>4 DEF Filed
  <2> QED BY <2>6, <2>7, <2>8
<1>5. ASSUME NEW i \in Ids, ports'[i] # None
      PROVE  feed'[<<"port", i>>] \notin {"none", "removed"}
  <2>1. PortChanges(c, portAt)[i] =
          CASE i \in Range(portAt) /\ ports[i] = None -> "added"
            [] i \in Rows(ports) \ Range(portAt) /\ ports[i].source = c -> "removed"
            [] OTHER -> "none"
    BY DEF PortChanges
  <2>2. ports[i] # None => feed[<<"port", i>>] \notin {"none", "removed"}
    BY <1>2 DEF FeedMatchesState, Rows
  <2>3. i \notin Range(portAt) => ports'[i] = ports[i] /\ ~(i \in Rows(ports) /\ ports[i].source = c)
    BY <1>1, <1>2, <1>5, PortsAfterIs
  <2>4. CASE i \in Range(portAt)
    BY <2>1, <2>2, <2>4 DEF Filed
  <2>5. CASE i \notin Range(portAt)
    BY <2>1, <2>2, <2>3, <2>5, <1>5 DEF Filed
  <2> QED BY <2>4, <2>5
<1> QED BY <1>3, <1>4, <1>5 DEF FeedMatchesState, Rows

(* Apply, taken apart. *)
LEMMA ApplyIs ==
  ASSUME NEW c, NEW snap, Apply(c, snap)
  PROVE  \E hostAt, serviceAt, portAt :
           /\ Scanned(c, snap, hostAt, serviceAt, portAt)
           /\ FeedIs(c, hostAt, serviceAt, portAt)
           /\ last' = [last EXCEPT ![c] = snap]
<1>1. PICK hostAt \in HostPlacements(c, snap) :
       \E serviceAt \in ServicePlacements(c, snap, hostAt) :
       \E portAt \in PortPlacements(c, snap, serviceAt) :
         /\ Scanned(c, snap, hostAt, serviceAt, portAt)
         /\ FeedIs(c, hostAt, serviceAt, portAt)
         /\ last' = [last EXCEPT ![c] = snap]
  BY DEF Apply, Scanned, FeedIs
<1> QED BY <1>1

LEMMA SameShown ==
  ASSUME NEW c \in Sources, NEW snap, last'[c] = snap, Shows(c, snap)'
  PROVE  Shows(c, last[c])'
BY DEF Shows, HostsShow, ServicesShow, PortsShow, LinkOf, HostOf

LEMMA ApplyStep ==
  ASSUME InventoryInv, NEW c \in Sources, NEW snap \in Snapshot, Apply(c, snap)
  PROVE  InventoryInv'
<1>1. PICK hostAt, serviceAt, portAt :
        /\ Scanned(c, snap, hostAt, serviceAt, portAt)
        /\ FeedIs(c, hostAt, serviceAt, portAt)
        /\ last' = [last EXCEPT ![c] = snap]
  BY ApplyIs
<1>2. TypeOK /\ feed \in [Entity -> Marks]
  BY DEF InventoryInv, TypeOK, Marks
<1>3. /\ feed' \in [Entity -> Marks]
      /\ \A i \in Ids :
           /\ feed'[<<"host", i>>] = Filed(feed[<<"host", i>>], HostChanges(c, hostAt)[i])
           /\ feed'[<<"service", i>>] = Filed(feed[<<"service", i>>], ServiceChanges(c, serviceAt, services')[i])
           /\ feed'[<<"port", i>>] = Filed(feed[<<"port", i>>], PortChanges(c, portAt)[i])
  BY <1>1, <1>2, FeedAfterIs
<1>4. /\ hostAt \in HostPlacements(c, snap) /\ hosts' = HostsAfter(c, hostAt)
      /\ serviceAt \in ServicePlacements(c, snap, hostAt)
      /\ services' = ServicesAfter(c, snap, hostAt, serviceAt)
      /\ portAt \in PortPlacements(c, snap, serviceAt)
      /\ ports' = PortsAfter(c, snap, hostAt, serviceAt, portAt)
  BY <1>1 DEF Scanned
<1>5. /\ hosts' \in [Ids -> HostRow \cup {None}]
      /\ services' \in [Ids -> ServiceRow \cup {None}]
      /\ ports' \in [Ids -> PortRow \cup {None}]
  BY <1>2, <1>4, HostsAfterIs, ServicesAfterIs, PortsAfterIs
<1>6. filed' \in BOOLEAN
  BY <1>1 DEF FeedIs
<1>7. /\ last' \in [Sources -> Snapshot \cup {None}]
      /\ last'[c] = snap
      /\ \A d \in Sources : d # c => last'[d] = last[d]
  BY <1>1, <1>2 DEF TypeOK
<1>8. TypeOK'
  BY <1>3, <1>5, <1>6, <1>7 DEF TypeOK, Marks
<1>9. UniqueIn(hosts') /\ UniqueIn(services') /\ UniqueIn(ports')
  BY <1>1, ApplyKeepsKeys
<1>10. ServicesOnHosts' /\ PortsFollowServices'
  BY <1>1, ApplyKeepsHosts, ApplyKeepsPorts
<1>11. FeedMatchesState'
  BY <1>1, <1>3, ApplyKeepsFeed
<1>12. (\A d \in Sources : last[d] # None => Shows(d, last[d]))'
  <2> SUFFICES ASSUME NEW d \in Sources, last'[d] # None
               PROVE  Shows(d, last[d])'
    OBVIOUS
  <2>1. CASE d = c
    <3>1. Shows(d, snap)' /\ last'[d] = snap
      BY <1>1, <1>7, <2>1, ApplyShows
    <3> QED BY <3>1, SameShown
  <2>2. CASE d # c
    <3>1. PICK s : s = last[d]
      OBVIOUS
    <3>2. last'[d] = s /\ Shows(d, s)
      BY <1>7, <2>2, <3>1 DEF InventoryInv
    <3>3. ASSUME NEW i \in Ids
          PROVE  /\ i \in Live(hosts, d) <=> i \in Ids /\ hosts'[i] # None /\ hosts'[i].source = d
                                                        /\ hosts'[i].state = "active"
                 /\ i \in Live(hosts, d) => hosts'[i].key = hosts[i].key
                 /\ i \in Live(services, d) <=>
                      i \in Ids /\ services'[i] # None /\ services'[i].source = d
                                /\ services'[i].state = "active"
                 /\ i \in Live(services, d) =>
                      /\ services'[i].key = services[i].key /\ services'[i].name = services[i].name
                      /\ services'[i].version = services[i].version
                      /\ services'[i].host = services[i].host
                 /\ ports'[i] # None /\ ports'[i].source = d => ports'[i] = ports[i]
                 /\ ports[i] # None /\ ports[i].source = d => ports'[i] = ports[i]
      <4>1. /\ hosts[i] # None /\ hosts[i].source # c => hosts'[i] = hosts[i]
            /\ hosts'[i] # None /\ hosts'[i].source # c => hosts'[i] = hosts[i]
            /\ services[i] # None /\ services[i].source # c => services'[i] = services[i]
            /\ services'[i] # None /\ services'[i].source # c => services'[i] = services[i]
            /\ ports[i] # None /\ ports[i].source # c => ports'[i] = ports[i]
            /\ ports'[i] # None /\ ports'[i].source # c => ports'[i] = ports[i]
        BY <1>1, <1>2, OthersStay
      <4> QED BY <2>2, <4>1 DEF Live, Rows
    <3>4. Shows(d, s)'
      BY <3>2, <3>3, ShownStays
    <3> QED BY <3>2, <3>4, SameShown
  <2> QED BY <2>1, <2>2
<1>13. UniqueIn(hosts)' /\ UniqueIn(services)' /\ UniqueIn(ports)'
  BY <1>9 DEF UniqueIn, Rows
<1> QED BY <1>8, <1>10, <1>11, <1>12, <1>13 DEF InventoryInv

-----------------------------------------------------------------------------
(* Time, the purge and the removal of a source. *)

(* Rows that stay keep their key, and their source unless they lose it. *)
Keeping(table, after) ==
  \A i \in Ids : after[i] # None =>
    /\ table[i] # None /\ after[i].key = table[i].key
    /\ after[i].source \in {table[i].source, None}

LEMMA UniqueKept ==
  ASSUME NEW table, NEW after, UniqueIn(table), Keeping(table, after)
  PROVE  UniqueIn(after)
BY DEF UniqueIn, Keeping, Rows

(* What all sources show stays, if the newest snapshots do. *)
LEMMA AllShown ==
  ASSUME InventoryInv,
         \A c \in Sources : last'[c] # None => last'[c] = last[c],
         \A c \in Sources : last'[c] # None => \A i \in Ids :
           /\ i \in Live(hosts, c) <=> i \in Ids /\ hosts'[i] # None /\ hosts'[i].source = c
                                                 /\ hosts'[i].state = "active"
           /\ i \in Live(hosts, c) => hosts'[i].key = hosts[i].key
           /\ i \in Live(services, c) <=>
                i \in Ids /\ services'[i] # None /\ services'[i].source = c
                          /\ services'[i].state = "active"
           /\ i \in Live(services, c) =>
                /\ services'[i].key = services[i].key /\ services'[i].name = services[i].name
                /\ services'[i].version = services[i].version
                /\ services'[i].host = services[i].host
           /\ ports'[i] # None /\ ports'[i].source = c => ports'[i] = ports[i]
           /\ ports[i] # None /\ ports[i].source = c => ports'[i] = ports[i]
  PROVE  (\A c \in Sources : last[c] # None => Shows(c, last[c]))'
<1> SUFFICES ASSUME NEW c \in Sources, last'[c] # None
             PROVE  Shows(c, last[c])'
  OBVIOUS
<1>1. PICK s : s = last[c]
  OBVIOUS
<1>2. last'[c] = s /\ Shows(c, s)
  BY <1>1 DEF InventoryInv
<1>3. Shows(c, s)'
  BY <1>2, ShownStays
<1> QED BY <1>2, <1>3, SameShown

LEMMA ElapseStep == ASSUME InventoryInv, Elapse PROVE InventoryInv'
<1>1. TypeOK /\ UNCHANGED <<ports, feed, last>> /\ filed' = FALSE
  BY DEF InventoryInv, Elapse
<1>2. ASSUME NEW i \in Ids
      PROVE  /\ hosts'[i] \in HostRow \cup {None}
             /\ hosts'[i] # None <=> hosts[i] # None
             /\ hosts[i] # None => /\ hosts'[i].source = hosts[i].source
                                   /\ hosts'[i].key = hosts[i].key
                                   /\ hosts'[i].state = "active" <=> hosts[i].state = "active"
  <2>1. hosts'[i] = IF hosts[i] # None /\ hosts[i].state = "gone"
                    THEN [hosts[i] EXCEPT !.state = "expired"] ELSE hosts[i]
    BY DEF Elapse, Rows
  <2>2. hosts[i] \in HostRow \cup {None}
    BY <1>1 DEF TypeOK
  <2>3. CASE hosts[i] # None /\ hosts[i].state = "gone"
    <3>1. hosts'[i] = [hosts[i] EXCEPT !.state = "expired"] /\ hosts[i] \in HostRow
      BY <2>1, <2>2, <2>3
    <3>2. hosts'[i] \in HostRow
      BY <3>1 DEF HostRow, Gone
    <3> QED BY <2>3, <3>1, <3>2, NoneApart DEF HostRow
  <2>4. CASE ~(hosts[i] # None /\ hosts[i].state = "gone")
    BY <2>1, <2>2, <2>4
  <2> QED BY <2>3, <2>4
<1>3. ASSUME NEW i \in Ids
      PROVE  /\ services'[i] \in ServiceRow \cup {None}
             /\ services'[i] # None <=> services[i] # None
             /\ services[i] # None => /\ services'[i].source = services[i].source
                                      /\ services'[i].key = services[i].key
                                      /\ services'[i].name = services[i].name
                                      /\ services'[i].version = services[i].version
                                      /\ services'[i].host = services[i].host
                                      /\ services'[i].state = "active" <=> services[i].state = "active"
  <2>1. services'[i] = IF services[i] # None /\ services[i].state = "gone"
                       THEN [services[i] EXCEPT !.state = "expired"] ELSE services[i]
    BY DEF Elapse, Rows
  <2>2. services[i] \in ServiceRow \cup {None}
    BY <1>1 DEF TypeOK
  <2>3. CASE services[i] # None /\ services[i].state = "gone"
    <3>1. services'[i] = [services[i] EXCEPT !.state = "expired"] /\ services[i] \in ServiceRow
      BY <2>1, <2>2, <2>3
    <3>2. services'[i] \in ServiceRow
      BY <3>1 DEF ServiceRow, Gone
    <3>3. services'[i].state = "expired"
      BY <3>1 DEF ServiceRow
    <3> QED BY <2>3, <3>1, <3>2, <3>3, NoneApart DEF ServiceRow
  <2>4. CASE ~(services[i] # None /\ services[i].state = "gone")
    BY <2>1, <2>2, <2>4
  <2> QED BY <2>3, <2>4
<1>4. hosts' = [i \in Ids |-> hosts'[i]] /\ services' = [i \in Ids |-> services'[i]]
  BY DEF Elapse
<1>5. hosts' \in [Ids -> HostRow \cup {None}] /\ services' \in [Ids -> ServiceRow \cup {None}]
  BY <1>2, <1>3, <1>4, Zenon
<1>6. TypeOK'
  BY <1>1, <1>5 DEF TypeOK
<1>7. UniqueIn(hosts') /\ UniqueIn(services') /\ UniqueIn(ports')
  <2>1. Keeping(hosts, hosts') /\ Keeping(services, services')
    BY <1>2, <1>3 DEF Keeping
  <2> QED BY <1>1, <2>1, UniqueKept DEF InventoryInv
<1>8. ServicesOnHosts'
  BY <1>2, <1>3 DEF InventoryInv, ServicesOnHosts, Live, Rows
<1>9. PortsFollowServices'
  BY <1>1, <1>3 DEF InventoryInv, PortsFollowServices, Live, Rows
<1>10. FeedMatchesState'
  BY <1>1, <1>2, <1>3 DEF InventoryInv, FeedMatchesState, Rows
<1>11. (\A c \in Sources : last[c] # None => Shows(c, last[c]))'
  BY <1>1, <1>2, <1>3, AllShown DEF Live, Rows
<1>12. UniqueIn(hosts)' /\ UniqueIn(services)' /\ UniqueIn(ports)'
  BY <1>7 DEF UniqueIn, Rows
<1> QED BY <1>6, <1>8, <1>9, <1>10, <1>11, <1>12 DEF InventoryInv

(* The purge takes expired rows, and nothing that is present hangs on one of them. *)
LEMMA PurgeIs ==
  ASSUME InventoryInv, PurgeGone
  PROVE  /\ UNCHANGED <<ports, feed, last>> /\ filed' = FALSE
         /\ hosts' = [i \in Ids |-> hosts'[i]] /\ services' = [i \in Ids |-> services'[i]]
         /\ \A i \in Ids : \/ hosts'[i] = hosts[i]
                           \/ hosts'[i] = None /\ hosts[i] # None /\ hosts[i].state # "active"
         /\ \A i \in Ids :
              \/ services'[i] = services[i]
              \/ services'[i] = None /\ services[i] # None /\ services[i].state # "active"
              \/ /\ services[i] # None /\ services[i].state # "active"
                 /\ services'[i] = [services[i] EXCEPT !.host = None]
<1> DEFINE Due(table) == {i \in Rows(table) : table[i].state = "expired"}
<1>1. /\ hosts' = [i \in Ids |-> IF i \in Due(hosts) THEN None ELSE hosts[i]]
      /\ services' = [i \in Ids |->
           IF i \in Due(services) THEN None
           ELSE IF i \in Rows(services) /\ services[i].host \in Due(hosts)
             THEN [services[i] EXCEPT !.host = None]
           ELSE services[i]]
      /\ ports' = [i \in Ids |->
           IF i \in Rows(ports) /\ (ports[i].service \in Due(services) \/ ports[i].host \in Due(hosts))
             THEN None ELSE ports[i]]
      /\ filed' = FALSE
      /\ UNCHANGED <<feed, last>>
  BY DEF PurgeGone
<1>2. TypeOK /\ ServicesOnHosts /\ PortsFollowServices
  BY DEF InventoryInv
<1>3. \A i \in Rows(services) : services[i].state = "active" => services[i].host \notin Due(hosts)
  <2> SUFFICES ASSUME NEW i \in Rows(services), services[i].state = "active",
                      services[i].host \in Due(hosts)
               PROVE  FALSE
    OBVIOUS
  <2>1. services[i].host # None
    BY NoneApart DEF Rows
  <2>2. services[i].host \in Live(hosts, services[i].source)
    BY <1>2, <2>1 DEF ServicesOnHosts
  <2> QED BY <2>2 DEF Live
<1>4. \A i \in Rows(ports) : ports[i].service \notin Due(services) /\ ports[i].host \notin Due(hosts)
  <2> SUFFICES ASSUME NEW i \in Rows(ports)
               PROVE  ports[i].service \notin Due(services) /\ ports[i].host \notin Due(hosts)
    OBVIOUS
  <2>1. /\ ports[i].service \in Rows(services) /\ services[ports[i].service].state = "active"
        /\ ports[i].host = services[ports[i].service].host
    BY <1>2 DEF PortsFollowServices, Live
  <2> QED BY <1>3, <2>1
<1>5. ports' = ports
  <2>1. ports = [i \in Ids |-> ports[i]]
    BY <1>2 DEF TypeOK
  <2>2. \A i \in Ids : ports'[i] = ports[i]
    BY <1>1, <1>4
  <2>3. ports' = [i \in Ids |-> ports'[i]]
    BY <1>1
  <2> QED BY <2>1, <2>2, <2>3
<1>6. \A i \in Ids : \/ hosts'[i] = hosts[i]
                     \/ hosts'[i] = None /\ hosts[i] # None /\ hosts[i].state # "active"
  BY <1>1 DEF Rows
<1>7. \A i \in Ids :
        \/ services'[i] = services[i]
        \/ services'[i] = None /\ services[i] # None /\ services[i].state # "active"
        \/ /\ services[i] # None /\ services[i].state # "active"
           /\ services'[i] = [services[i] EXCEPT !.host = None]
  BY <1>1, <1>3 DEF Rows
<1>8. hosts' = [i \in Ids |-> hosts'[i]] /\ services' = [i \in Ids |-> services'[i]]
  BY <1>1
<1> QED BY <1>1, <1>5, <1>6, <1>7, <1>8

LEMMA PurgeStep == ASSUME InventoryInv, PurgeGone PROVE InventoryInv'
<1>1. TypeOK /\ UNCHANGED <<ports, feed, last>> /\ filed' = FALSE
  BY PurgeIs DEF InventoryInv
<1>2. \A i \in Ids : \/ hosts'[i] = hosts[i]
                     \/ hosts'[i] = None /\ hosts[i] # None /\ hosts[i].state # "active"
  BY PurgeIs
<1>3. ASSUME NEW i \in Ids
      PROVE  /\ services'[i] \in ServiceRow \cup {None}
             /\ services'[i] # None =>
                  /\ services[i] # None
                  /\ services'[i].source = services[i].source
                  /\ services'[i].key = services[i].key
                  /\ services'[i].state = services[i].state
             /\ services[i] # None /\ services[i].state = "active" => services'[i] = services[i]
  <2>1. services[i] \in ServiceRow \cup {None}
    BY <1>1 DEF TypeOK
  <2>2. CASE services'[i] = services[i]
    BY <2>1, <2>2
  <2>3. CASE services'[i] = None /\ services[i] # None /\ services[i].state # "active"
    BY <2>3
  <2>4. CASE /\ services[i] # None /\ services[i].state # "active"
             /\ services'[i] = [services[i] EXCEPT !.host = None]
    BY <2>1, <2>4 DEF ServiceRow
  <2> QED BY <2>2, <2>3, <2>4, PurgeIs
<1>4. hosts' = [i \in Ids |-> hosts'[i]] /\ services' = [i \in Ids |-> services'[i]]
  BY PurgeIs
<1>5. hosts' \in [Ids -> HostRow \cup {None}] /\ services' \in [Ids -> ServiceRow \cup {None}]
  <2>1. \A i \in Ids : hosts'[i] \in HostRow \cup {None}
    BY <1>1, <1>2 DEF TypeOK
  <2> QED BY <1>3, <1>4, <2>1, Zenon
<1>6. TypeOK'
  BY <1>1, <1>5 DEF TypeOK
<1>7. UniqueIn(hosts') /\ UniqueIn(services') /\ UniqueIn(ports')
  <2>1. Keeping(hosts, hosts') /\ Keeping(services, services')
    BY <1>2, <1>3 DEF Keeping
  <2> QED BY <1>1, <2>1, UniqueKept DEF InventoryInv
<1>8. ServicesOnHosts'
  BY <1>2, <1>3 DEF InventoryInv, ServicesOnHosts, Live, Rows
<1>9. PortsFollowServices'
  BY <1>1, <1>3 DEF InventoryInv, PortsFollowServices, Live, Rows
<1>10. FeedMatchesState'
  BY <1>1, <1>2, <1>3 DEF InventoryInv, FeedMatchesState, Rows
<1>11. (\A c \in Sources : last[c] # None => Shows(c, last[c]))'
  BY <1>1, <1>2, <1>3, AllShown DEF Live, Rows
<1>12. UniqueIn(hosts)' /\ UniqueIn(services)' /\ UniqueIn(ports)'
  BY <1>7 DEF UniqueIn, Rows
<1> QED BY <1>6, <1>8, <1>9, <1>10, <1>11, <1>12 DEF InventoryInv

LEMMA DeleteSourceStep ==
  ASSUME InventoryInv, NEW c \in Sources, DeleteSource(c)
  PROVE  InventoryInv'
<1>1. TypeOK /\ UNCHANGED feed /\ filed' = FALSE /\ last' = [last EXCEPT ![c] = None]
  BY DEF InventoryInv, DeleteSource
<1>2. ASSUME NEW i \in Ids
      PROVE  /\ hosts'[i] \in HostRow \cup {None}
             /\ hosts'[i] # None <=> hosts[i] # None
             /\ hosts[i] # None =>
                  /\ hosts'[i].source = IF hosts[i].source = c THEN None ELSE hosts[i].source
                  /\ hosts'[i].key = hosts[i].key
                  /\ hosts'[i].state = hosts[i].state
  <2>1. hosts'[i] = IF hosts[i] # None /\ hosts[i].source = c
                    THEN [hosts[i] EXCEPT !.source = None] ELSE hosts[i]
    BY DEF DeleteSource, Rows
  <2>2. hosts[i] \in HostRow \cup {None}
    BY <1>1 DEF TypeOK
  <2>3. CASE hosts[i] # None /\ hosts[i].source = c
    <3>1. hosts'[i] = [hosts[i] EXCEPT !.source = None] /\ hosts[i] \in HostRow
      BY <2>1, <2>2, <2>3
    <3>2. /\ hosts'[i] \in HostRow /\ hosts'[i].source = None
          /\ hosts'[i].key = hosts[i].key /\ hosts'[i].state = hosts[i].state
      BY <3>1 DEF HostRow
    <3> QED BY <2>3, <3>2, NoneApart
  <2>4. CASE ~(hosts[i] # None /\ hosts[i].source = c)
    BY <2>1, <2>2, <2>4
  <2> QED BY <2>3, <2>4
<1>3. ASSUME NEW i \in Ids
      PROVE  /\ services'[i] \in ServiceRow \cup {None}
             /\ services'[i] # None <=> services[i] # None
             /\ services[i] # None =>
                  /\ services'[i].source = IF services[i].source = c THEN None ELSE services[i].source
                  /\ services'[i].key = services[i].key
                  /\ services'[i].name = services[i].name
                  /\ services'[i].version = services[i].version
                  /\ services'[i].host = services[i].host
                  /\ services'[i].state = services[i].state
  <2>1. services'[i] = IF services[i] # None /\ services[i].source = c
                       THEN [services[i] EXCEPT !.source = None] ELSE services[i]
    BY DEF DeleteSource, Rows
  <2>2. services[i] \in ServiceRow \cup {None}
    BY <1>1 DEF TypeOK
  <2>3. CASE services[i] # None /\ services[i].source = c
    <3>1. services'[i] = [services[i] EXCEPT !.source = None] /\ services[i] \in ServiceRow
      BY <2>1, <2>2, <2>3
    <3>2. /\ services'[i] \in ServiceRow /\ services'[i].source = None
          /\ services'[i].key = services[i].key /\ services'[i].state = services[i].state
          /\ services'[i].name = services[i].name /\ services'[i].version = services[i].version
          /\ services'[i].host = services[i].host
      BY <3>1 DEF ServiceRow
    <3> QED BY <2>3, <3>2, NoneApart
  <2>4. CASE ~(services[i] # None /\ services[i].source = c)
    BY <2>1, <2>2, <2>4
  <2> QED BY <2>3, <2>4
<1>4. \A i \in Ids : ports'[i] = IF ports[i] # None /\ ports[i].source = c THEN None ELSE ports[i]
  BY DEF DeleteSource, Rows
<1>5. /\ hosts' = [i \in Ids |-> hosts'[i]] /\ services' = [i \in Ids |-> services'[i]]
      /\ ports' = [i \in Ids |-> ports'[i]]
  BY DEF DeleteSource
<1>6. /\ hosts' \in [Ids -> HostRow \cup {None}] /\ services' \in [Ids -> ServiceRow \cup {None}]
      /\ ports' \in [Ids -> PortRow \cup {None}]
  <2>1. \A i \in Ids : ports'[i] \in PortRow \cup {None}
    BY <1>1, <1>4 DEF TypeOK
  <2> QED BY <1>2, <1>3, <1>5, <2>1, Zenon
<1>7. TypeOK'
  BY <1>1, <1>6 DEF TypeOK
<1>8. UniqueIn(hosts') /\ UniqueIn(services') /\ UniqueIn(ports')
  <2>1. Keeping(hosts, hosts') /\ Keeping(services, services') /\ Keeping(ports, ports')
    BY <1>2, <1>3, <1>4 DEF Keeping
  <2> QED BY <2>1, UniqueKept DEF InventoryInv
<1>9. ServicesOnHosts'
  BY <1>2, <1>3 DEF InventoryInv, ServicesOnHosts, Live, Rows
<1>10. PortsFollowServices'
  BY <1>3, <1>4 DEF InventoryInv, PortsFollowServices, Live, Rows
<1>11. FeedMatchesState'
  BY <1>1, <1>2, <1>3, <1>4 DEF InventoryInv, FeedMatchesState, Rows
<1>12. (\A d \in Sources : last[d] # None => Shows(d, last[d]))'
  <2>1. \A d \in Sources : last'[d] # None => d # c /\ last'[d] = last[d]
    BY <1>1 DEF TypeOK
  <2>2. ASSUME NEW d \in Sources, d # c, NEW i \in Ids
        PROVE  /\ i \in Live(hosts, d) <=> i \in Ids /\ hosts'[i] # None /\ hosts'[i].source = d
                                                     /\ hosts'[i].state = "active"
               /\ i \in Live(hosts, d) => hosts'[i].key = hosts[i].key
               /\ i \in Live(services, d) <=>
                    i \in Ids /\ services'[i] # None /\ services'[i].source = d
                              /\ services'[i].state = "active"
               /\ i \in Live(services, d) =>
                    /\ services'[i].key = services[i].key /\ services'[i].name = services[i].name
                    /\ services'[i].version = services[i].version
                    /\ services'[i].host = services[i].host
               /\ ports'[i] # None /\ ports'[i].source = d => ports'[i] = ports[i]
               /\ ports[i] # None /\ ports[i].source = d => ports'[i] = ports[i]
    <3>1. d # None
      BY NoneApart
    <3>2. i \in Live(hosts, d) <=> i \in Ids /\ hosts'[i] # None /\ hosts'[i].source = d
                                             /\ hosts'[i].state = "active"
      BY <1>2, <2>2, <3>1 DEF Live, Rows
    <3>3. i \in Live(services, d) <=>
            i \in Ids /\ services'[i] # None /\ services'[i].source = d
                      /\ services'[i].state = "active"
      BY <1>3, <2>2, <3>1 DEF Live, Rows
    <3>4. (i \in Live(hosts, d) => hosts[i] # None) /\ (i \in Live(services, d) => services[i] # None)
      BY DEF Live, Rows
    <3> QED BY <1>2, <1>3, <1>4, <2>2, <3>2, <3>3, <3>4
  <2> QED BY <2>1, <2>2, AllShown
<1>13. UniqueIn(hosts)' /\ UniqueIn(services)' /\ UniqueIn(ports)'
  BY <1>8 DEF UniqueIn, Rows
<1> QED BY <1>7, <1>9, <1>10, <1>11, <1>12, <1>13 DEF InventoryInv

LEMMA InitInv == Init => InventoryInv
<1> SUFFICES ASSUME Init
             PROVE  InventoryInv
  OBVIOUS
<1>1. TypeOK
  BY DEF Init, TypeOK
<1>2. Rows(hosts) = {} /\ Rows(services) = {} /\ Rows(ports) = {}
  BY DEF Init, Rows
<1>3. \A c \in Sources : last[c] = None
  BY DEF Init
<1> QED BY <1>1, <1>2, <1>3
        DEF InventoryInv, UniqueIn, ServicesOnHosts, PortsFollowServices, FeedMatchesState

LEMMA StutterStep == ASSUME InventoryInv, UNCHANGED vars PROVE InventoryInv'
BY DEF vars, InventoryInv, TypeOK, UniqueIn, ServicesOnHosts, PortsFollowServices, FeedMatchesState,
   Rows, Live, Shows, HostsShow, ServicesShow, PortsShow, HostOf, LinkOf

LEMMA NextInv == InventoryInv /\ [Next]_vars => InventoryInv'
<1> SUFFICES ASSUME InventoryInv, [Next]_vars
             PROVE  InventoryInv'
  OBVIOUS
<1>1. ASSUME NEW c \in Sources, NEW snap \in Snapshot, Apply(c, snap) PROVE InventoryInv'
  BY <1>1, ApplyStep
<1>2. CASE Elapse
  BY <1>2, ElapseStep
<1>3. CASE PurgeGone
  BY <1>3, PurgeStep
<1>4. ASSUME NEW c \in Sources, DeleteSource(c) PROVE InventoryInv'
  BY <1>4, DeleteSourceStep
<1>5. CASE UNCHANGED vars
  BY <1>5, StutterStep
<1> QED BY <1>1, <1>2, <1>3, <1>4, <1>5 DEF Next

LEMMA SpecInv == Spec => []InventoryInv
<1> QED BY InitInv, NextInv, PTL DEF Spec

-----------------------------------------------------------------------------

(* Tables and feed agree: keys are unique within a source, a port hangs under a present      *)
(* service of its source, and the newest entry of an entity is its removal if it is gone.    *)
THEOREM TablesStayInOrder == Spec => []TablesAgree
<1>1. InventoryInv => TablesAgree
  BY DEF InventoryInv, TablesAgree, KeysAreUnique, UniqueIn
<1> QED BY <1>1, SpecInv, PTL

LEMMA ShownIsReported ==
  ASSUME InventoryInv, NEW c \in Sources, last[c] # None
  PROVE  Shown(c) = Reported(last[c])
<1> DEFINE snap == last[c]
<1>1. snap \in Snapshot /\ Shows(c, snap)
  BY DEF InventoryInv, TypeOK
<1> HIDE DEF snap
<1>2. {hosts[i].key : i \in Live(hosts, c)} = snap.hosts
  BY <1>1 DEF Shows, HostsShow
<1>3. {ports[i].key : i \in {j \in Rows(ports) : ports[j].source = c}} = snap.ports
  BY <1>1 DEF Shows, PortsShow
<1>4. {services[i].key : i \in Live(services, c)} = DOMAIN snap.services
  BY <1>1 DEF Shows, ServicesShow
<1> DEFINE Row(k) == LET s == services[CHOOSE i \in Live(services, c) : services[i].key = k]
                     IN [name |-> s.name, version |-> s.version,
                         host |-> IF s.host = None THEN None ELSE hosts[s.host].key]
           Said(k) == [snap.services[k] EXCEPT !.host = IF @ \in snap.hosts THEN @ ELSE None]
<1>5. ASSUME NEW k \in DOMAIN snap.services
      PROVE  Row(k) = Said(k)
  <2> DEFINE i == CHOOSE j \in Live(services, c) : services[j].key = k
  <2>1. \E j \in Live(services, c) : services[j].key = k
    BY <1>1 DEF Shows, ServicesShow
  <2>2. i \in Live(services, c) /\ services[i].key = k
    BY <2>1
  <2> HIDE DEF i
  <2>3. /\ services[i].name = snap.services[k].name
        /\ services[i].version = snap.services[k].version
        /\ HostOf(i) = LinkOf(snap, k)
    BY <1>1, <2>2 DEF Shows, ServicesShow
  <2>4. Row(k) = [name |-> services[i].name, version |-> services[i].version, host |-> HostOf(i)]
    BY DEF i, HostOf
  <2>5. snap.services[k] \in [name: Names, version: Versions, host: HostKeys]
    BY <1>1, SnapshotType
  <2>6. Said(k) = [name |-> snap.services[k].name, version |-> snap.services[k].version,
                   host |-> LinkOf(snap, k)]
    BY <2>5 DEF LinkOf
  <2> QED BY <2>3, <2>4, <2>6
<1>6. Shown(c) = [hosts |-> snap.hosts, services |-> [k \in DOMAIN snap.services |-> Row(k)],
                  ports |-> snap.ports]
  BY <1>2, <1>3, <1>4 DEF Shown
<1>7. Reported(snap) = [snap EXCEPT !.services = [k \in DOMAIN snap.services |-> Said(k)]]
  BY DEF Reported
<1>8. snap = [hosts |-> snap.hosts, services |-> snap.services, ports |-> snap.ports]
  BY <1>1 DEF Snapshot
<1> HIDE DEF Row, Said
<1>9. [k \in DOMAIN snap.services |-> Row(k)] = [k \in DOMAIN snap.services |-> Said(k)]
  BY <1>5
<1> QED BY <1>6, <1>7, <1>8, <1>9 DEF snap

(* Whatever was gone, revived, re-keyed, purged or orphaned before, and whatever other        *)
(* sources did since: a source shows exactly what its newest snapshot reports.                *)
THEOREM NewestScanIsShown == Spec => []ShowsLastScan
<1>1. InventoryInv => ShowsLastScan
  BY ShownIsReported DEF ShowsLastScan
<1> QED BY <1>1, SpecInv, PTL

(* The purge takes nothing that is present. *)
THEOREM PurgeTakesTheGone == Spec => PurgeSparesPresent
<1> DEFINE A == PurgeGone =>
       /\ \A i \in Rows(services) : services[i].state = "active" => services'[i] = services[i]
       /\ ports' = ports
<1>1. InventoryInv => A
  BY PurgeIs DEF Rows
<1>2. InventoryInv /\ [Next]_vars => [A]_vars
  BY <1>1
<1> QED BY <1>2, SpecInv, PTL DEF Spec, PurgeSparesPresent

-----------------------------------------------------------------------------
(* Identities. *)

LEMMA RecreateStep ==
  ASSUME InventoryInv, NEW c \in Sources, NEW snap \in Snapshot, Apply(c, snap),
         NEW i \in Ids, NEW j \in Ids,
         services[i] # None, services[i].state = "active",
         services'[i] # None, services'[i].state = "gone",
         services[j] = None, services'[j] # None,
         services'[j].source = services[i].source, services'[j].name = services[i].name,
         services'[j].host = services[i].host
  PROVE  FALSE
<1>1. PICK hostAt, serviceAt, portAt : Scanned(c, snap, hostAt, serviceAt, portAt)
  BY ApplyIs
<1>2. /\ hostAt \in HostPlacements(c, snap)
      /\ serviceAt \in ServicePlacements(c, snap, hostAt)
      /\ services' = ServicesAfter(c, snap, hostAt, serviceAt)
  BY <1>1 DEF Scanned
<1>3. TypeOK /\ UniqueIn(services)
  BY DEF InventoryInv
<1>4. j \in Range(serviceAt)
  BY <1>2, <1>3, ServicesAfterIs DEF Live, Rows
<1>5. PICK k \in DOMAIN snap.services : j = serviceAt[k]
  BY <1>2, <1>3, <1>4, ServicesAfterIs
<1>6. i \notin Range(serviceAt) /\ i \in Live(services, c)
  BY <1>2, <1>3, ServicesAfterIs
<1>7. services[i].source = c /\ i \in Rows(services)
  BY <1>6 DEF Live
<1>8. /\ services[i].name = snap.services[k].name
      /\ services[i].host = HostId(hostAt, snap.services[k].host)
  BY <1>2, <1>3, <1>5, ServicesAfterIs
<1>9. services[i].key \notin DOMAIN snap.services
  <2> SUFFICES ASSUME services[i].key \in DOMAIN snap.services
               PROVE  FALSE
    OBVIOUS
  <2> DEFINE l == services[i].key
  <2>1. i \in WithKey(services, c, l)
    BY <1>7 DEF WithKey
  <2>2. serviceAt[l] \in WithKey(services, c, l) /\ l \in DOMAIN serviceAt
    BY <1>2, <2>1, ServicePlaced
  <2>3. serviceAt[l] = i
    BY <1>3, <1>7, <2>1, <2>2, NoneApart DEF WithKey, UniqueIn
  <2> QED BY <1>6, <2>2, <2>3 DEF Range
<1>10. i \in MayAdopt(c, snap, hostAt, k)
  BY <1>6, <1>8, <1>9 DEF MayAdopt
<1>11. j \notin Rows(services) /\ WithKey(services, c, k) \subseteq Rows(services)
  BY DEF Rows, WithKey
<1>12. k \in DOMAIN serviceAt
  BY <1>2, ServicePlaced
<1>13. \A x \in MayAdopt(c, snap, hostAt, k) : \E l \in DOMAIN serviceAt : x = serviceAt[l]
  BY <1>2, <1>5, <1>11, <1>12, ServicePlaced
<1> QED BY <1>6, <1>10, <1>13 DEF Range

(* A port belongs to the source of its service, which with the tuple makes its key. *)
LEMMA PortOfService ==
  ASSUME InventoryInv, NEW i \in Ids, ports[i] # None
  PROVE  LET s == ports[i].service IN
         /\ s \in Rows(services) /\ services[s].source = ports[i].source
         /\ ports[i].source \in Sources
         /\ ports[i].key = <<services[s].key, ports[i].tuple>>
<1>1. i \in Rows(ports) /\ TypeOK
  BY DEF Rows, InventoryInv
<1> QED BY <1>1, PortRowFields DEF InventoryInv, PortsFollowServices, Live

(* Two ports of one service with one tuple are one row. *)
LEMMA OnePort ==
  ASSUME InventoryInv, NEW i \in Ids, NEW j \in Ids, ports[i] # None, ports[j] # None,
         ports[i].service = ports[j].service, ports[i].tuple = ports[j].tuple
  PROVE  i = j
<1>1. ports[i].source = ports[j].source /\ ports[i].key = ports[j].key /\ ports[i].source # None
  BY PortOfService, NoneApart
<1> QED BY <1>1 DEF InventoryInv, UniqueIn, Rows

LEMMA PortStep ==
  ASSUME InventoryInv, NEW c \in Sources, NEW snap \in Snapshot, Apply(c, snap),
         NEW i \in Ids, NEW j \in Ids, ports[i] # None, ports'[j] # None,
         ports[i].service = ports'[j].service, ports[i].tuple = ports'[j].tuple
  PROVE  i = j
<1>1. PICK hostAt, serviceAt, portAt : Scanned(c, snap, hostAt, serviceAt, portAt)
  BY ApplyIs
<1>2. /\ hostAt \in HostPlacements(c, snap)
      /\ serviceAt \in ServicePlacements(c, snap, hostAt)
      /\ portAt \in PortPlacements(c, snap, serviceAt)
      /\ ports' = PortsAfter(c, snap, hostAt, serviceAt, portAt)
  BY <1>1 DEF Scanned
<1>3. TypeOK /\ UniqueIn(services) /\ UniqueIn(ports) /\ c # None
  BY NoneApart DEF InventoryInv
<1>4. CASE j \notin Range(portAt)
  <2>1. ports'[j] = ports[j]
    BY <1>2, <1>3, <1>4, PortsAfterIs
  <2> QED BY <2>1, OnePort
<1>5. CASE j \in Range(portAt)
  <2>1. PICK k \in snap.ports : j = portAt[k]
    BY <1>2, <1>3, <1>5, PortsAfterIs
  <2>2. /\ k[1] \in DOMAIN snap.services
        /\ ports[i].service = serviceAt[k[1]] /\ ports[i].tuple = k[2]
        /\ k \in DOMAIN portAt /\ k[1] \in DOMAIN serviceAt
    BY <1>2, <1>3, <2>1, PortsAfterIs, PortPlaced, ServicePlaced
  <2> DEFINE s == serviceAt[k[1]]
  <2>3. s \in Rows(services) /\ services[s].source = ports[i].source
        /\ ports[i].key = <<services[s].key, k[2]>>
    BY <2>2, PortOfService
  <2>4. s \in Range(serviceAt)
    BY <2>2 DEF Range
  <2>5. ports[i].source = c
    BY <1>1, <2>3, <2>4, OwnRows
  <2>6. i \in Rows(ports)
    BY DEF Rows
  <2>7. \A l \in snap.ports : l[1] \in DOMAIN snap.services /\ l = <<l[1], l[2]>>
    BY SnapshotType
  \* A row that has the key of a port of the snapshot hangs under the service placed there.
  <2>8. ASSUME NEW l \in snap.ports, NEW x \in WithKey(ports, c, l)
        PROVE  ports[x].service = serviceAt[l[1]] /\ ports[x].tuple = l[2]
    <3>1. x \in Ids /\ ports[x] # None /\ ports[x].source = c /\ ports[x].key = l
      BY DEF WithKey, Rows
    <3> DEFINE t == ports[x].service
    <3>2. t \in Rows(services) /\ services[t].source = c /\ l = <<services[t].key, ports[x].tuple>>
      BY <3>1, PortOfService
    <3>3. l[1] = services[t].key /\ l[2] = ports[x].tuple
      BY <3>2
    <3>4. t \in WithKey(services, c, l[1])
      BY <3>2, <3>3 DEF WithKey
    <3>5. serviceAt[l[1]] \in WithKey(services, c, l[1])
      BY <1>2, <2>7, <3>4, ServicePlaced
    <3>6. serviceAt[l[1]] = t
      BY <1>3, <3>4, <3>5 DEF WithKey, UniqueIn
    <3> QED BY <3>3, <3>6
  <2>9. CASE j \in WithKey(ports, c, k)
    <3>1. ports[j].service = serviceAt[k[1]] /\ ports[j].tuple = k[2] /\ ports[j] # None
      BY <2>8, <2>9 DEF WithKey, Rows
    <3> QED BY <2>2, <3>1, OnePort
  <2>10. CASE WithKey(ports, c, k) = {}
    <3>1. ports[i].key \notin snap.ports
      <4> SUFFICES ASSUME ports[i].key \in snap.ports
                   PROVE  FALSE
        OBVIOUS
      <4> DEFINE l == ports[i].key
      <4>1. i \in WithKey(ports, c, l)
        BY <2>5, <2>6 DEF WithKey
      <4>2. serviceAt[l[1]] = s /\ l[2] = k[2]
        BY <2>2, <2>8, <4>1
      <4>3. l[1] = k[1]
        BY <1>2, <2>2, <2>7, <4>2, ServicePlaced
      <4>4. l = k
        BY <2>7, <4>2, <4>3
      <4> QED BY <2>10, <4>1, <4>4
    <3>2. i \in MayTake(c, snap, serviceAt, k)
      BY <2>2, <2>5, <2>6, <3>1 DEF MayTake
    <3>3. CASE j \in Rows(ports) /\ j \in MayTake(c, snap, serviceAt, k)
      <4>1. ports[j] # None /\ ports[j].service = ports[i].service /\ ports[j].tuple = ports[i].tuple
        BY <2>2, <3>3 DEF MayTake, Rows
      <4> QED BY <4>1, OnePort
    <3>4. CASE \A x \in MayTake(c, snap, serviceAt, k) :
                 \E l \in DOMAIN portAt : x = portAt[l] /\ x \in MayTake(c, snap, serviceAt, l)
      <4>1. PICK l \in DOMAIN portAt : i = portAt[l] /\ i \in MayTake(c, snap, serviceAt, l)
        BY <3>2, <3>4
      <4>2. l \in snap.ports /\ serviceAt[l[1]] = s /\ l[2] = k[2]
        BY <1>2, <2>2, <4>1, PortPlaced DEF MayTake
      <4>3. l[1] = k[1]
        BY <1>2, <2>2, <2>7, <4>2, ServicePlaced
      <4>4. l = k
        BY <2>7, <4>2, <4>3
      <4> QED BY <2>1, <4>1, <4>4
    <3> QED BY <1>2, <2>1, <2>2, <2>10, <3>3, <3>4, PortPlaced
  <2> QED BY <1>2, <2>1, <2>2, <2>9, <2>10, PortPlaced
<1> QED BY <1>4, <1>5

(* Whatever a scan re-keys or moves, what it recognises keeps its row: a container that is    *)
(* recreated under another key, and a port its service exposes before and after.              *)
THEOREM RecognisedKeepsItsRow == Spec => IdentitiesAreKept
<1> DEFINE A == \A i, j \in Ids :
       /\ services[i] # None /\ services[i].state = "active"
       /\ services'[i] # None /\ services'[i].state = "gone"
       /\ services[j] = None /\ services'[j] # None
       => <<services'[j].source, services'[j].name, services'[j].host>>
            # <<services[i].source, services[i].name, services[i].host>>
           B == \A i, j \in Ids :
       /\ ports[i] # None /\ ports'[j] # None
       /\ ports[i].service = ports'[j].service /\ ports[i].tuple = ports'[j].tuple
       => i = j
<1>1. InventoryInv /\ [Next]_vars => [A]_vars
  <2> SUFFICES ASSUME InventoryInv, Next, NEW i \in Ids, NEW j \in Ids,
                      services[i] # None, services[i].state = "active",
                      services'[i] # None, services'[i].state = "gone",
                      services[j] = None, services'[j] # None,
                      services'[j].source = services[i].source,
                      services'[j].name = services[i].name,
                      services'[j].host = services[i].host
               PROVE  FALSE
    OBVIOUS
  <2>1. ASSUME NEW c \in Sources, NEW snap \in Snapshot, Apply(c, snap) PROVE FALSE
    BY <2>1, RecreateStep
  <2>2. CASE Elapse
    BY <2>2 DEF Elapse, Rows
  <2>3. CASE PurgeGone
    BY <2>3, PurgeIs
  <2>4. ASSUME NEW c \in Sources, DeleteSource(c) PROVE FALSE
    BY <2>4 DEF DeleteSource, Rows
  <2> QED BY <2>1, <2>2, <2>3, <2>4 DEF Next
<1>2. InventoryInv /\ [Next]_vars => [B]_vars
  <2> SUFFICES ASSUME InventoryInv, Next, NEW i \in Ids, NEW j \in Ids,
                      ports[i] # None, ports'[j] # None,
                      ports[i].service = ports'[j].service, ports[i].tuple = ports'[j].tuple
               PROVE  i = j
    OBVIOUS
  <2>1. ASSUME NEW c \in Sources, NEW snap \in Snapshot, Apply(c, snap) PROVE i = j
    BY <2>1, PortStep
  <2>2. CASE ports'[j] = ports[j]
    BY <2>2, OnePort
  <2>3. CASE Elapse
    BY <2>2, <2>3 DEF Elapse
  <2>4. CASE PurgeGone
    BY <2>2, <2>4, PurgeIs
  <2>5. ASSUME NEW c \in Sources, DeleteSource(c) PROVE i = j
    BY <2>2, <2>5 DEF DeleteSource
  <2> QED BY <2>1, <2>3, <2>4, <2>5 DEF Next
<1> QED BY <1>1, <1>2, SpecInv, PTL DEF Spec, IdentitiesAreKept, RecreateKeepsRow, PortKeepsRow

-----------------------------------------------------------------------------
(* Silence. *)

(* What is shown as the snapshot has it is placed where it is: the placed rows are exactly    *)
(* the present ones.                                                                          *)
LEMMA PlacedWhereItIs ==
  ASSUME InventoryInv, NEW c \in Sources, NEW snap \in Snapshot, Shows(c, snap),
         NEW hostAt, NEW serviceAt, NEW portAt, Scanned(c, snap, hostAt, serviceAt, portAt)
  PROVE  /\ \A i \in Ids : i \in Range(hostAt) <=> i \in Live(hosts, c)
         /\ \A i \in Ids : i \in Range(serviceAt) <=> i \in Live(services, c)
         /\ \A i \in Ids : i \in Range(portAt) <=> i \in Rows(ports) /\ ports[i].source = c
<1>1. /\ hostAt \in HostPlacements(c, snap) /\ serviceAt \in ServicePlacements(c, snap, hostAt)
      /\ portAt \in PortPlacements(c, snap, serviceAt)
  BY DEF Scanned
<1>2. UniqueIn(hosts) /\ UniqueIn(services) /\ UniqueIn(ports) /\ c # None
  BY NoneApart DEF InventoryInv
<1>3. ASSUME NEW h \in snap.hosts, NEW i \in Live(hosts, c), hosts[i].key = h
      PROVE  hostAt[h] = i
  <2>1. i \in WithKey(hosts, c, h)
    BY <1>3 DEF Live, WithKey
  <2>2. hostAt[h] \in WithKey(hosts, c, h)
    BY <1>1, <2>1, HostPlaced
  <2> QED BY <1>2, <2>1, <2>2 DEF WithKey, UniqueIn
<1>4. ASSUME NEW k \in DOMAIN snap.services, NEW i \in Live(services, c), services[i].key = k
      PROVE  serviceAt[k] = i
  <2>1. i \in WithKey(services, c, k)
    BY <1>4 DEF Live, WithKey
  <2>2. serviceAt[k] \in WithKey(services, c, k)
    BY <1>1, <2>1, ServicePlaced
  <2> QED BY <1>2, <2>1, <2>2 DEF WithKey, UniqueIn
<1>5. ASSUME NEW k \in snap.ports, NEW i \in Rows(ports), ports[i].source = c, ports[i].key = k
      PROVE  portAt[k] = i
  <2>1. i \in WithKey(ports, c, k)
    BY <1>5 DEF WithKey
  <2>2. portAt[k] \in WithKey(ports, c, k)
    BY <1>1, <2>1, PortPlaced
  <2> QED BY <1>2, <2>1, <2>2 DEF WithKey, UniqueIn
<1>6. /\ DOMAIN hostAt = snap.hosts /\ DOMAIN serviceAt = DOMAIN snap.services
      /\ DOMAIN portAt = snap.ports
  BY <1>1, HostPlaced, ServicePlaced, PortPlaced
<1>7. HostsShow(c, snap) /\ ServicesShow(c, snap) /\ PortsShow(c, snap)
  BY DEF Shows
<1>8. ASSUME NEW i \in Ids PROVE i \in Range(hostAt) <=> i \in Live(hosts, c)
  BY <1>3, <1>6, <1>7 DEF Range, HostsShow
<1>9. ASSUME NEW i \in Ids PROVE i \in Range(serviceAt) <=> i \in Live(services, c)
  BY <1>4, <1>6, <1>7 DEF Range, ServicesShow
<1>10. ASSUME NEW i \in Ids PROVE i \in Range(portAt) <=> i \in Rows(ports) /\ ports[i].source = c
  BY <1>5, <1>6, <1>7 DEF Range, PortsShow
<1> QED BY <1>8, <1>9, <1>10

(* So nothing is added, modified or removed. *)
LEMMA RescanFilesNothing ==
  ASSUME InventoryInv, NEW c \in Sources, NEW snap \in Snapshot, Shows(c, snap),
         NEW hostAt, NEW serviceAt, NEW portAt, Scanned(c, snap, hostAt, serviceAt, portAt),
         NEW i \in Ids
  PROVE  /\ HostChanges(c, hostAt)[i] = "none"
         /\ ServiceChanges(c, serviceAt, services')[i] = "none"
         /\ PortChanges(c, portAt)[i] = "none"
<1>1. /\ hostAt \in HostPlacements(c, snap) /\ serviceAt \in ServicePlacements(c, snap, hostAt)
      /\ services' = ServicesAfter(c, snap, hostAt, serviceAt)
  BY DEF Scanned
<1>2. TypeOK
  BY DEF InventoryInv
<1>3. /\ i \in Range(hostAt) <=> i \in Live(hosts, c)
      /\ i \in Range(serviceAt) <=> i \in Live(services, c)
      /\ i \in Range(portAt) <=> i \in Rows(ports) /\ ports[i].source = c
  BY PlacedWhereItIs
<1>4. HostChanges(c, hostAt)[i] = "none"
  BY <1>3 DEF HostChanges, Live, Rows
<1>5. PortChanges(c, portAt)[i] = "none"
  BY <1>3 DEF PortChanges, Rows
<1>6. ASSUME i \in Live(services, c)
      PROVE  ~Differs(services[i], services'[i])
  <2>1. i \in Range(serviceAt)
    BY <1>3, <1>6
  <2>2. PICK k \in DOMAIN snap.services : i = serviceAt[k]
    BY <1>1, <1>2, <2>1, ServicesAfterIs
  <2>3. /\ services'[i].key = k /\ services'[i].name = snap.services[k].name
        /\ services'[i].version = snap.services[k].version /\ services'[i].state = "active"
    BY <1>1, <1>2, <2>2, ServicesAfterIs
  <2>4. PICK j \in Live(services, c) : services[j].key = k
    BY DEF Shows, ServicesShow
  <2>5. j \in WithKey(services, c, k)
    BY <2>4 DEF Live, WithKey
  <2>6. serviceAt[k] \in WithKey(services, c, k)
    BY <1>1, <2>5, ServicePlaced
  <2>7. services[i].key = k
    BY <2>2, <2>6 DEF WithKey
  <2>8. services[i].name = snap.services[k].name /\ services[i].version = snap.services[k].version
    BY <1>6, <2>7 DEF Shows, ServicesShow
  <2>9. services[i].state = "active"
    BY <1>6 DEF Live
  <2> QED BY <2>3, <2>8, <2>9 DEF Differs
<1>7. ServiceChanges(c, serviceAt, services')[i] = "none"
  BY <1>3, <1>6 DEF ServiceChanges, Live, Rows
<1> QED BY <1>4, <1>5, <1>7

LEMMA SilentApply ==
  ASSUME InventoryInv, NEW c \in Sources, NEW snap \in Snapshot, Apply(c, snap), last' = last
  PROVE  ~filed'
<1>1. PICK hostAt, serviceAt, portAt :
        /\ Scanned(c, snap, hostAt, serviceAt, portAt)
        /\ FeedIs(c, hostAt, serviceAt, portAt)
        /\ last' = [last EXCEPT ![c] = snap]
  BY ApplyIs
<1>2. last[c] = snap
  BY <1>1 DEF InventoryInv, TypeOK
<1>3. Shows(c, snap)
  BY <1>2, NoneApart DEF InventoryInv
<1> DEFINE changes == [host |-> HostChanges(c, hostAt),
                       service |-> ServiceChanges(c, serviceAt, services'),
                       port |-> PortChanges(c, portAt)]
<1>4. filed' = (\E e \in Entity : changes[e[1]][e[2]] # "none")
  BY <1>1 DEF FeedIs
<1>5. \A i \in Ids : /\ changes["host"][i] = "none" /\ changes["service"][i] = "none"
                     /\ changes["port"][i] = "none"
  BY <1>1, <1>3, RescanFilesNothing
<1> HIDE DEF changes
<1>6. \A e \in Entity : changes[e[1]][e[2]] = "none"
  BY <1>5 DEF Entity
<1> QED BY <1>4, <1>6

(* A scan that reports what the one before it did files no change, whatever happened to the   *)
(* tables in between, and nothing but a scan files one.                                       *)
THEOREM RescanIsQuiet == Spec => SilentWhenNothingChanged
<1> DEFINE A == filed' => last' # last
<1>1. InventoryInv /\ [Next]_vars => [A]_vars
  <2> SUFFICES ASSUME InventoryInv, Next, last' = last, filed' PROVE FALSE
    OBVIOUS
  <2>1. ASSUME NEW c \in Sources, NEW snap \in Snapshot, Apply(c, snap) PROVE FALSE
    BY <2>1, SilentApply
  <2>2. CASE Elapse
    BY <2>2 DEF Elapse
  <2>3. CASE PurgeGone
    BY <2>3 DEF PurgeGone
  <2>4. ASSUME NEW c \in Sources, DeleteSource(c) PROVE FALSE
    BY <2>4 DEF DeleteSource
  <2> QED BY <2>1, <2>2, <2>3, <2>4 DEF Next
<1> QED BY <1>1, SpecInv, PTL DEF Spec, SilentWhenNothingChanged
=============================================================================

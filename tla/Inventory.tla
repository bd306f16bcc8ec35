----------------------------- MODULE Inventory ------------------------------
(***************************************************************************)
(* How Applier.Apply reconciles the hosts, services and ports of a source  *)
(* with its newest snapshot, and what the retention purge and the removal  *)
(* of a source do to the same tables.  Apply, PurgeGone and a connector    *)
(* delete are transactions under one writer lock: each is one step.  An    *)
(* Apply that fails is rolled back, a stuttering step.                     *)
(***************************************************************************)
EXTENDS Naturals, FiniteSets, Functions

CONSTANTS
  Sources,     \* connectors
  HostKeys,    \* natural keys of hosts
  ServiceKeys, \* natural keys of services
  Names,       \* service names (with their stack)
  Versions,    \* the observed fields of a service: image, tag, digest, state
  Tuples,      \* what a port exposes: number, protocol, container port, host IP
  MaxRows,     \* bound on the row ids of each table
  None         \* no row, no source, no key

ASSUME MaxRowsAssumption == MaxRows \in Nat

Ids == 1..MaxRows

VARIABLES
  hosts,    \* id -> row or None
  services, \* id -> row or None
  ports,    \* id -> row or None
  feed,     \* newest change entry of <<entity type, id>>
  filed,    \* history: the last step filed a change entry
  last      \* history: newest snapshot applied for each source, or None

tables == <<hosts, services, ports>>
vars == <<hosts, services, ports, feed, filed, last>>

Gone == {"active", "gone", "expired"} \* expired: gone for longer than retention
HostRow == [source: Sources \cup {None}, key: HostKeys, state: Gone]
ServiceRow == [source: Sources \cup {None}, key: ServiceKeys, name: Names,
               version: Versions, host: Ids \cup {None}, state: Gone]
PortKey == ServiceKeys \X Tuples
PortRow == [source: Sources, key: PortKey, service: Ids, host: Ids \cup {None},
            tuple: Tuples]
Entity == {"host", "service", "port"} \X Ids

\* What a connector reports.  A port names a service of the snapshot (any other
\* makes Apply fail); a host key that is not in the snapshot links to no host.
Snapshot ==
  {s \in [hosts: SUBSET HostKeys,
          services: UNION {[K -> [name: Names, version: Versions, host: HostKeys]] :
                             K \in SUBSET ServiceKeys},
          ports: SUBSET PortKey] :
     \A p \in s.ports : p[1] \in DOMAIN s.services}

\* None is none of what it stands beside.
ASSUME NoneAssumption ==
  None \notin UNION {Sources, HostKeys, Ids, HostRow, ServiceRow, PortRow, Snapshot}

-----------------------------------------------------------------------------
\* Rows and ids.

Rows(table) == {i \in Ids : table[i] # None}
Live(table, c) == {i \in Rows(table) : table[i].source = c /\ table[i].state = "active"}
\* Seeded fault: the lookup by key skips rows that are gone.
WithKeyPresent(table, c, key) ==
  {i \in Rows(table) : /\ table[i].source = c /\ table[i].key = key
                        /\ "state" \in DOMAIN table[i] => table[i].state = "active"}

WithKey(table, c, key) ==
  {i \in Rows(table) : table[i].source = c /\ table[i].key = key}
Top(table) == IF Rows(table) = {} THEN 0
              ELSE CHOOSE i \in Rows(table) : \A j \in Rows(table) : j <= i

\* The table has no AUTOINCREMENT: n inserts take the n ids above the largest.
Fresh(table, n) == (Top(table) + 1)..(Top(table) + n)

\* Place each key of a snapshot: on the row found by its key; else on a row it
\* may adopt; else, when no such row is left, on a fresh one.  Which of several
\* twins adopts which row depends on the order of the snapshot and of the SELECT.
Placements(table, c, keys, Adoptable(_)) ==
  LET Missing == {k \in keys : WithKey(table, c, k) = {}}
  IN {p \in [keys -> Ids] :
        LET adopted == {k \in Missing : p[k] \in Rows(table)}
            claimed == {p[k] : k \in adopted}
        IN /\ IsInjective(p)
           /\ \A k \in keys \ Missing : p[k] \in WithKey(table, c, k)
           /\ \A k \in adopted : p[k] \in Adoptable(k)
           /\ \A k \in Missing \ adopted : Adoptable(k) \subseteq claimed
           /\ {p[k] : k \in Missing \ adopted}
                = Fresh(table, Cardinality(Missing \ adopted))}

\* markGone, for the rows no key was placed on.
Retire(row) == [row EXCEPT !.state = "gone"]

-----------------------------------------------------------------------------
\* The parts of Apply.

HostPlacements(c, snap) ==
  Placements(hosts, c, snap.hosts, LAMBDA h : {})

HostsAfter(c, at) ==
  [i \in Ids |->
     IF i \in Range(at)
       THEN [source |-> c, key |-> CHOOSE h \in DOMAIN at : at[h] = i, state |-> "active"]
     ELSE IF i \in Live(hosts, c) THEN Retire(hosts[i])
     ELSE hosts[i]]

\* Seeded fault: the diff of a host compares a field that moves on every poll.
HostChangesNoisy(c, at) ==
  [i \in Ids |-> CASE i \in Range(at) /\ hosts[i] = None -> "added"
                   [] i \in Range(at) /\ hosts[i] # None -> "modified"
                   [] i \in Live(hosts, c) \ Range(at) -> "removed"
                   [] OTHER -> "none"]

HostChanges(c, at) ==
  [i \in Ids |-> CASE i \in Range(at) /\ hosts[i] = None -> "added"
                   [] i \in Range(at) /\ hosts[i] # None /\ hosts[i].state # "active" -> "modified"
                   [] i \in Live(hosts, c) \ Range(at) -> "removed"
                   [] OTHER -> "none"]

HostId(at, h) == IF h \in DOMAIN at THEN at[h] ELSE None

\* Seeded fault: a recreated container is not recognised.
ServicePlacementsByKey(c, snap, hostAt) ==
  Placements(services, c, DOMAIN snap.services, LAMBDA k : {})

\* applyServices: a key that is not stored adopts a row of the same name on the
\* same host that is not gone and whose own key the snapshot no longer holds.
ServicePlacements(c, snap, hostAt) ==
  Placements(services, c, DOMAIN snap.services,
    LAMBDA k : {i \in Live(services, c) :
                  /\ services[i].name = snap.services[k].name
                  /\ services[i].host = HostId(hostAt, snap.services[k].host)
                  /\ services[i].key \notin DOMAIN snap.services})

ServiceRowFor(c, snap, hostAt, k) ==
  [source |-> c, key |-> k, name |-> snap.services[k].name,
   version |-> snap.services[k].version,
   host |-> HostId(hostAt, snap.services[k].host), state |-> "active"]

\* Seeded fault: services that are no longer reported are not marked gone.
ServicesAfterKeepsAbsent(c, snap, hostAt, at) ==
  [i \in Ids |->
     IF i \in Range(at)
       THEN ServiceRowFor(c, snap, hostAt, CHOOSE k \in DOMAIN at : at[k] = i)
     ELSE services[i]]

ServicesAfter(c, snap, hostAt, at) ==
  [i \in Ids |->
     IF i \in Range(at)
       THEN ServiceRowFor(c, snap, hostAt, CHOOSE k \in DOMAIN at : at[k] = i)
     ELSE IF i \in Live(services, c) THEN Retire(services[i])
     ELSE services[i]]

\* Key and host are not compared: a re-key alone files nothing.
Differs(old, new) ==
  <<old.name, old.version, old.state>> # <<new.name, new.version, new.state>>

ServiceChanges(c, at, after) ==
  [i \in Ids |-> CASE i \in Range(at) /\ services[i] = None -> "added"
                   [] i \in Range(at) /\ services[i] # None /\ Differs(services[i], after[i])
                        -> "modified"
                   [] i \in Live(services, c) \ Range(at) -> "removed"
                   [] OTHER -> "none"]

\* applyPorts: a key that is not stored adopts the row of the same service row and
\* tuple.  Rows are placed once each because the key of a stored port is always
\* that of its service (PortsFollowServices).
PortPlacements(c, snap, serviceAt) ==
  Placements(ports, c, snap.ports,
    LAMBDA k : {i \in Rows(ports) : /\ ports[i].source = c
                                    /\ ports[i].service = serviceAt[k[1]]
                                    /\ ports[i].tuple = k[2]
                                    /\ ports[i].key \notin snap.ports})

\* Seeded fault: a port whose host changed is not relinked.
PortsAfterOldHost(c, snap, hostAt, serviceAt, at) ==
  [i \in Ids |->
     IF i \in Range(at)
       THEN LET k == CHOOSE k \in DOMAIN at : at[k] = i
            IN [source |-> c, key |-> k, service |-> serviceAt[k[1]],
                host |-> IF ports[i] # None THEN ports[i].host
                         ELSE HostId(hostAt, snap.services[k[1]].host), tuple |-> k[2]]
     ELSE IF i \in Rows(ports) /\ ports[i].source = c THEN None
     ELSE ports[i]]

PortsAfter(c, snap, hostAt, serviceAt, at) ==
  [i \in Ids |->
     IF i \in Range(at)
       THEN LET k == CHOOSE k \in DOMAIN at : at[k] = i
            IN [source |-> c, key |-> k, service |-> serviceAt[k[1]],
                host |-> HostId(hostAt, snap.services[k[1]].host), tuple |-> k[2]]
     ELSE IF i \in Rows(ports) /\ ports[i].source = c THEN None
     ELSE ports[i]]

PortChanges(c, at) ==
  [i \in Ids |-> CASE i \in Range(at) /\ ports[i] = None -> "added"
                   [] i \in Rows(ports) \ Range(at) /\ ports[i].source = c -> "removed"
                   [] OTHER -> "none"]

-----------------------------------------------------------------------------

Init ==
  /\ hosts = [i \in Ids |-> None]
  /\ services = [i \in Ids |-> None]
  /\ ports = [i \in Ids |-> None]
  /\ feed = [e \in Entity |-> "none"]
  /\ filed = FALSE
  /\ last = [c \in Sources |-> None]

Apply(c, snap) ==
  \E hostAt \in HostPlacements(c, snap) :
  \E serviceAt \in ServicePlacements(c, snap, hostAt) :
  \E portAt \in PortPlacements(c, snap, serviceAt) :
    /\ hosts' = HostsAfter(c, hostAt)
    /\ services' = ServicesAfter(c, snap, hostAt, serviceAt)
    /\ ports' = PortsAfter(c, snap, hostAt, serviceAt, portAt)
    /\ LET changes == [host |-> HostChanges(c, hostAt),
                       service |-> ServiceChanges(c, serviceAt, services'),
                       port |-> PortChanges(c, portAt)]
       IN /\ feed' = [e \in Entity |-> IF changes[e[1]][e[2]] = "none" THEN feed[e]
                                       ELSE changes[e[1]][e[2]]]
          /\ filed' = (\E e \in Entity : changes[e[1]][e[2]] # "none")
    /\ last' = [last EXCEPT ![c] = snap]

\* The retention period passes: rows gone until now are due.
Elapse ==
  /\ hosts' = [i \in Ids |-> IF i \in Rows(hosts) /\ hosts[i].state = "gone"
                               THEN [hosts[i] EXCEPT !.state = "expired"] ELSE hosts[i]]
  /\ services' = [i \in Ids |-> IF i \in Rows(services) /\ services[i].state = "gone"
                                  THEN [services[i] EXCEPT !.state = "expired"] ELSE services[i]]
  /\ filed' = FALSE
  /\ UNCHANGED <<ports, feed, last>>

\* Applier.PurgeGone, with what the foreign keys do: the ports of a purged service
\* or host go with it, and its services lose their host.
PurgeGone ==
  LET Due(table) == {i \in Rows(table) : table[i].state = "expired"}
  IN /\ hosts' = [i \in Ids |-> IF i \in Due(hosts) THEN None ELSE hosts[i]]
     /\ services' = [i \in Ids |->
          IF i \in Due(services) THEN None
          ELSE IF i \in Rows(services) /\ services[i].host \in Due(hosts)
            THEN [services[i] EXCEPT !.host = None]
          ELSE services[i]]
     /\ ports' = [i \in Ids |->
          IF i \in Rows(ports) /\ (ports[i].service \in Due(services) \/ ports[i].host \in Due(hosts))
            THEN None ELSE ports[i]]
     /\ filed' = FALSE
     /\ UNCHANGED <<feed, last>>

\* ConnectorConfigs.Delete: foreign keys orphan hosts and services, and drop ports.
\* A source added later under the same id starts from nothing.
DeleteSource(c) ==
  LET Orphan(table) == [i \in Ids |-> IF i \in Rows(table) /\ table[i].source = c
                                        THEN [table[i] EXCEPT !.source = None] ELSE table[i]]
  IN /\ last[c] # None
     /\ hosts' = Orphan(hosts)
     /\ services' = Orphan(services)
     /\ ports' = [i \in Ids |-> IF i \in Rows(ports) /\ ports[i].source = c THEN None ELSE ports[i]]
     /\ last' = [last EXCEPT ![c] = None]
     /\ filed' = FALSE
     /\ UNCHANGED feed

Next ==
  \/ \E c \in Sources, snap \in Snapshot : Apply(c, snap)
  \/ Elapse
  \/ PurgeGone
  \/ \E c \in Sources : DeleteSource(c)

Spec == Init /\ [][Next]_vars

-----------------------------------------------------------------------------
\* Properties

\* Every row has the shape of its table.
TypeOK ==
  /\ hosts \in [Ids -> HostRow \cup {None}]
  /\ services \in [Ids -> ServiceRow \cup {None}]
  /\ ports \in [Ids -> PortRow \cup {None}]
  /\ feed \in [Entity -> {"none", "added", "modified", "removed"}]
  /\ filed \in BOOLEAN
  /\ last \in [Sources -> Snapshot \cup {None}]

\* What the inventory shows as present under source c.
Shown(c) ==
  [hosts |-> {hosts[i].key : i \in Live(hosts, c)},
   services |->
     [k \in {services[i].key : i \in Live(services, c)} |->
        LET s == services[CHOOSE i \in Live(services, c) : services[i].key = k]
        IN [name |-> s.name, version |-> s.version,
            host |-> IF s.host = None THEN None ELSE hosts[s.host].key]],
   ports |-> {ports[i].key : i \in {j \in Rows(ports) : ports[j].source = c}}]

\* The same, of a snapshot: host keys it does not report are not links.
Reported(snap) ==
  [snap EXCEPT !.services =
     [k \in DOMAIN snap.services |->
        [snap.services[k] EXCEPT !.host = IF @ \in snap.hosts THEN @ ELSE None]]]

\* Whatever was gone, revived, re-keyed, purged or orphaned before, and whatever
\* the other sources did since, a source shows exactly its newest snapshot.
ShowsLastScan == \A c \in Sources : last[c] # None => Shown(c) = Reported(last[c])

\* Reconciling never trips over the UNIQUE(connector_id, natural_key) constraints,
\* which would abort the whole scan.
KeysAreUnique ==
  \A table \in {hosts, services, ports} : \A i, j \in Rows(table) :
    table[i].source # None /\ table[i].source = table[j].source
      /\ table[i].key = table[j].key => i = j

\* A stored port hangs off a present service of its own source, under that
\* service's current key and host, even after the service was re-keyed.
PortsFollowServices ==
  \A i \in Rows(ports) :
    /\ ports[i].service \in Live(services, ports[i].source)
    /\ ports[i].key = <<services[ports[i].service].key, ports[i].tuple>>
    /\ ports[i].host = services[ports[i].service].host

\* The change feed agrees with the tables: the newest entry of an entity is its
\* removal exactly when the row is gone (a port: deleted).
FeedMatchesState ==
  /\ \A i \in Rows(hosts) : feed[<<"host", i>>] = "removed" <=> hosts[i].state # "active"
  /\ \A i \in Rows(services) :
       feed[<<"service", i>>] = "removed" <=> services[i].state # "active"
  /\ \A i \in Rows(ports) : feed[<<"port", i>>] \notin {"none", "removed"}

\* What every scan, purge and removal leaves in order: keys, ports and the feed.
TablesAgree == KeysAreUnique /\ PortsFollowServices /\ FeedMatchesState

\* The purge takes nothing that is present: no row outside the expired ones
\* changes, although deletes cascade over foreign keys.
PurgeSparesPresent ==
  [][PurgeGone =>
       /\ \A i \in Rows(services) : services[i].state = "active" => services'[i] = services[i]
       /\ ports' = ports]_vars

\* "discovered entities cannot be deleted; mark them gone by removing the source"
\* (internal/store/entities.go:233): what a removed source left behind is gone.
RemovedIsGone ==
  \A table \in {hosts, services} : \A i \in Rows(table) :
    table[i].source = None => table[i].state # "active"

\* A scan that reports what the previous one did files no change, and nothing
\* but a scan files one.
SilentWhenNothingChanged == [][filed' => last' # last]_vars

\* A container recreated under another key keeps its row, and with it the user's
\* notes, tags and fields: no row of a name on a host goes gone while a new row
\* for that name on that host is inserted in the same scan.
RecreateKeepsRow ==
  [][\A i, j \in Ids :
       /\ services[i] # None /\ services[i].state = "active"
       /\ services'[i] # None /\ services'[i].state = "gone"
       /\ services[j] = None /\ services'[j] # None
       => <<services'[j].source, services'[j].name, services'[j].host>>
            # <<services[i].source, services[i].name, services[i].host>>]_vars

\* A port that the same service exposes before and after a step keeps its row,
\* whether or not the service was re-keyed in between.
PortKeepsRow ==
  [][\A i, j \in Ids :
       /\ ports[i] # None /\ ports'[j] # None
       /\ ports[i].service = ports'[j].service /\ ports[i].tuple = ports'[j].tuple
       => i = j]_vars

\* Whatever a scan re-keys or moves, what it recognises keeps its row.
IdentitiesAreKept == RecreateKeepsRow /\ PortKeepsRow
=============================================================================

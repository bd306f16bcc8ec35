------------------------------ MODULE Proxmox ------------------------------
(***************************************************************************)
(* internal/connectors/proxmox/proxmox.go and api.go: one scan reads the   *)
(* token's privileges, the nodes, their addresses and the guests, then     *)
(* asks each running guest for its addresses, a few at a time and within a *)
(* budget; internal/engine/apply.go writes what it found.  The cluster     *)
(* changes between any two of these reads.  The cluster is external.       *)
(***************************************************************************)
EXTENDS Naturals, FiniteSets

CONSTANTS Guests,     \* VMIDs, the containers among them included
          VMs,        \* those of QEMU, whose agent needs a privilege
          Addrs,      \* the addresses a guest may report
          None,       \* no address
          Unread,     \* guestIPs with known = false
          Workers,    \* defaultGuestWorkers
          MaxEvents   \* bound: changes of the cluster

VARIABLES
  cluster,    \* guests: what each is now; node: a node's address, if it has one;
              \* audit, agent, sys: the privileges
  events,     \* how often the cluster changed
  scan,       \* the running scan: its next read (pc) and what it holds
  store,      \* this connector's hosts rows, one for each guest
  node,       \* the hosts row of a node: its address
  past        \* history: every cluster since the scan began

vars == <<cluster, events, scan, store, node, past>>

\* agent: access.agent; node: its address, or addressesRead = false; listed: the
\* guests of cluster/resources; ips: readGuests' out; todo: running guests dispatch has
\* not reached; calls: guests being asked; expired: the budget has run out.
Idle == [pc |-> "idle", agent |-> FALSE, node |-> Unread, listed |-> <<>>,
         ips |-> <<>>, todo |-> {}, calls |-> {}, expired |-> FALSE]

\* rrd: the node reports this guest's statistics.  A paused guest reads like
\* one without them, a status that is neither running nor stopped.
Absent == [status |-> "absent", addr |-> None, rrd |-> FALSE]
Asleep == [status : {"stopped"}, addr : {None}, rrd : BOOLEAN]
Awake  == [status : {"running"}, addr : Addrs \cup {None}, rrd : BOOLEAN]
States == {Absent} \cup Asleep \cup Awake

Clusters == [guests : [Guests -> States], node : {None, "own"},
             audit : BOOLEAN, agent : BOOLEAN, sys : BOOLEAN]

\* toGuests: without RRD data a row has no name and its status is "unknown".
Row(s) == [status |-> IF s.rrd THEN s.status ELSE "unknown", named |-> s.rrd]

\* /cluster/resources omits every guest when the token holds no VM.Audit.
toGuests(c) ==
  [g \in {x \in Guests : c.audit /\ c.guests[x].status # "absent"} |->
     Row(c.guests[g])]

NoRow == [state |-> "none", addr |-> None, name |-> "none"]

Init ==
  /\ cluster \in {c \in Clusters :
       /\ c.audit /\ c.agent = c.sys
       /\ \A g \in Guests : /\ c.guests[g].rrd
                           /\ c.guests[g].status = "running"
                                => c.guests[g].addr # None}
  /\ events = 0
  /\ scan = Idle
  /\ store = [g \in Guests |-> NoRow]
  /\ node = None
  /\ past = {}

-----------------------------------------------------------------------------
(* The cluster: guests start, stop, pause, move to another VMID's owner or *)
(* vanish, nodes stop reporting, an operator edits the token's roles.      *)

Changed(c) ==
  /\ events < MaxEvents /\ c # cluster
  /\ cluster' = c /\ events' = events + 1
  /\ past' = IF scan = Idle THEN past ELSE past \cup {c}
  /\ UNCHANGED <<scan, store, node>>

ChangeGuest == \E g \in Guests, s \in States :
  Changed([cluster EXCEPT !.guests[g] = s])

\* cluster/status lists a node without a usable IP, or with one.
ChangeNode == Changed([cluster EXCEPT !.node = IF @ = None THEN "own" ELSE None])

ChangeToken == \E p \in {"audit", "agent", "sys"} :
  Changed([cluster EXCEPT ![p] = ~ @])

-----------------------------------------------------------------------------
(* Connector.Scan, one read after another.                                 *)

Begin ==
  /\ scan = Idle
  /\ scan' = [Idle EXCEPT !.pc = "permissions"]
  /\ past' = {cluster}
  /\ UNCHANGED <<cluster, events, store, node>>

\* What a scan holds is dropped with it.
Over == scan' = Idle /\ past' = {}

\* The scan goes on with what it read.
Goes(s) == scan' = s /\ UNCHANGED <<cluster, events, store, node, past>>

\* permissions: a token without VM.Audit fails the scan (errNoGuestAudit).
permissions ==
  /\ scan.pc = "permissions" /\ cluster.audit
  /\ Goes([scan EXCEPT !.pc = "nodeAddresses", !.agent = cluster.agent])

\* nodeAddresses: a 403 leaves the nodes' addresses unread.
nodeAddresses ==
  /\ scan.pc = "nodeAddresses"
  /\ Goes([scan EXCEPT !.pc = "guests",
                    !.node = IF cluster.sys THEN cluster.node ELSE Unread])

\* Seeded fault: stopped guests are left to the dispatch loop.
SettledLater(l) == [g \in DOMAIN l |-> Unread]

\* readGuests before its first call: stopped guests are known to have none.
Settled(l) ==
  [g \in DOMAIN l |-> IF l[g].status = "stopped" THEN None ELSE Unread]

\* The guests that are asked at all.
Asked(l) ==
  {g \in DOMAIN l : l[g].status = "running" /\ (g \in VMs => scan.agent)}

guests ==
  /\ scan.pc = "guests"
  /\ LET l == toGuests(cluster) IN
     Goes([scan EXCEPT !.pc = "readGuests", !.listed = l, !.ips = Settled(l),
                       !.todo = Asked(l)])

\* A guest is asked once a slot is free.
Dispatch(g) ==
  /\ g \in scan.todo /\ Cardinality(scan.calls) < Workers
  /\ Goes([scan EXCEPT !.todo = @ \ {g}, !.calls = @ \cup {g}])

\* guestInterfaces answers with what the guest has when it is asked, or fails.
Reported(g) ==
  IF cluster.guests[g].status = "running" /\ ~ scan.expired
    THEN {Unread, cluster.guests[g].addr} ELSE {Unread}

guestInterfaces(g) ==
  /\ g \in scan.calls
  /\ \E a \in Reported(g) :
       Goes([scan EXCEPT !.ips[g] = a, !.calls = @ \ {g}])

\* fanCtx ends: the calls in flight fail, and dispatch may break off.
BudgetEnds ==
  /\ scan.pc = "readGuests" /\ ~ scan.expired
  /\ Goes([scan EXCEPT !.expired = TRUE])

BreakOff ==
  /\ scan.expired /\ scan.todo # {}
  /\ Goes([scan EXCEPT !.todo = {}])

\* A read that fails, a token without VM.Audit or the end of the scan's own
\* context fails the scan.
Fail ==
  /\ scan # Idle /\ scan.calls = {}
  /\ Over
  /\ UNCHANGED <<cluster, events, store, node>>

-----------------------------------------------------------------------------
(* applyHosts: what the source could not read keeps its stored value, and  *)
(* what it did not list is gone.                                           *)

\* A new row's address is None, so an unread one starts without any.
Address(g) == IF scan.ips[g] = Unread THEN store[g].addr ELSE scan.ips[g]

Name(g) ==
  IF scan.listed[g].named THEN "real"
  ELSE IF store[g].state = "none" THEN "placeholder" ELSE store[g].name

markGone(g) ==
  IF store[g].state = "none" THEN NoRow ELSE [store[g] EXCEPT !.state = "gone"]

Apply ==
  /\ scan.pc = "readGuests" /\ scan.todo = {} /\ scan.calls = {}
  /\ store' = [g \in Guests |-> IF g \in DOMAIN scan.listed
       THEN [state |-> "active", addr |-> Address(g), name |-> Name(g)]
       ELSE markGone(g)]
  /\ node' = IF scan.node = Unread THEN node ELSE scan.node
  /\ Over
  /\ UNCHANGED <<cluster, events>>

Read == \/ permissions \/ nodeAddresses \/ guests \/ BreakOff \/ Apply \/ Fail
        \/ \E g \in Guests : Dispatch(g) \/ guestInterfaces(g)

Next == ChangeGuest \/ ChangeNode \/ ChangeToken \/ Begin \/ Read \/ BudgetEnds

\* Every request has a timeout and the scan a deadline, so each of its steps
\* is taken; nothing makes the scheduler begin one.
Spec == Init /\ [][Next]_vars /\ WF_vars(Read)

-----------------------------------------------------------------------------
TypeOK ==
  /\ cluster \in Clusters /\ past \subseteq Clusters
  /\ events \in 0..MaxEvents
  /\ scan.pc \in {"idle", "permissions", "nodeAddresses", "guests", "readGuests"}
  /\ {scan.agent, scan.expired} \subseteq BOOLEAN /\ scan.node \in {None, "own", Unread}
  /\ DOMAIN scan.listed \subseteq Guests
  /\ \A g \in DOMAIN scan.listed : scan.ips[g] \in Addrs \cup {None, Unread}
  /\ scan.todo \cup scan.calls \subseteq DOMAIN scan.listed
  /\ Cardinality(scan.calls) <= Workers
  /\ store \in [Guests -> [state : {"none", "active", "gone"},
                           addr : Addrs \cup {None},
                           name : {"none", "placeholder", "real"}]]
  /\ node \in {None, "own"}

(* An address is replaced or cleared only by one the guest had at some     *)
(* moment of that very scan: no failed call, budget or missing privilege   *)
(* ever clears it, a node's included (docs/CONNECTORS.md, "keeps the       *)
(* addresses it had").                                                     *)
AddressesAreEarned ==
  [][/\ \A g \in Guests : store'[g].addr # store[g].addr =>
          \E c \in past : c.guests[g].addr = store'[g].addr
     /\ node' # node => \E c \in past : c.sys /\ c.node = node']_<<store, node>>

(* A guest is marked gone only by a scan during which it did not exist, or *)
(* the token could not see it.                                             *)
GoneWasAbsent ==
  [][\A g \in Guests : store[g].state = "active" /\ store'[g].state = "gone"
       => \E c \in past : c.guests[g].status = "absent" \/ ~ c.audit]_store

(* A guest that was stopped all through a scan that was applied holds no   *)
(* address after it, however early the budget ran out.                     *)
StoppedHoldsNone ==
  [][Apply => \A g \in Guests :
       (\A c \in past : c.audit /\ c.guests[g] = [status |-> "stopped",
                                       addr |-> None, rrd |-> TRUE])
         => store'[g] = [state |-> "active", addr |-> None,
                         name |-> "real"]]_vars

(* A name Proxmox once gave is never replaced by the placeholder of a row  *)
(* without RRD data, nor by anything when the guest is gone.               *)
NamesAreKept ==
  [][\A g \in Guests : store[g].name = "real" => store'[g].name = "real"]_store
=============================================================================

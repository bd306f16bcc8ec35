----------------------------- MODULE ScanRunner -----------------------------
(***************************************************************************)
(* Runner.Scan and the things it races with: other scans of the same       *)
(* source, the scheduler, the connector handlers of the HTTP API, writes   *)
(* whose error the code ignores, and the death of the process.             *)
(*                                                                         *)
(* One step is one critical section of r.mu, one SQL statement, one        *)
(* transaction or one call to a connector.  What a snapshot contains is    *)
(* left to module Inventory: here a snapshot is only the incarnation of    *)
(* the source it was read from.                                            *)
(***************************************************************************)
EXTENDS Naturals, FiniteSets

CONSTANTS
  Threads,    \* goroutines that may execute Runner.Scan
  Kinds,      \* connector kinds that are registered
  ProxyKinds, \* those whose routes belong to a proxies row
  MaxId,      \* bound on connector row ids
  MaxBorn,    \* bound on the number of connectors ever created
  MaxFaults,  \* bound on crashes, failed reads and lost writes together
  None        \* no row, no goroutine

ASSUME BoundsAssumption ==
  /\ MaxId \in Nat \ {0}
  /\ MaxBorn \in Nat \ {0}
  /\ MaxFaults \in Nat
  /\ ProxyKinds \subseteq Kinds

Ids == 1..MaxId

VARIABLES
  connectors, \* the connectors table: id -> row or None
  lastRun,    \* newest scan_runs row that still names the connector
  inventory,  \* incarnation the connector's entity rows were read from, 0: none
  proxies,    \* number of proxies rows that name the connector
  running,    \* Runner.running: ids whose scan is claimed
  pc,         \* where each goroutine is in Runner.Scan
  job,        \* its local variables
  born,       \* history: connectors created so far
  suspect,    \* history: ids with an outcome cut short or lost since "running"
  reused,     \* history: ids handed out again while a scan of them was claimed
  late,       \* history: id -> snapshots filed under it since it was disabled
  faults      \* history: crashes, failed reads and lost writes so far

dbVars == <<connectors, lastRun, inventory, proxies>>
historyVars == <<born, suspect, reused, late, faults>>
vars == <<connectors, lastRun, inventory, proxies, running, pc, job,
          born, suspect, reused, late, faults>>

Status == {"never", "running", "success", "error"}
Row == [enabled: BOOLEAN, kind: Kinds, status: Status, born: Nat \ {0}]
Outcome == [status: {"none", "success", "error"}, by: Threads \cup {None}]
NoRun == [status |-> "none", by |-> None]

ASSUME NoneAssumption == None \notin Row /\ None \notin Threads

\* Stages of Runner.Scan that hold the claim on their id.
Loading == {"record", "config"}
Working == {"mark", "fetch", "proxyLook", "proxyInsert", "resolve", "apply"}
Failing == {"failRun", "failStatus"}
Committed == {"reconcile", "unrun", "unstatus"}
Stage == {"idle", "claim", "release"} \cup Loading \cup Working \cup Failing
           \cup Committed

Job == [id: Ids, born: Nat, enabled: BOOLEAN, kind: Kinds \cup {None}, applied: BOOLEAN]
NoJob == [id |-> 1, born |-> 0, enabled |-> FALSE, kind |-> None, applied |-> FALSE]

Exists(i) == connectors[i] # None
Inside(t) == pc[t] \notin {"idle", "claim"}
Goto(t, stage) == pc' = [pc EXCEPT ![t] = stage]
SetStatus(i, s) ==
  connectors' = IF Exists(i) THEN [connectors EXCEPT ![i].status = s] ELSE connectors

-----------------------------------------------------------------------------

Init ==
  /\ connectors = [i \in Ids |-> None]
  /\ lastRun = [i \in Ids |-> NoRun]
  /\ inventory = [i \in Ids |-> 0]
  /\ proxies = [i \in Ids |-> 0]
  /\ running = {}
  /\ pc = [t \in Threads |-> "idle"]
  /\ job = [t \in Threads |-> NoJob]
  /\ born = 0
  /\ suspect = {}
  /\ reused = {}
  /\ late = [i \in Ids |-> 0]
  /\ faults = 0

\* A goroutine calls Runner.Scan(i).
Call(t, i) ==
  /\ pc[t] = "idle"
  /\ Goto(t, "claim")
  /\ job' = [job EXCEPT ![t].id = i]
  /\ UNCHANGED <<dbVars, running, historyVars>>

\* POST /connectors/{id}/scan, or the scan a create or an update ends with.
\* The handler does not look the id up first.
RequestScan(t, i) == Call(t, i)

\* Seeded fault: the scheduler takes "running" at its word.
TickScanSkipsRunning(t, i) ==
  /\ Exists(i)
  /\ connectors[i].enabled
  /\ connectors[i].status # "running"
  /\ Call(t, i)

\* Scheduler.tick: the row was enabled when listed.  due() compares the newest
\* started_at with the schedule; time is not modelled, so it may hold at any moment.
TickScan(t, i) ==
  /\ Exists(i)
  /\ connectors[i].enabled
  /\ Call(t, i)

\* Seeded fault: the map is written but not consulted.
ClaimUnguarded(t) ==
  /\ pc[t] = "claim"
  /\ Goto(t, "record")
  /\ running' = running \cup {job[t].id}
  /\ UNCHANGED <<dbVars, job, historyVars>>

\* The critical section that refuses a second scan of the same id.
Claim(t) ==
  /\ pc[t] = "claim"
  /\ IF job[t].id \in running
       THEN /\ Goto(t, "idle")
            /\ job' = [job EXCEPT ![t] = NoJob]
            /\ UNCHANGED running
       ELSE /\ Goto(t, "record")
            /\ running' = running \cup {job[t].id}
            /\ UNCHANGED job
  /\ UNCHANGED <<dbVars, historyVars>>

\* Seeded fault: the claim is given back only when the record was found.
LoadRecordLeaks(t) ==
  LET i == job[t].id IN
  /\ pc[t] = "record"
  /\ IF Exists(i)
       THEN /\ Goto(t, "config")
            /\ job' = [job EXCEPT ![t] = [@ EXCEPT !.enabled = connectors[i].enabled,
                                                  !.kind = connectors[i].kind,
                                                  !.born = connectors[i].born]]
       ELSE Goto(t, "idle") /\ job' = [job EXCEPT ![t] = NoJob]
  /\ UNCHANGED <<dbVars, running, historyVars>>

\* load: ConnectorConfigs.Record.  A missing row ends the scan unrecorded.
LoadRecord(t) ==
  LET i == job[t].id IN
  /\ pc[t] = "record"
  /\ IF Exists(i)
       THEN /\ Goto(t, "config")
            /\ job' = [job EXCEPT ![t] = [@ EXCEPT !.enabled = connectors[i].enabled,
                                                  !.kind = connectors[i].kind,
                                                  !.born = connectors[i].born]]
       ELSE Goto(t, "release") /\ UNCHANGED job
  /\ UNCHANGED <<dbVars, running, historyVars>>

\* Seeded fault: the flag is read and not looked at.
LoadConfigAnyway(t) ==
  LET i == job[t].id IN
  /\ pc[t] = "config"
  /\ Goto(t, IF Exists(i) THEN "mark" ELSE "release")
  /\ job' = IF Exists(i) THEN [job EXCEPT ![t].born = connectors[i].born] ELSE job
  /\ UNCHANGED <<dbVars, running, historyVars>>

\* load: ConnectorConfigs.Load, then the test of the record read before it.
LoadConfig(t) ==
  LET i == job[t].id IN
  /\ pc[t] = "config"
  /\ Goto(t, IF Exists(i) /\ job[t].enabled THEN "mark" ELSE "release")
  /\ job' = IF Exists(i) THEN [job EXCEPT ![t].born = connectors[i].born] ELSE job
  /\ UNCHANGED <<dbVars, running, historyVars>>

\* last_status='running' before the source is contacted.
MarkRunning(t) ==
  LET i == job[t].id IN
  /\ pc[t] = "mark"
  /\ SetStatus(i, "running")
  /\ suspect' = suspect \ {i}
  /\ Goto(t, "fetch")
  /\ UNCHANGED <<lastRun, inventory, proxies, running, job, born, reused, late, faults>>

\* Connector.Scan under the 60 s timeout: a snapshot or an error.
Fetch(t) ==
  /\ pc[t] = "fetch"
  /\ \/ Goto(t, IF job[t].kind \in ProxyKinds THEN "proxyLook" ELSE "resolve")
     \/ Goto(t, "failRun")
  /\ UNCHANGED <<dbVars, running, job, historyVars>>

\* ensureProxy, the SELECT.  A row found is then updated in columns that are
\* not modelled.
ProxyLook(t) ==
  /\ pc[t] = "proxyLook"
  /\ \/ Goto(t, IF proxies[job[t].id] > 0 THEN "resolve" ELSE "proxyInsert")
     \/ Goto(t, "failRun")
  /\ UNCHANGED <<dbVars, running, job, historyVars>>

\* ensureProxy, the INSERT: its foreign key needs the connector row, and the
\* index idx_proxies_connector refuses a second row for it.
ProxyInsert(t) ==
  LET i == job[t].id IN
  /\ pc[t] = "proxyInsert"
  /\ IF Exists(i) /\ proxies[i] = 0
       THEN Goto(t, "resolve") /\ proxies' = [proxies EXCEPT ![i] = @ + 1]
       ELSE Goto(t, "failRun") /\ UNCHANGED proxies
  /\ UNCHANGED <<connectors, lastRun, inventory, running, job, historyVars>>

\* LoadProxyScope, LoadInventory and resolve.Routes: reads only.
Resolve(t) ==
  /\ pc[t] = "resolve"
  /\ \/ Goto(t, "apply")
     \/ Goto(t, "failRun")
  /\ UNCHANGED <<dbVars, running, job, historyVars>>

Late(i) == [late EXCEPT ![i] = IF connectors[i].enabled THEN 0 ELSE @ + 1]

\* Seeded fault: the transaction may be retried after it was committed.
ApplyRetried(t) ==
  LET i == job[t].id IN
  /\ pc[t] = "apply"
  /\ Exists(i)
  /\ lastRun' = [lastRun EXCEPT ![i] = [status |-> "success", by |-> t]]
  /\ inventory' = [inventory EXCEPT ![i] = job[t].born]
  /\ SetStatus(i, "success")
  /\ job' = [job EXCEPT ![t].applied = TRUE]
  /\ late' = Late(i)
  /\ Goto(t, "apply") \/ Goto(t, "reconcile")
  /\ UNCHANGED <<proxies, running, born, suspect, reused, faults>>

\* Applier.Apply: the run row, the inventory and the connector status in one
\* transaction.  Its first INSERT names the connector, so a deleted one aborts it.
Apply(t) ==
  LET i == job[t].id IN
  /\ pc[t] = "apply"
  /\ \/ /\ Exists(i)
        /\ lastRun' = [lastRun EXCEPT ![i] = [status |-> "success", by |-> t]]
        /\ inventory' = [inventory EXCEPT ![i] = job[t].born]
        /\ SetStatus(i, "success")
        /\ job' = [job EXCEPT ![t].applied = TRUE]
        /\ late' = Late(i)
        /\ Goto(t, "reconcile")
     \/ Goto(t, "failRun") /\ UNCHANGED <<connectors, lastRun, inventory, job, late>>
  /\ UNCHANGED <<proxies, running, born, suspect, reused, faults>>

\* Applier.ReconcileRoutes after the commit.
Reconcile(t) ==
  /\ pc[t] = "reconcile"
  /\ \/ Goto(t, "release")
     \/ Goto(t, "unrun")
  /\ UNCHANGED <<dbVars, running, job, historyVars>>

\* markRunFailed, first statement: the committed run becomes an error.  The
\* run names the connector no longer once that was deleted.
UnsettleRun(t) ==
  LET i == job[t].id IN
  /\ pc[t] = "unrun"
  /\ lastRun' = IF lastRun[i].by = t THEN [lastRun EXCEPT ![i].status = "error"]
                                     ELSE lastRun
  /\ Goto(t, "unstatus")
  /\ UNCHANGED <<connectors, inventory, proxies, running, job, historyVars>>

\* Seeded fault: only the run is corrected.
UnsettleStatusSkipped(t) ==
  /\ pc[t] = "unstatus"
  /\ Goto(t, "release")
  /\ UNCHANGED <<dbVars, running, job, historyVars>>

\* markRunFailed, second statement.
UnsettleStatus(t) ==
  /\ pc[t] = "unstatus"
  /\ SetStatus(job[t].id, "error")
  /\ Goto(t, "release")
  /\ UNCHANGED <<lastRun, inventory, proxies, running, job, historyVars>>

\* failed, first statement: insert an error run; its foreign key needs the row.
FailRun(t) ==
  LET i == job[t].id IN
  /\ pc[t] = "failRun"
  /\ lastRun' = IF Exists(i)
                  THEN [lastRun EXCEPT ![i] = [status |-> "error", by |-> t]]
                  ELSE lastRun
  /\ Goto(t, "failStatus")
  /\ UNCHANGED <<connectors, inventory, proxies, running, job, historyVars>>

\* failed, second statement.
FailStatus(t) ==
  /\ pc[t] = "failStatus"
  /\ SetStatus(job[t].id, "error")
  /\ Goto(t, "release")
  /\ UNCHANGED <<lastRun, inventory, proxies, running, job, historyVars>>

\* The deferred critical section that gives the claim back.
Release(t) ==
  /\ pc[t] = "release"
  /\ running' = running \ {job[t].id}
  /\ Goto(t, "idle")
  /\ job' = [job EXCEPT ![t] = NoJob]
  /\ UNCHANGED <<dbVars, historyVars>>

\* One of load's two reads fails: the scan ends unrecorded.  Counted as a fault,
\* so a configuration that can never be decrypted is not covered.
LoadFails(t) ==
  /\ faults < MaxFaults
  /\ pc[t] \in Loading
  /\ Goto(t, "release")
  /\ faults' = faults + 1
  /\ UNCHANGED <<dbVars, running, job, born, suspect, reused, late>>

\* The next stage after a statement whose error is discarded ("_, _ =").
AfterIgnored == [mark |-> "fetch", failRun |-> "failStatus",
                 failStatus |-> "release", unrun |-> "unstatus",
                 unstatus |-> "release"]

\* Such a statement fails (busy database, expired 5 s deadline): the scan goes
\* on as if it had been executed.
LoseWrite(t) ==
  /\ faults < MaxFaults
  /\ pc[t] \in DOMAIN AfterIgnored
  /\ Goto(t, AfterIgnored[pc[t]])
  /\ faults' = faults + 1
  /\ suspect' = suspect \cup {job[t].id}
  /\ UNCHANGED <<dbVars, running, job, born, reused, late>>

-----------------------------------------------------------------------------
\* The HTTP API's connector handlers.

\* INSERT takes one more than the largest id in the table: the id of a deleted
\* row is handed out again when it was the largest.
IsNextId(i) ==
  /\ i = 1 \/ (i - 1 \in Ids /\ Exists(i - 1))
  /\ \A k \in Ids : Exists(k) => k < i

CreateConnector(i, kind) ==
  /\ born < MaxBorn
  /\ IsNextId(i)
  /\ born' = born + 1
  /\ connectors' = [connectors EXCEPT ![i] =
       [enabled |-> TRUE, kind |-> kind, status |-> "never", born |-> born + 1]]
  /\ reused' = IF i \in running THEN reused \cup {i} ELSE reused \ {i}
  /\ suspect' = IF i \in running THEN suspect \cup {i} ELSE suspect \ {i}
  /\ late' = [late EXCEPT ![i] = 0]
  /\ UNCHANGED <<lastRun, inventory, proxies, running, pc, job, faults>>

\* ConnectorConfigs.Update: the enabled flag (kind cannot change).
SetEnabled(i, enabled) ==
  /\ Exists(i)
  /\ connectors' = [connectors EXCEPT ![i].enabled = enabled]
  /\ late' = IF enabled THEN [late EXCEPT ![i] = 0] ELSE late
  /\ UNCHANGED <<lastRun, inventory, proxies, running, pc, job, born, suspect, reused, faults>>

\* Seeded fault: entities keep the id of a deleted connector.
DeleteConnectorOnly(i) ==
  /\ Exists(i)
  /\ connectors' = [connectors EXCEPT ![i] = None]
  /\ lastRun' = [lastRun EXCEPT ![i] = NoRun]
  /\ proxies' = [proxies EXCEPT ![i] = 0]
  /\ late' = [late EXCEPT ![i] = 0]
  /\ UNCHANGED <<inventory, running, pc, job, born, suspect, reused, faults>>

\* ConnectorConfigs.Delete: runs, entities and proxies keep existing with a
\* NULL connector_id, so none of them names the id any more.
DeleteConnector(i) ==
  /\ Exists(i)
  /\ connectors' = [connectors EXCEPT ![i] = None]
  /\ lastRun' = [lastRun EXCEPT ![i] = NoRun]
  /\ inventory' = [inventory EXCEPT ![i] = 0]
  /\ proxies' = [proxies EXCEPT ![i] = 0]
  /\ late' = [late EXCEPT ![i] = 0]
  /\ UNCHANGED <<running, pc, job, born, suspect, reused, faults>>

\* The process dies and starts again: goroutines and Runner.running are gone,
\* committed rows stay as they are.
Crash ==
  /\ faults < MaxFaults
  /\ faults' = faults + 1
  /\ pc' = [t \in Threads |-> "idle"]
  /\ running' = {}
  /\ job' = [t \in Threads |-> NoJob]
  /\ suspect' = suspect \cup {job[t].id : t \in {u \in Threads : Inside(u)}}
  /\ UNCHANGED <<dbVars, born, reused, late>>

-----------------------------------------------------------------------------

Step(t) ==
  \/ Claim(t) \/ LoadRecord(t) \/ LoadConfig(t) \/ MarkRunning(t) \/ Fetch(t)
  \/ ProxyLook(t) \/ ProxyInsert(t) \/ Resolve(t) \/ Apply(t) \/ Reconcile(t)
  \/ UnsettleRun(t) \/ UnsettleStatus(t) \/ FailRun(t) \/ FailStatus(t) \/ Release(t)

Environment ==
  \/ \E t \in Threads, i \in Ids : RequestScan(t, i)
  \/ \E t \in Threads : LoadFails(t) \/ LoseWrite(t)
  \/ \E i \in Ids, kind \in Kinds : CreateConnector(i, kind)
  \/ \E i \in Ids, enabled \in BOOLEAN : SetEnabled(i, enabled)
  \/ \E i \in Ids : DeleteConnector(i)
  \/ Crash

Next ==
  \/ \E t \in Threads : Step(t)
  \/ \E t \in Threads, i \in Ids : TickScan(t, i)
  \/ Environment

\* Every statement and every call of a scan returns: connectors run under the
\* scan timeout, SQL under the busy timeout.  The ticker never stops, and a
\* tick starts its goroutine whatever the others do: a goroutine is never
\* short in the program, so strong fairness only undoes the bound on Threads.
Fairness ==
  /\ \A t \in Threads : WF_vars(Step(t))
  /\ \A i \in Ids : SF_vars(\E t \in Threads : TickScan(t, i))

Spec == Init /\ [][Next]_vars /\ Fairness

-----------------------------------------------------------------------------
\* Properties

\* Every variable keeps the shape the code gives it.
TypeOK ==
  /\ connectors \in [Ids -> Row \cup {None}]
  /\ lastRun \in [Ids -> Outcome]
  /\ inventory \in [Ids -> Nat]
  /\ proxies \in [Ids -> Nat]
  /\ running \subseteq Ids
  /\ pc \in [Threads -> Stage]
  /\ job \in [Threads -> Job]
  /\ born \in Nat
  /\ suspect \subseteq Ids
  /\ reused \subseteq Ids
  /\ late \in [Ids -> Nat]
  /\ faults \in 0..MaxFaults

\* Two goroutines are never both past the claim for one source, and the map
\* Runner.running holds exactly the ids of the goroutines past it: no claim is
\* leaked by an early return, a failure or a restart, and none is shared.
OneScanPerSource ==
  /\ \A t, u \in Threads :
       Inside(t) /\ Inside(u) /\ job[t].id = job[u].id => t = u
  /\ running = {job[t].id : t \in {u \in Threads : Inside(u)}}

\* Runner.Scan: every variable keeps its shape, and scans of one source exclude each other.
ScansExclude == TypeOK /\ OneScanPerSource

\* Once no scan of a source is in flight, what the source list shows
\* (connectors.last_status) is the outcome of its newest scan run, unless a
\* write was lost, the process died in the scan, or the id changed hands in it.
StatusIsNewestRun ==
  \A i \in Ids \ (running \cup suspect) :
    Exists(i) => connectors[i].status = (IF lastRun[i].status = "none" THEN "never"
                                         ELSE lastRun[i].status)

\* Entities filed under a source were read from that very source: the snapshot
\* of a deleted source never lands in another one, except when SQLite gave the
\* deleted source's id to a new one while the old scan still held the claim.
InventoryFromOwnSource ==
  \A i \in Ids : inventory[i] # 0 =>
    Exists(i) /\ (i \in reused \/ connectors[i].born = inventory[i])

\* Runner.Scan reads the enabled flag once, two statements and a network call before it
\* files what it got: a source that was disabled still gets the snapshot of the one scan
\* under way, and never another one, however often it is asked for, deleted and created
\* again, or the process restarted, until it is enabled.
DisabledRests == \A i \in Ids : late[i] <= 1

\* ensureProxy's SELECT-then-INSERT is not a transaction, yet a scan about to
\* insert still finds no row: the unique index never fails a scan, whatever
\* handlers did to the source in between.
ProxyInsertFits == \A t \in Threads : pc[t] = "proxyInsert" => proxies[job[t].id] = 0

\* A source that is enabled and shows "running" does not stay so: even after a
\* crash or a lost write left it behind, the scheduler scans it again.
RunningHeals ==
  \A i \in Ids :
    Exists(i) /\ connectors[i].enabled /\ connectors[i].status = "running"
      ~> ~(Exists(i) /\ connectors[i].enabled /\ connectors[i].status = "running")

\* The phase a source is in, as ScanLifecycle sees it.
Phase == [i \in Ids |->
            IF i \notin running THEN "free"
            ELSE IF \E t \in Threads : Inside(t) /\ job[t].id = i /\ job[t].applied
              THEN "filed" ELSE "claimed"]

Lifecycle == INSTANCE ScanLifecycle WITH phase <- Phase

\* However scans, handlers, crashes and failures interleave, a source is scanned
\* by one goroutine at a time and gets at most one inventory out of each scan.
ImplementsLifecycle == Lifecycle!Spec

\* Every claim is eventually given back, so a source is never refused for ever
\* with "scan already running".
ClaimReleased == \A i \in Ids : i \in running ~> i \notin running
=============================================================================

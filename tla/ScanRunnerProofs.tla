-------------------------- MODULE ScanRunnerProofs --------------------------
(***************************************************************************)
(* Proofs about ScanRunner for any number of goroutines, sources, faults.  *)
(***************************************************************************)
EXTENDS ScanRunner, TLAPS

-----------------------------------------------------------------------------
\* Types.

LEMMA StageNames ==
  /\ Stage = {"idle", "claim", "record", "config", "mark", "fetch", "proxyLook",
              "proxyInsert", "resolve", "apply", "reconcile", "unrun", "unstatus",
              "failRun", "failStatus", "release"}
  /\ \A s \in DOMAIN AfterIgnored : AfterIgnored[s] \in Stage
  BY DEF Stage, Loading, Working, Failing, Committed, AfterIgnored

LEMMA NoJobType == NoJob \in Job
  BY BoundsAssumption DEF NoJob, Job, Ids

\* What Goto and SetStatus do to the shape of what they assign.
LEMMA GotoType ==
  ASSUME TypeOK, NEW t \in Threads, NEW s \in Stage, Goto(t, s)
  PROVE  pc' \in [Threads -> Stage]
  BY DEF TypeOK, Goto

LEMMA RowUpdate ==
  ASSUME TypeOK, NEW i \in Ids, Exists(i)
  PROVE  /\ connectors[i] \in Row
         /\ \A s \in Status : [connectors[i] EXCEPT !.status = s] \in Row
         /\ \A e \in BOOLEAN : [connectors[i] EXCEPT !.enabled = e] \in Row
<1>1. connectors[i] \in Row
  BY DEF TypeOK, Exists
<1> QED
  BY <1>1 DEF Row

LEMMA SetStatusType ==
  ASSUME TypeOK, NEW i \in Ids, NEW s \in Status, SetStatus(i, s)
  PROVE  connectors' \in [Ids -> Row \cup {None}]
<1>1. CASE Exists(i)
  BY <1>1, RowUpdate DEF TypeOK, SetStatus
<1>2. CASE ~Exists(i)
  BY <1>2 DEF TypeOK, SetStatus
<1> QED
  BY <1>1, <1>2

LEMMA JobType ==
  ASSUME TypeOK, NEW t \in Threads
  PROVE  job[t] \in Job /\ job[t].id \in Ids /\ job[t].born \in Nat
  BY DEF TypeOK, Job

LEMMA JobUpdate ==
  ASSUME NEW j \in Job
  PROVE  /\ \A i \in Ids : [j EXCEPT !.id = i] \in Job
         /\ \A b \in Nat : [j EXCEPT !.born = b] \in Job
         /\ [j EXCEPT !.applied = TRUE] \in Job
  BY DEF Job

LEMMA JobLoaded ==
  ASSUME NEW j \in Job, NEW r \in Row
  PROVE  [j EXCEPT !.enabled = r.enabled, !.kind = r.kind, !.born = r.born] \in Job
  BY DEF Job, Row

\* What the stages that assign to job leave in it.
LEMMA LoadKeeps ==
  ASSUME TypeOK, NEW t \in Threads, LoadRecord(t) \/ LoadConfig(t)
  PROVE  \A u \in Threads : /\ job'[u].id = job[u].id
                            /\ job'[u].applied = job[u].applied
                            /\ u # t => job'[u] = job[u]
<1>1. job \in [Threads -> Job]
  BY DEF TypeOK
<1>2. CASE LoadRecord(t)
  <2>1. \/ job' = job
        \/ \E j : /\ j = [job[t] EXCEPT !.enabled = connectors[job[t].id].enabled,
                                        !.kind = connectors[job[t].id].kind,
                                        !.born = connectors[job[t].id].born]
                  /\ job' = [job EXCEPT ![t] = j]
    BY <1>1, <1>2 DEF LoadRecord
  <2>2. job[t] \in Job
    BY <1>1
  <2> QED
    BY <1>1, <2>1, <2>2 DEF Job
<1>3. CASE LoadConfig(t)
  <2>1. job' = job \/ job' = [job EXCEPT ![t].born = connectors[job[t].id].born]
    BY <1>3 DEF LoadConfig
  <2> QED
    BY <1>1, <2>1 DEF Job
<1> QED
  BY <1>2, <1>3

LEMMA ApplyKeeps ==
  ASSUME TypeOK, NEW t \in Threads, Apply(t)
  PROVE  \A u \in Threads : job'[u].id = job[u].id /\ (u # t => job'[u] = job[u])
<1>1. job \in [Threads -> Job]
  BY DEF TypeOK
<1>2. job' = job \/ job' = [job EXCEPT ![t].applied = TRUE]
  BY DEF Apply
<1> QED
  BY <1>1, <1>2 DEF Job

LEMMA OutcomeType ==
  ASSUME NEW t \in Threads
  PROVE  /\ NoRun \in Outcome
         /\ [status |-> "success", by |-> t] \in Outcome
         /\ [status |-> "error", by |-> t] \in Outcome
         /\ \A o \in Outcome : [o EXCEPT !.status = "error"] \in Outcome
  BY DEF Outcome, NoRun

LEMMA TypeInit == Init => TypeOK
<1> SUFFICES ASSUME Init PROVE TypeOK
  OBVIOUS
<1>1. NoRun \in Outcome
  BY DEF NoRun, Outcome
<1> QED
  BY <1>1, BoundsAssumption, NoJobType, StageNames DEF Init, TypeOK

LEMMA TypeStep == ASSUME TypeOK, [Next]_vars PROVE TypeOK'
<1> USE StageNames, NoJobType, GotoType DEF dbVars, historyVars
<1>1. ASSUME NEW t \in Threads, NEW i \in Ids, Call(t, i) PROVE TypeOK'
  BY <1>1, JobType, JobUpdate DEF Call, TypeOK
<1>2. ASSUME NEW t \in Threads, Claim(t) PROVE TypeOK'
  BY <1>2, JobType DEF Claim, TypeOK
<1>3. ASSUME NEW t \in Threads, LoadRecord(t) PROVE TypeOK'
  <2>1. job' \in [Threads -> Job]
    <3>1. CASE Exists(job[t].id)
      <4>1. job[t] \in Job /\ connectors[job[t].id] \in Row
        BY <3>1, JobType, RowUpdate
      <4>2. job' = [job EXCEPT ![t] = [job[t] EXCEPT
                     !.enabled = connectors[job[t].id].enabled,
                     !.kind = connectors[job[t].id].kind,
                     !.born = connectors[job[t].id].born]]
        BY <1>3, <3>1 DEF LoadRecord, TypeOK
      <4> QED
        BY <4>1, <4>2, JobLoaded DEF TypeOK
    <3>2. CASE ~Exists(job[t].id)
      BY <1>3, <3>2 DEF LoadRecord, TypeOK
    <3> QED
      BY <3>1, <3>2
  <2> QED
    BY <1>3, <2>1 DEF LoadRecord, TypeOK
<1>4. ASSUME NEW t \in Threads, LoadConfig(t) PROVE TypeOK'
  BY <1>4, JobType, JobUpdate, RowUpdate DEF LoadConfig, TypeOK, Row
<1>5. ASSUME NEW t \in Threads, MarkRunning(t) PROVE TypeOK'
  BY <1>5, JobType, SetStatusType DEF MarkRunning, TypeOK, Status
<1>6. ASSUME NEW t \in Threads, Fetch(t) PROVE TypeOK'
  BY <1>6 DEF Fetch, TypeOK
<1>7. ASSUME NEW t \in Threads, ProxyLook(t) PROVE TypeOK'
  BY <1>7 DEF ProxyLook, TypeOK
<1>8. ASSUME NEW t \in Threads, ProxyInsert(t) PROVE TypeOK'
  BY <1>8, JobType DEF ProxyInsert, TypeOK
<1>9. ASSUME NEW t \in Threads, Resolve(t) PROVE TypeOK'
  BY <1>9 DEF Resolve, TypeOK
<1>10. ASSUME NEW t \in Threads, Apply(t) PROVE TypeOK'
  <2>1. connectors' \in [Ids -> Row \cup {None}]
    BY <1>10, JobType, SetStatusType DEF Apply, TypeOK, Status
  <2>2. lastRun' \in [Ids -> Outcome]
    <3>1. \/ lastRun' = [lastRun EXCEPT ![job[t].id] = [status |-> "success", by |-> t]]
          \/ lastRun' = lastRun
      BY <1>10 DEF Apply
    <3>2. lastRun \in [Ids -> Outcome]
      BY DEF TypeOK
    <3> QED
      BY <3>1, <3>2, OutcomeType
  <2>3. /\ inventory' \in [Ids -> Nat] /\ job' \in [Threads -> Job]
        /\ late' \in [Ids -> Nat]
    BY <1>10, JobType, JobUpdate DEF Apply, Late, TypeOK
  <2>4. pc' \in [Threads -> Stage]
    BY <1>10 DEF Apply
  <2> QED
    BY <1>10, <2>1, <2>2, <2>3, <2>4 DEF Apply, TypeOK
<1>11. ASSUME NEW t \in Threads, Reconcile(t) PROVE TypeOK'
  BY <1>11 DEF Reconcile, TypeOK
<1>12. ASSUME NEW t \in Threads, UnsettleRun(t) PROVE TypeOK'
  BY <1>12, JobType, OutcomeType DEF UnsettleRun, TypeOK
<1>13. ASSUME NEW t \in Threads, UnsettleStatus(t) PROVE TypeOK'
  BY <1>13, JobType, SetStatusType DEF UnsettleStatus, TypeOK, Status
<1>14. ASSUME NEW t \in Threads, FailRun(t) PROVE TypeOK'
  BY <1>14, JobType, OutcomeType DEF FailRun, TypeOK
<1>15. ASSUME NEW t \in Threads, FailStatus(t) PROVE TypeOK'
  BY <1>15, JobType, SetStatusType DEF FailStatus, TypeOK, Status
<1>16. ASSUME NEW t \in Threads, Release(t) PROVE TypeOK'
  BY <1>16 DEF Release, TypeOK
<1>17. ASSUME NEW t \in Threads, LoadFails(t) PROVE TypeOK'
  BY <1>17, BoundsAssumption DEF LoadFails, TypeOK
<1>18. ASSUME NEW t \in Threads, LoseWrite(t) PROVE TypeOK'
  <2>1. AfterIgnored[pc[t]] \in Stage
    BY <1>18 DEF LoseWrite
  <2>2. pc' \in [Threads -> Stage]
    BY <1>18, <2>1 DEF LoseWrite
  <2>3. suspect' \subseteq Ids
    BY <1>18, JobType DEF LoseWrite, TypeOK
  <2>4. faults' \in 0..MaxFaults
    BY <1>18, BoundsAssumption DEF LoseWrite, TypeOK
  <2> QED
    BY <1>18, <2>2, <2>3, <2>4 DEF LoseWrite, TypeOK
<1>19. ASSUME NEW i \in Ids, NEW kind \in Kinds, CreateConnector(i, kind) PROVE TypeOK'
  BY <1>19 DEF CreateConnector, TypeOK, Row, Status
<1>20. ASSUME NEW i \in Ids, NEW e \in BOOLEAN, SetEnabled(i, e) PROVE TypeOK'
  BY <1>20, RowUpdate DEF SetEnabled, TypeOK
<1>21. ASSUME NEW i \in Ids, DeleteConnector(i) PROVE TypeOK'
  BY <1>21 DEF DeleteConnector, TypeOK, NoRun, Outcome
<1>22. CASE Crash
  <2>1. suspect' \subseteq Ids
    <3>1. suspect' = suspect \cup {job[t].id : t \in {u \in Threads : Inside(u)}}
      BY <1>22 DEF Crash
    <3>2. \A t \in Threads : job[t].id \in Ids
      BY JobType
    <3> QED
      BY <3>1, <3>2 DEF TypeOK
  <2>2. faults' \in 0..MaxFaults
    BY <1>22, BoundsAssumption DEF Crash, TypeOK
  <2> QED
    BY <1>22, <2>1, <2>2 DEF Crash, TypeOK
<1>23. CASE UNCHANGED vars
  BY <1>23 DEF vars, TypeOK
<1> QED
  BY <1>1, <1>2, <1>3, <1>4, <1>5, <1>6, <1>7, <1>8, <1>9, <1>10, <1>11, <1>12,
     <1>13, <1>14, <1>15, <1>16, <1>17, <1>18, <1>19, <1>20, <1>21, <1>22, <1>23
     DEF Next, Step, Environment, RequestScan, TickScan

\* The variables of a scan keep the types above in every reachable state.
THEOREM TypeCorrect == Spec => []TypeOK
<1> QED
  BY TypeInit, TypeStep, PTL DEF Spec

-----------------------------------------------------------------------------
\* One scan per source.

\* A step that neither enters nor leaves a scan and retargets none.
Quiet ==
  /\ running' = running
  /\ \A t \in Threads : /\ Inside(t)' <=> Inside(t)
                        /\ Inside(t) => job'[t].id = job[t].id

LEMMA QuietKeepsClaims ==
  ASSUME OneScanPerSource, Quiet PROVE OneScanPerSource'
  BY DEF OneScanPerSource, Quiet, Inside

\* Claim, Release and Crash are the only steps that are not quiet.
LEMMA QuietSteps ==
  ASSUME TypeOK, [Next]_vars,
         ~Crash, \A t \in Threads : ~Claim(t) /\ ~Release(t)
  PROVE  Quiet
<1> USE DEF dbVars, historyVars, Quiet, Inside, Goto, TypeOK
<1>1. ASSUME NEW t \in Threads, NEW i \in Ids, Call(t, i) PROVE Quiet
  BY <1>1 DEF Call
<1>2. ASSUME NEW t \in Threads, LoadRecord(t) \/ LoadConfig(t) PROVE Quiet
  BY <1>2, LoadKeeps DEF LoadRecord, LoadConfig
<1>3. ASSUME NEW t \in Threads, MarkRunning(t) \/ Fetch(t) PROVE Quiet
  BY <1>3 DEF MarkRunning, Fetch
<1>4. ASSUME NEW t \in Threads, ProxyLook(t) \/ ProxyInsert(t) PROVE Quiet
  BY <1>4 DEF ProxyLook, ProxyInsert
<1>5. ASSUME NEW t \in Threads, Resolve(t) \/ Reconcile(t) PROVE Quiet
  BY <1>5 DEF Resolve, Reconcile
<1>6. ASSUME NEW t \in Threads, Apply(t) PROVE Quiet
  BY <1>6, ApplyKeeps DEF Apply
<1>7. ASSUME NEW t \in Threads, UnsettleRun(t) \/ UnsettleStatus(t) PROVE Quiet
  BY <1>7 DEF UnsettleRun, UnsettleStatus
<1>8. ASSUME NEW t \in Threads, FailRun(t) \/ FailStatus(t) PROVE Quiet
  BY <1>8 DEF FailRun, FailStatus
<1>9. ASSUME NEW t \in Threads, LoadFails(t) PROVE Quiet
  BY <1>9 DEF LoadFails, Loading
<1>10. ASSUME NEW t \in Threads, LoseWrite(t) PROVE Quiet
  BY <1>10 DEF LoseWrite, AfterIgnored
<1>11. ASSUME NEW i \in Ids, NEW kind \in Kinds, CreateConnector(i, kind) PROVE Quiet
  BY <1>11 DEF CreateConnector
<1>12. ASSUME NEW i \in Ids, NEW e \in BOOLEAN, SetEnabled(i, e) PROVE Quiet
  BY <1>12 DEF SetEnabled
<1>13. ASSUME NEW i \in Ids, DeleteConnector(i) PROVE Quiet
  BY <1>13 DEF DeleteConnector
<1>14. CASE UNCHANGED vars
  BY <1>14 DEF vars
<1> QED
  BY <1>1, <1>2, <1>3, <1>4, <1>5, <1>6, <1>7, <1>8, <1>9, <1>10, <1>11, <1>12,
     <1>13, <1>14 DEF Next, Step, Environment, RequestScan, TickScan

LEMMA OneScanStep ==
  ASSUME TypeOK, OneScanPerSource, [Next]_vars PROVE OneScanPerSource'
<1> USE DEF TypeOK, Inside, Goto
<1>1. ASSUME NEW t \in Threads, Claim(t) PROVE OneScanPerSource'
  <2>1. CASE job[t].id \in running
    BY <1>1, <2>1 DEF Claim, OneScanPerSource
  <2>2. CASE job[t].id \notin running
    <3>1. \A u \in Threads : Inside(u)' <=> Inside(u) \/ u = t
      BY <1>1, <2>2 DEF Claim
    <3>2. running' = running \cup {job[t].id} /\ job' = job
      BY <1>1, <2>2 DEF Claim
    <3> QED
      BY <2>2, <3>1, <3>2 DEF OneScanPerSource
  <2> QED
    BY <2>1, <2>2
<1>2. ASSUME NEW t \in Threads, Release(t) PROVE OneScanPerSource'
  <2>1. \A u \in Threads : Inside(u)' <=> Inside(u) /\ u # t
    BY <1>2 DEF Release
  <2>2. \A u \in Threads : u # t => job'[u] = job[u]
    BY <1>2 DEF Release
  <2>3. running' = running \ {job[t].id} /\ Inside(t)
    BY <1>2 DEF Release
  <2> QED
    BY <2>1, <2>2, <2>3 DEF OneScanPerSource
<1>3. CASE Crash
  BY <1>3 DEF Crash, OneScanPerSource
<1>4. CASE ~Crash /\ \A t \in Threads : ~Claim(t) /\ ~Release(t)
  BY <1>4, QuietSteps, QuietKeepsClaims
<1> QED
  BY <1>1, <1>2, <1>3, <1>4

\* Two goroutines never scan one source at once, and Runner.running is exact.
THEOREM OneScan == Spec => []OneScanPerSource
<1>1. Init => OneScanPerSource
  BY DEF Init, OneScanPerSource, Inside
<1>2. TypeOK /\ OneScanPerSource /\ [Next]_vars => OneScanPerSource'
  BY OneScanStep
<1> QED
  BY <1>1, <1>2, TypeCorrect, PTL DEF Spec

\* Runner.Scan: two goroutines never scan one source at once, no claim is leaked or shared,
\* and every variable keeps its shape.
THEOREM ScansAreExclusive == Spec => []ScansExclude
  BY TypeCorrect, OneScan, PTL DEF ScansExclude

-----------------------------------------------------------------------------
\* A scan inserts its proxies row only where there is none.

\* A step that leaves the table alone and starts no INSERT.
LEMMA ProxyFrame ==
  ASSUME ProxyInsertFits, proxies' = proxies,
         \A t \in Threads : pc'[t] = "proxyInsert" =>
            pc[t] = "proxyInsert" /\ job'[t].id = job[t].id
  PROVE  ProxyInsertFits'
  BY DEF ProxyInsertFits

LEMMA ProxyStep ==
  ASSUME TypeOK, OneScanPerSource, ProxyInsertFits, [Next]_vars PROVE ProxyInsertFits'
<1> USE DEF dbVars, historyVars, Goto, TypeOK
<1>1. ASSUME NEW t \in Threads, NEW i \in Ids, Call(t, i) PROVE ProxyInsertFits'
  BY <1>1, ProxyFrame DEF Call
<1>2. ASSUME NEW t \in Threads, Claim(t) \/ Release(t) PROVE ProxyInsertFits'
  BY <1>2, ProxyFrame DEF Claim, Release
<1>3. ASSUME NEW t \in Threads, LoadRecord(t) \/ LoadConfig(t) PROVE ProxyInsertFits'
  BY <1>3, ProxyFrame DEF LoadRecord, LoadConfig
<1>4. ASSUME NEW t \in Threads, MarkRunning(t) \/ Fetch(t) PROVE ProxyInsertFits'
  BY <1>4, ProxyFrame DEF MarkRunning, Fetch
<1>5. ASSUME NEW t \in Threads, ProxyLook(t) PROVE ProxyInsertFits'
  <2>1. proxies[job[t].id] \in Nat
    BY JobType
  <2> QED
    BY <1>5, <2>1 DEF ProxyLook, ProxyInsertFits
<1>6. ASSUME NEW t \in Threads, ProxyInsert(t) PROVE ProxyInsertFits'
  <2>1. CASE Exists(job[t].id) /\ proxies[job[t].id] = 0
    <3>1. proxies' = [proxies EXCEPT ![job[t].id] = @ + 1] /\ job' = job
      BY <1>6, <2>1 DEF ProxyInsert
    <3>2. proxies[job[t].id] = 0 /\ job[t].id \in Ids
      BY <1>6, JobType DEF ProxyInsert, ProxyInsertFits
    <3>3. \A u \in Threads : pc'[u] = "proxyInsert" => job[u].id # job[t].id
      BY <1>6, <2>1 DEF ProxyInsert, OneScanPerSource, Inside
    <3>4. \A u \in Threads : pc'[u] = "proxyInsert" => pc[u] = "proxyInsert"
      BY <1>6, <2>1 DEF ProxyInsert
    <3>5. \A u \in Threads : job[u].id \in Ids
      BY JobType
    <3> QED
      BY <3>1, <3>2, <3>3, <3>4, <3>5 DEF ProxyInsertFits
  <2>2. CASE ~(Exists(job[t].id) /\ proxies[job[t].id] = 0)
    BY <1>6, <2>2, ProxyFrame DEF ProxyInsert
  <2> QED
    BY <2>1, <2>2
<1>7. ASSUME NEW t \in Threads, Resolve(t) \/ Reconcile(t) PROVE ProxyInsertFits'
  BY <1>7, ProxyFrame DEF Resolve, Reconcile
<1>8. ASSUME NEW t \in Threads, Apply(t) PROVE ProxyInsertFits'
  BY <1>8, ProxyFrame DEF Apply
<1>9. ASSUME NEW t \in Threads, UnsettleRun(t) \/ UnsettleStatus(t) PROVE ProxyInsertFits'
  BY <1>9, ProxyFrame DEF UnsettleRun, UnsettleStatus
<1>10. ASSUME NEW t \in Threads, FailRun(t) \/ FailStatus(t) PROVE ProxyInsertFits'
  BY <1>10, ProxyFrame DEF FailRun, FailStatus
<1>11. ASSUME NEW t \in Threads, LoadFails(t) PROVE ProxyInsertFits'
  BY <1>11, ProxyFrame DEF LoadFails
<1>12. ASSUME NEW t \in Threads, LoseWrite(t) PROVE ProxyInsertFits'
  BY <1>12, ProxyFrame DEF LoseWrite, AfterIgnored
<1>13. ASSUME NEW i \in Ids, NEW kind \in Kinds, CreateConnector(i, kind) PROVE ProxyInsertFits'
  BY <1>13, ProxyFrame DEF CreateConnector
<1>14. ASSUME NEW i \in Ids, NEW e \in BOOLEAN, SetEnabled(i, e) PROVE ProxyInsertFits'
  BY <1>14, ProxyFrame DEF SetEnabled
<1>15. ASSUME NEW i \in Ids, DeleteConnector(i) PROVE ProxyInsertFits'
  <2>1. \A u \in Threads : job[u].id \in Ids
    BY JobType
  <2> QED
    BY <1>15, <2>1 DEF DeleteConnector, ProxyInsertFits
<1>16. CASE Crash
  BY <1>16, ProxyFrame DEF Crash
<1>17. CASE UNCHANGED vars
  BY <1>17, ProxyFrame DEF vars
<1> QED
  BY <1>1, <1>2, <1>3, <1>4, <1>5, <1>6, <1>7, <1>8, <1>9, <1>10, <1>11, <1>12,
     <1>13, <1>14, <1>15, <1>16, <1>17
     DEF Next, Step, Environment, RequestScan, TickScan

\* No scan is ever refused by idx_proxies_connector.
THEOREM SingleProxy == Spec => []ProxyInsertFits
<1>1. Init => ProxyInsertFits
  BY DEF Init, ProxyInsertFits
<1>2. TypeOK /\ OneScanPerSource /\ ProxyInsertFits /\ [Next]_vars => ProxyInsertFits'
  BY ProxyStep
<1> QED
  BY <1>1, <1>2, TypeCorrect, OneScan, PTL DEF Spec

-----------------------------------------------------------------------------
\* Inventories come from their own source.

\* A goroutine that still may file an inventory holds the incarnation it read,
\* and that is the incarnation in the table unless the id changed hands.
OwnInv ==
  /\ \A i \in Ids : inventory[i] # 0 =>
       Exists(i) /\ (i \in reused \/ connectors[i].born = inventory[i])
  /\ \A t \in Threads : pc[t] \in Working =>
       /\ job[t].born # 0
       /\ \/ job[t].id \in reused
          \/ ~Exists(job[t].id)
          \/ connectors[job[t].id].born = job[t].born

SameIncarnations ==
  \A i \in Ids : /\ Exists(i)' <=> Exists(i)
                 /\ Exists(i) => connectors'[i].born = connectors[i].born

\* SetStatus and SetEnabled change no incarnation.
LEMMA SameBorn ==
  ASSUME TypeOK, NEW i \in Ids,
         \/ \E s \in Status : SetStatus(i, s)
         \/ \E e \in BOOLEAN : SetEnabled(i, e)
         \/ UNCHANGED connectors
  PROVE  SameIncarnations
<1>1. ASSUME NEW s \in Status, SetStatus(i, s) PROVE SameIncarnations
  <2>1. CASE Exists(i)
    <3>1. connectors' = [connectors EXCEPT ![i] = [connectors[i] EXCEPT !.status = s]]
      BY <1>1, <2>1 DEF SetStatus
    <3>2. /\ connectors'[i] \in Row
          /\ connectors'[i].born = connectors[i].born
          /\ \A k \in Ids : k # i => connectors'[k] = connectors[k]
      BY <2>1, <3>1, RowUpdate DEF TypeOK, Row
    <3>3. connectors'[i] # None
      BY <3>2, NoneAssumption
    <3> QED
      BY <2>1, <3>2, <3>3 DEF SameIncarnations, Exists
  <2>2. CASE ~Exists(i)
    BY <1>1, <2>2 DEF SetStatus, SameIncarnations, Exists
  <2> QED
    BY <2>1, <2>2
<1>2. ASSUME NEW e \in BOOLEAN, SetEnabled(i, e) PROVE SameIncarnations
  <2>1. connectors' = [connectors EXCEPT ![i] = [connectors[i] EXCEPT !.enabled = e]]
        /\ Exists(i)
    BY <1>2 DEF SetEnabled
  <2>2. /\ connectors'[i] \in Row
        /\ connectors'[i].born = connectors[i].born
        /\ \A k \in Ids : k # i => connectors'[k] = connectors[k]
    BY <2>1, RowUpdate DEF TypeOK, Row
  <2>3. connectors'[i] # None
    BY <2>2, NoneAssumption
  <2> QED
    BY <2>1, <2>2, <2>3 DEF SameIncarnations, Exists
<1>3. CASE UNCHANGED connectors
  BY <1>3 DEF SameIncarnations, Exists
<1> QED
  BY <1>1, <1>2, <1>3

\* A step that changes no incarnation, files nothing, and lets nobody start work.
LEMMA OwnFrame ==
  ASSUME TypeOK, OwnInv, SameIncarnations, inventory' = inventory, reused' = reused,
         \A t \in Threads : pc'[t] \in Working =>
            pc[t] \in Working /\ job'[t].id = job[t].id /\ job'[t].born = job[t].born
  PROVE  OwnInv'
  <1>1. \A t \in Threads : job[t].id \in Ids
    BY JobType
  <1> QED
    BY <1>1 DEF OwnInv, SameIncarnations

LEMMA OwnStep ==
  ASSUME TypeOK, OneScanPerSource, OwnInv, [Next]_vars PROVE OwnInv'
<1> USE DEF dbVars, historyVars, Goto, TypeOK, Working
<1>1. ASSUME NEW t \in Threads, NEW i \in Ids, Call(t, i) PROVE OwnInv'
  BY <1>1, OwnFrame, SameBorn DEF Call
<1>2. ASSUME NEW t \in Threads, Claim(t) \/ Release(t) PROVE OwnInv'
  BY <1>2, JobType, OwnFrame, SameBorn DEF Claim, Release
<1>3. ASSUME NEW t \in Threads, LoadRecord(t) PROVE OwnInv'
  BY <1>3, JobType, OwnFrame, SameBorn DEF LoadRecord
<1>4. ASSUME NEW t \in Threads, LoadConfig(t) PROVE OwnInv'
  <2>1. CASE pc'[t] = "mark"
    <3>1. Exists(job[t].id) /\ job[t].id \in Ids
      BY <1>4, <2>1, JobType DEF LoadConfig
    <3>2. job'[t].born = connectors[job[t].id].born /\ job'[t].id = job[t].id
      BY <1>4, <3>1, JobType DEF LoadConfig, Job
    <3>3. connectors[job[t].id].born # 0
      BY <3>1, RowUpdate DEF Row
    <3>4. UNCHANGED <<connectors, inventory, reused>>
      BY <1>4 DEF LoadConfig
    <3>5. \A u \in Threads : u # t => job'[u] = job[u] /\ pc'[u] = pc[u]
      BY <1>4 DEF LoadConfig
    <3> QED
      BY <3>1, <3>2, <3>3, <3>4, <3>5 DEF OwnInv, Exists
  <2>2. CASE pc'[t] # "mark"
    BY <1>4, <2>2, JobType, OwnFrame, SameBorn DEF LoadConfig
  <2> QED
    BY <2>1, <2>2
<1>5. ASSUME NEW t \in Threads, MarkRunning(t) PROVE OwnInv'
  BY <1>5, JobType, OwnFrame, SameBorn DEF MarkRunning, Status
<1>6. ASSUME NEW t \in Threads, Fetch(t) \/ ProxyLook(t) PROVE OwnInv'
  BY <1>6, JobType, OwnFrame, SameBorn DEF Fetch, ProxyLook
<1>7. ASSUME NEW t \in Threads, ProxyInsert(t) \/ Resolve(t) PROVE OwnInv'
  BY <1>7, JobType, OwnFrame, SameBorn DEF ProxyInsert, Resolve
<1>8. ASSUME NEW t \in Threads, Apply(t) PROVE OwnInv'
  <2>1. CASE pc'[t] = "reconcile"
    <3> DEFINE i == job[t].id
    <3>1. /\ i \in Ids
          /\ Exists(i)
          /\ job[t].born # 0
          /\ i \in reused \/ connectors[i].born = job[t].born
      BY <1>8, <2>1, JobType DEF Apply, OwnInv
    <3>2. SetStatus(i, "success")
      BY <1>8, <2>1 DEF Apply
    <3>3. SameIncarnations
      BY <3>1, <3>2, SameBorn DEF Status
    <3>4. /\ inventory' = [inventory EXCEPT ![i] = job[t].born]
          /\ reused' = reused
          /\ \A u \in Threads : pc'[u] \in Working => u # t
          /\ \A u \in Threads : u # t => job'[u] = job[u] /\ pc'[u] = pc[u]
      BY <1>8, <2>1 DEF Apply
    <3>5. \A u \in Threads : job[u].id \in Ids
      BY JobType
    <3> QED
      BY <3>1, <3>3, <3>4, <3>5 DEF OwnInv, SameIncarnations
  <2>2. CASE pc'[t] # "reconcile"
    BY <1>8, <2>2, JobType, OwnFrame, SameBorn DEF Apply
  <2> QED
    BY <2>1, <2>2
<1>9. ASSUME NEW t \in Threads, Reconcile(t) \/ UnsettleRun(t) \/ FailRun(t) PROVE OwnInv'
  BY <1>9, JobType, OwnFrame, SameBorn DEF Reconcile, UnsettleRun, FailRun
<1>10. ASSUME NEW t \in Threads, UnsettleStatus(t) \/ FailStatus(t) PROVE OwnInv'
  BY <1>10, JobType, OwnFrame, SameBorn DEF UnsettleStatus, FailStatus, Status
<1>11. ASSUME NEW t \in Threads, LoadFails(t) PROVE OwnInv'
  BY <1>11, OwnFrame, SameBorn, JobType DEF LoadFails
<1>12. ASSUME NEW t \in Threads, LoseWrite(t) PROVE OwnInv'
  <2>1. AfterIgnored[pc[t]] \in Working => pc[t] \in Working
    BY <1>12 DEF LoseWrite, AfterIgnored
  <2>2. SameIncarnations
    BY <1>12 DEF LoseWrite, SameIncarnations, Exists
  <2> QED
    BY <1>12, <2>1, <2>2, OwnFrame DEF LoseWrite
<1>13. ASSUME NEW i \in Ids, NEW kind \in Kinds, CreateConnector(i, kind) PROVE OwnInv'
  <2>1. ~Exists(i)
    BY <1>13 DEF CreateConnector, IsNextId, Ids
  <2>2. inventory[i] = 0 /\ inventory' = inventory
    BY <1>13, <2>1 DEF CreateConnector, OwnInv
  <2>3. \A k \in Ids : k # i => connectors'[k] = connectors[k]
    BY <1>13 DEF CreateConnector
  <2>4. reused' = IF i \in running THEN reused \cup {i} ELSE reused \ {i}
    BY <1>13 DEF CreateConnector
  <2>5. \A t \in Threads : pc[t] \in Working => job[t].id \in running
    BY DEF OneScanPerSource, Inside
  <2>6. UNCHANGED <<pc, job>>
    BY <1>13 DEF CreateConnector
  <2>7. \A u \in Threads : job[u].id \in Ids
    BY JobType
  <2> QED
    BY <2>2, <2>3, <2>4, <2>5, <2>6, <2>7 DEF OwnInv, Exists
<1>14. ASSUME NEW i \in Ids, NEW e \in BOOLEAN, SetEnabled(i, e) PROVE OwnInv'
  <2>1. SameIncarnations
    BY <1>14, SameBorn
  <2> QED
    BY <1>14, <2>1, OwnFrame DEF SetEnabled
<1>15. ASSUME NEW i \in Ids, DeleteConnector(i) PROVE OwnInv'
  <2>1. \A u \in Threads : job[u].id \in Ids
    BY JobType
  <2> QED
    BY <1>15, <2>1 DEF DeleteConnector, OwnInv, Exists
<1>16. CASE Crash
  BY <1>16, OwnFrame, SameBorn, BoundsAssumption DEF Crash, SameIncarnations, Exists
<1>17. CASE UNCHANGED vars
  BY <1>17, OwnFrame DEF vars, SameIncarnations, Exists
<1> QED
  BY <1>1, <1>2, <1>3, <1>4, <1>5, <1>6, <1>7, <1>8, <1>9, <1>10, <1>11, <1>12,
     <1>13, <1>14, <1>15, <1>16, <1>17
     DEF Next, Step, Environment, RequestScan, TickScan

\* What is filed under a source was read from it, unless its id changed hands
\* while a scan held the claim.
THEOREM OwnInventory == Spec => []InventoryFromOwnSource
<1>1. Init => OwnInv
  BY DEF Init, OwnInv, Working
<1>2. TypeOK /\ OneScanPerSource /\ OwnInv /\ [Next]_vars => OwnInv'
  BY OwnStep
<1>3. OwnInv => InventoryFromOwnSource
  BY DEF OwnInv, InventoryFromOwnSource
<1> QED
  BY <1>1, <1>2, <1>3, TypeCorrect, OneScan, PTL DEF Spec

-----------------------------------------------------------------------------
\* A disabled source gets the snapshot of the scan under way and no other.

\* A goroutine that has seen the enabled flag set, and not yet filed what it read.
Ready(t) == pc[t] \in Working \/ (pc[t] = "config" /\ job[t].enabled)

\* Nobody is ready for a source that has had its late snapshot.
LateInv ==
  /\ \A i \in Ids : late[i] # 0 => late[i] = 1 /\ Exists(i) /\ ~connectors[i].enabled
  /\ \A t \in Threads : Ready(t) => late[job[t].id] = 0

SameEnabled ==
  \A i \in Ids : /\ Exists(i)' <=> Exists(i)
                 /\ Exists(i) => connectors'[i].enabled = connectors[i].enabled

LEMMA StatusKeepsEnabled ==
  ASSUME TypeOK, NEW i \in Ids, NEW s \in Status, SetStatus(i, s)
  PROVE  SameEnabled
<1>1. CASE Exists(i)
  <2>1. connectors' = [connectors EXCEPT ![i] = [connectors[i] EXCEPT !.status = s]]
    BY <1>1 DEF SetStatus
  <2>2. /\ connectors'[i] \in Row
        /\ connectors'[i].enabled = connectors[i].enabled
        /\ \A k \in Ids : k # i => connectors'[k] = connectors[k]
    BY <1>1, <2>1, RowUpdate DEF TypeOK, Row
  <2> QED
    BY <1>1, <2>2, NoneAssumption DEF SameEnabled, Exists
<1>2. CASE ~Exists(i)
  BY <1>2 DEF SetStatus, SameEnabled, Exists
<1> QED
  BY <1>1, <1>2

\* A step that files nothing, switches no source and makes nobody ready.
LEMMA LateFrame ==
  ASSUME TypeOK, LateInv, SameEnabled, late' = late,
         \A t \in Threads : Ready(t)' => Ready(t) /\ job'[t].id = job[t].id
  PROVE  LateInv'
  BY DEF LateInv, SameEnabled

LEMMA LateStep ==
  ASSUME TypeOK, OneScanPerSource, LateInv, [Next]_vars PROVE LateInv'
<1> USE DEF dbVars, historyVars, Goto, TypeOK, Working
<1>0. UNCHANGED connectors => SameEnabled
  BY DEF SameEnabled, Exists
<1>1. ASSUME NEW t \in Threads, NEW i \in Ids, Call(t, i) PROVE LateInv'
  BY <1>1, <1>0, LateFrame DEF Call, Ready
<1>2. ASSUME NEW t \in Threads, Claim(t) \/ Release(t) PROVE LateInv'
  BY <1>2, <1>0, LateFrame DEF Claim, Release, Ready
<1>3. ASSUME NEW t \in Threads, LoadRecord(t) PROVE LateInv'
  <2>1. CASE Exists(job[t].id)
    <3>1. job'[t].enabled = connectors[job[t].id].enabled /\ job'[t].id = job[t].id
      <4>1. job[t] \in Job
        BY JobType
      <4>2. job' = [job EXCEPT ![t] = [job[t] EXCEPT !.enabled = connectors[job[t].id].enabled,
                                                     !.kind = connectors[job[t].id].kind,
                                                     !.born = connectors[job[t].id].born]]
        BY <1>3, <2>1 DEF LoadRecord
      <4> QED
        BY <4>1, <4>2 DEF Job
    <3>2. connectors[job[t].id].enabled => late[job[t].id] = 0
      BY JobType DEF LateInv
    <3>3. \A u \in Threads : u # t => job'[u] = job[u] /\ pc'[u] = pc[u]
      BY <1>3 DEF LoadRecord
    <3>4. pc'[t] = "config" /\ UNCHANGED <<connectors, late>>
      BY <1>3, <2>1 DEF LoadRecord
    <3> QED
      BY <3>1, <3>2, <3>3, <3>4 DEF LateInv, Ready, Exists
  <2>2. CASE ~Exists(job[t].id)
    BY <1>3, <2>2, <1>0, LateFrame DEF LoadRecord, Ready
  <2> QED
    BY <2>1, <2>2
<1>4. ASSUME NEW t \in Threads, LoadConfig(t) PROVE LateInv'
  <2>1. \A u \in Threads : Ready(u)' => Ready(u) /\ job'[u].id = job[u].id
    BY <1>4, LoadKeeps DEF LoadConfig, Ready
  <2> QED
    BY <1>4, <2>1, <1>0, LateFrame DEF LoadConfig
<1>5. ASSUME NEW t \in Threads, MarkRunning(t) PROVE LateInv'
  <2>1. SameEnabled
    BY <1>5, JobType, StatusKeepsEnabled DEF MarkRunning, Status
  <2> QED
    BY <1>5, <2>1, LateFrame DEF MarkRunning, Ready
<1>6. ASSUME NEW t \in Threads, Fetch(t) \/ ProxyLook(t) PROVE LateInv'
  BY <1>6, <1>0, LateFrame DEF Fetch, ProxyLook, Ready
<1>7. ASSUME NEW t \in Threads, ProxyInsert(t) \/ Resolve(t) PROVE LateInv'
  BY <1>7, <1>0, LateFrame DEF ProxyInsert, Resolve, Ready
<1>8. ASSUME NEW t \in Threads, Apply(t) PROVE LateInv'
  <2>1. CASE pc'[t] = "reconcile"
    <3>1. PICK i \in Ids : i = job[t].id
      BY JobType
    <3>2. Exists(i) /\ SetStatus(i, "success") /\ late' = Late(i) /\ late[i] = 0
      BY <1>8, <2>1, <3>1 DEF Apply, LateInv, Ready
    <3>3. SameEnabled
      BY <3>2, StatusKeepsEnabled DEF Status
    <3>4. /\ late'[i] = IF connectors[i].enabled THEN 0 ELSE 1
          /\ \A k \in Ids : k # i => late'[k] = late[k]
      BY <3>2 DEF Late
    <3>5. \A u \in Threads : Ready(u)' => Ready(u) /\ job'[u].id = job[u].id /\ u # t
      BY <1>8, <2>1, ApplyKeeps DEF Apply, Ready
    <3>6. \A u \in Threads : Ready(u) /\ u # t => job[u].id # i
      BY <1>8, <3>1 DEF OneScanPerSource, Inside, Ready, Apply
    <3>7. \A u \in Threads : Ready(u)' => late'[job'[u].id] = 0
      BY <3>4, <3>5, <3>6, JobType DEF LateInv
    <3> QED
      BY <3>2, <3>3, <3>4, <3>7 DEF LateInv, SameEnabled
  <2>2. CASE pc'[t] # "reconcile"
    BY <1>8, <2>2, <1>0, LateFrame DEF Apply, Ready
  <2> QED
    BY <2>1, <2>2
<1>9. ASSUME NEW t \in Threads, Reconcile(t) \/ UnsettleRun(t) \/ FailRun(t) PROVE LateInv'
  BY <1>9, <1>0, LateFrame DEF Reconcile, UnsettleRun, FailRun, Ready
<1>10. ASSUME NEW t \in Threads, UnsettleStatus(t) \/ FailStatus(t) PROVE LateInv'
  <2>1. SameEnabled
    BY <1>10, JobType, StatusKeepsEnabled DEF UnsettleStatus, FailStatus, Status
  <2> QED
    BY <1>10, <2>1, LateFrame DEF UnsettleStatus, FailStatus, Ready
<1>11. ASSUME NEW t \in Threads, LoadFails(t) PROVE LateInv'
  BY <1>11, <1>0, LateFrame DEF LoadFails, Ready
<1>12. ASSUME NEW t \in Threads, LoseWrite(t) PROVE LateInv'
  <2>1. Ready(t)' => Ready(t)
    BY <1>12 DEF LoseWrite, AfterIgnored, Ready
  <2>2. \A u \in Threads : Ready(u)' => Ready(u) /\ job'[u].id = job[u].id
    BY <1>12, <2>1 DEF LoseWrite, Ready
  <2> QED
    BY <1>12, <2>2, <1>0, LateFrame DEF LoseWrite
<1>13. ASSUME NEW i \in Ids, NEW kind \in Kinds, CreateConnector(i, kind) PROVE LateInv'
  <2>1. ~Exists(i)
    BY <1>13 DEF CreateConnector, IsNextId, Ids
  <2>2. late[i] = 0 /\ late' = late
    BY <1>13, <2>1 DEF CreateConnector, LateInv
  <2>3. \A k \in Ids : k # i => connectors'[k] = connectors[k]
    BY <1>13 DEF CreateConnector
  <2>4. UNCHANGED <<pc, job>>
    BY <1>13 DEF CreateConnector
  <2> QED
    BY <2>2, <2>3, <2>4 DEF LateInv, Ready, Exists
<1>14. ASSUME NEW i \in Ids, NEW e \in BOOLEAN, SetEnabled(i, e) PROVE LateInv'
  <2>1. Exists(i) /\ connectors' = [connectors EXCEPT ![i] = [connectors[i] EXCEPT !.enabled = e]]
    BY <1>14 DEF SetEnabled
  <2>2. /\ connectors'[i] # None /\ connectors'[i].enabled = e
        /\ \A k \in Ids : k # i => connectors'[k] = connectors[k]
    BY <2>1, RowUpdate, NoneAssumption DEF Row
  <2>3. /\ late'[i] = IF e THEN 0 ELSE late[i]
        /\ \A k \in Ids : k # i => late'[k] = late[k]
    BY <1>14 DEF SetEnabled
  <2>4. UNCHANGED <<pc, job>>
    BY <1>14 DEF SetEnabled
  <2>5. \A u \in Threads : Ready(u)' => late'[job'[u].id] = 0
    BY <2>3, <2>4, JobType DEF LateInv, Ready
  <2> QED
    BY <2>2, <2>3, <2>5 DEF LateInv, Exists
<1>15. ASSUME NEW i \in Ids, DeleteConnector(i) PROVE LateInv'
  <2>1. \A u \in Threads : job[u].id \in Ids
    BY JobType
  <2> QED
    BY <1>15, <2>1 DEF DeleteConnector, LateInv, Ready, Exists
<1>16. CASE Crash
  BY <1>16, <1>0, LateFrame DEF Crash, Ready
<1>17. CASE UNCHANGED vars
  BY <1>17, <1>0, LateFrame DEF vars, Ready
<1> QED
  BY <1>1, <1>2, <1>3, <1>4, <1>5, <1>6, <1>7, <1>8, <1>9, <1>10, <1>11, <1>12,
     <1>13, <1>14, <1>15, <1>16, <1>17
     DEF Next, Step, Environment, RequestScan, TickScan

\* A source that was disabled gets one more snapshot at most, that of the scan under way.
THEOREM DisabledGetsOne == Spec => []DisabledRests
<1>1. Init => LateInv
  BY DEF Init, LateInv, Ready, Working
<1>2. TypeOK /\ OneScanPerSource /\ LateInv /\ [Next]_vars => LateInv'
  BY LateStep
<1>3. LateInv => DisabledRests
  <2> SUFFICES ASSUME LateInv, NEW i \in Ids
               PROVE  late[i] <= 1
    BY DEF DisabledRests
  <2>1. late[i] = 0 \/ late[i] = 1
    BY DEF LateInv
  <2> QED
    BY <2>1
<1> QED
  BY <1>1, <1>2, <1>3, TypeCorrect, OneScan, PTL DEF Spec

-----------------------------------------------------------------------------
\* The status a source shows is the outcome of its newest run.

Consistent(i) ==
  connectors[i].status = (IF lastRun[i].status = "none" THEN "never"
                          ELSE lastRun[i].status)

\* What a goroutine that scans i may rely on at each stage.
Promise(t, i) ==
  /\ pc[t] \in {"record", "config", "mark", "reconcile", "release"} => Consistent(i)
  /\ pc[t] \in {"reconcile", "unrun"} =>
       lastRun[i].status = "success" /\ lastRun[i].by = t
  /\ pc[t] \in {"failStatus", "unstatus"} => lastRun[i].status = "error"

\* Two writes to two tables settle a scan: between them the goroutine remembers
\* what it wrote first.
StatusInv ==
  /\ \A i \in Ids : ~Exists(i) => lastRun[i] = NoRun
  /\ \A i \in Ids \ suspect : Exists(i) =>
       /\ i \notin running => Consistent(i)
       /\ \A t \in Threads : Inside(t) /\ job[t].id = i => Promise(t, i)

\* The rows of source i and the goroutines inside a scan of it did not move.
Untouched(i) ==
  /\ connectors'[i] = connectors[i] /\ lastRun'[i] = lastRun[i]
  /\ i \in suspect => i \in suspect'
  /\ i \in running <=> i \in running'
  /\ \A t \in Threads : Inside(t)' /\ job'[t].id = i =>
       pc'[t] = pc[t] /\ Inside(t) /\ job[t].id = i

\* StatusInv, source by source.
StatusOf(i) ==
  /\ ~Exists(i) => lastRun[i] = NoRun
  /\ i \notin suspect /\ Exists(i) =>
       /\ i \notin running => Consistent(i)
       /\ \A t \in Threads : Inside(t) /\ job[t].id = i => Promise(t, i)

LEMMA StatusSplit == StatusInv <=> \A i \in Ids : StatusOf(i)
  BY DEF StatusInv, StatusOf

LEMMA StatusFrame ==
  ASSUME NEW i \in Ids, StatusOf(i), Untouched(i) PROVE StatusOf(i)'
  BY DEF StatusOf, Untouched, Promise, Consistent, Exists

\* The source of the goroutine that moves, when only that goroutine moves.
LEMMA StatusMover ==
  ASSUME TypeOK, OneScanPerSource, NEW t \in Threads, Inside(t), Inside(t)',
         NEW i \in Ids, i = job[t].id,
         NEW stage, Goto(t, stage), job'[t].id = job[t].id,
         \A u \in Threads : u # t => job'[u] = job[u],
         running' = running,
         ~Exists(i)' => lastRun'[i] = NoRun,
         i \notin suspect' /\ Exists(i)' => Promise(t, i)'
  PROVE  StatusOf(i)'
<1>1. i \in running'
  BY DEF OneScanPerSource
<1>2. \A u \in Threads : Inside(u)' /\ job'[u].id = i => u = t
  BY DEF OneScanPerSource, Inside, Goto, TypeOK
<1> QED
  BY <1>1, <1>2 DEF StatusOf

LEMMA MoverFrame ==
  ASSUME TypeOK, NEW t \in Threads, NEW i \in Ids, i # job[t].id,
         NEW stage, Goto(t, stage), job'[t].id = job[t].id,
         \A u \in Threads : u # t => job'[u] = job[u],
         running' = running, connectors'[i] = connectors[i],
         lastRun'[i] = lastRun[i], i \in suspect => i \in suspect'
  PROVE  Untouched(i)
  BY DEF Untouched, Inside, Goto, TypeOK

\* Only goroutine t moves, it stays inside, and other sources are left alone.
Moves(t) ==
  /\ Inside(t) /\ Inside(t)' /\ running' = running
  /\ \E stage \in Stage : Goto(t, stage)
  /\ job'[t].id = job[t].id
  /\ \A u \in Threads : u # t => job'[u] = job[u]
  /\ \A k \in Ids : k # job[t].id =>
       /\ connectors'[k] = connectors[k] /\ lastRun'[k] = lastRun[k]
       /\ k \in suspect => k \in suspect'

LEMMA StatusMove ==
  ASSUME TypeOK, OneScanPerSource, StatusInv, NEW t \in Threads, Moves(t),
         NEW i \in Ids, i = job[t].id,
         ~Exists(i)' => lastRun'[i] = NoRun,
         i \notin suspect' /\ Exists(i)' => Promise(t, i)'
  PROVE  StatusInv'
<1>1. StatusOf(i)'
  BY StatusMover DEF Moves
<1>2. ASSUME NEW k \in Ids, k # i PROVE StatusOf(k)'
  <2>1. Untouched(k)
    BY <1>2, MoverFrame DEF Moves
  <2> QED
    BY <2>1, StatusSplit, StatusFrame
<1> QED
  BY <1>1, <1>2 DEF StatusOf, StatusInv

\* What StatusInv says of the source of a goroutine inside a scan.
LEMMA StatusHere ==
  ASSUME StatusInv, NEW t \in Threads, Inside(t), NEW i \in Ids, i = job[t].id
  PROVE  /\ ~Exists(i) => lastRun[i] = NoRun
         /\ i \notin suspect /\ Exists(i) => Promise(t, i)
  BY DEF StatusInv

\* A step that leaves the rows alone keeps what its goroutine is promised.
LEMMA StatusPass ==
  ASSUME TypeOK, OneScanPerSource, StatusInv, NEW t \in Threads, Moves(t),
         NEW i \in Ids, i = job[t].id,
         connectors' = connectors, lastRun' = lastRun, suspect \subseteq suspect',
         i \in suspect' \/ (Promise(t, i) => Promise(t, i)')
  PROVE  StatusInv'
<1>1. Inside(t) /\ (Exists(i)' <=> Exists(i))
  BY DEF Moves, Exists
<1>2. ~Exists(i)' => lastRun'[i] = NoRun
  BY <1>1, StatusHere
<1>3. i \notin suspect' /\ Exists(i)' => Promise(t, i)'
  BY <1>1, StatusHere
<1> QED
  BY <1>2, <1>3, StatusMove

\* What SetStatus does to the row.
LEMMA SetStatusRow ==
  ASSUME TypeOK, NEW i \in Ids, NEW s \in Status, SetStatus(i, s)
  PROVE  /\ Exists(i)' <=> Exists(i)
         /\ Exists(i) => connectors'[i].status = s
         /\ \A k \in Ids : k # i => connectors'[k] = connectors[k]
<1>1. CASE Exists(i)
  <2>1. connectors' = [connectors EXCEPT ![i] = [connectors[i] EXCEPT !.status = s]]
    BY <1>1 DEF SetStatus
  <2>2. connectors'[i] \in Row /\ connectors'[i].status = s
    BY <1>1, <2>1, RowUpdate DEF TypeOK, Row
  <2> QED
    BY <1>1, <2>1, <2>2, NoneAssumption DEF Exists, TypeOK
<1>2. CASE ~Exists(i)
  BY <1>2 DEF SetStatus, Exists
<1> QED
  BY <1>1, <1>2

LEMMA StatusStep ==
  ASSUME TypeOK, OneScanPerSource, StatusInv, [Next]_vars PROVE StatusInv'
<1> USE StageNames DEF dbVars, historyVars, Goto
<1>1. ASSUME NEW t \in Threads, NEW i \in Ids, Call(t, i) PROVE StatusInv'
  <2>1. \A k \in Ids : Untouched(k)
    BY <1>1 DEF Call, Untouched, Inside, TypeOK
  <2> QED
    BY <2>1, StatusSplit, StatusFrame DEF StatusOf, StatusInv
<1>2. ASSUME NEW t \in Threads, NEW i \in Ids, i = job[t].id, Claim(t)
      PROVE  StatusInv'
  <2>1. CASE i \in running
    <3>1. \A k \in Ids : Untouched(k)
      BY <1>2, <2>1 DEF Claim, Untouched, Inside, TypeOK
    <3> QED
      BY <3>1, StatusSplit, StatusFrame DEF StatusOf, StatusInv
  <2>2. CASE i \notin running
    <3>1. ASSUME NEW k \in Ids, k # i PROVE Untouched(k)
      BY <1>2, <2>2, <3>1 DEF Claim, Untouched, Inside, TypeOK
    <3>2. StatusOf(i)'
      <4>1. job' = job /\ UNCHANGED <<connectors, lastRun, suspect>>
        BY <1>2, <2>2 DEF Claim
      <4>2. \A u \in Threads : Inside(u)' /\ job[u].id = i => u = t
        BY <1>2, <2>2 DEF Claim, Inside, OneScanPerSource, TypeOK
      <4>3. pc'[t] = "record" /\ i \in running'
        BY <1>2, <2>2 DEF Claim, TypeOK
      <4> QED
        BY <2>2, <4>1, <4>2, <4>3, JobType DEF StatusInv, StatusOf, Promise, Consistent, Exists
    <3> QED
      BY <3>1, <3>2, StatusSplit, StatusFrame DEF StatusOf, StatusInv
  <2> QED
    BY <2>1, <2>2
<1>3. ASSUME NEW t \in Threads, NEW i \in Ids, i = job[t].id, LoadRecord(t)
      PROVE  StatusInv'
  <2>1. Moves(t)
    BY <1>3, LoadKeeps DEF LoadRecord, Moves, Inside, TypeOK
  <2>2. Promise(t, i) => Promise(t, i)'
    BY <1>3 DEF LoadRecord, Promise, Consistent, TypeOK
  <2> QED
    BY <1>3, <2>1, <2>2, StatusPass DEF LoadRecord
<1>4. ASSUME NEW t \in Threads, NEW i \in Ids, i = job[t].id, LoadConfig(t)
      PROVE  StatusInv'
  <2>1. Moves(t)
    BY <1>4, LoadKeeps DEF LoadConfig, Moves, Inside, TypeOK
  <2>2. Promise(t, i) => Promise(t, i)'
    BY <1>4 DEF LoadConfig, Promise, Consistent, TypeOK
  <2> QED
    BY <1>4, <2>1, <2>2, StatusPass DEF LoadConfig
<1>5. ASSUME NEW t \in Threads, NEW i \in Ids, i = job[t].id, MarkRunning(t)
      PROVE  StatusInv'
  <2>1. SetStatus(i, "running") /\ Inside(t)
    BY <1>5, JobType DEF MarkRunning, Inside
  <2>2. Moves(t)
    BY <1>5, <2>1, SetStatusRow DEF MarkRunning, Moves, Inside, TypeOK, Status
  <2> QED
    BY <1>5, <2>1, <2>2, SetStatusRow, StatusMove, StatusHere
       DEF MarkRunning, Promise, Status, TypeOK
<1>6. ASSUME NEW t \in Threads, NEW i \in Ids, i = job[t].id,
             Fetch(t) \/ ProxyLook(t) \/ ProxyInsert(t) \/ Resolve(t)
      PROVE StatusInv'
  <2>1. /\ Inside(t)
        /\ UNCHANGED <<connectors, lastRun, running, job, suspect>>
        /\ \E s \in {"proxyLook", "proxyInsert", "resolve", "apply", "failRun"} : Goto(t, s)
    BY <1>6 DEF Fetch, ProxyLook, ProxyInsert, Resolve, Inside
  <2>2. Moves(t)
    BY <2>1 DEF Moves, Inside, TypeOK
  <2>3. Promise(t, i) => Promise(t, i)'
    BY <2>1 DEF Promise, TypeOK
  <2> QED
    BY <1>6, <2>1, <2>2, <2>3, StatusPass
<1>7. ASSUME NEW t \in Threads, NEW i \in Ids, i = job[t].id, Apply(t)
      PROVE  StatusInv'
  <2>1. CASE pc'[t] = "reconcile"
    <3>1. /\ SetStatus(i, "success") /\ Inside(t)
          /\ Exists(i)
          /\ lastRun' = [lastRun EXCEPT ![i] = [status |-> "success", by |-> t]]
      BY <1>7, <2>1, JobType DEF Apply, Inside, TypeOK
    <3>2. Moves(t)
      BY <1>7, <2>1, <3>1, SetStatusRow, JobType
         DEF Apply, Moves, Inside, TypeOK, Status, Job
    <3>3. lastRun'[i] = [status |-> "success", by |-> t]
      BY <3>1 DEF TypeOK
    <3>4. Promise(t, i)'
      BY <2>1, <3>1, <3>2, <3>3, SetStatusRow DEF Promise, Consistent, Status, Moves
    <3>5. Exists(i)'
      BY <3>1, SetStatusRow DEF Status
    <3> QED
      BY <1>7, <3>2, <3>4, <3>5, StatusMove
  <2>2. CASE pc'[t] # "reconcile"
    <3>1. Goto(t, "failRun") /\ UNCHANGED <<connectors, lastRun, job, running, suspect>>
      BY <1>7, <2>2 DEF Apply, TypeOK
    <3>2. Moves(t) /\ Inside(t)
      BY <1>7, <3>1 DEF Apply, Moves, Inside, TypeOK
    <3>3. Promise(t, i) => Promise(t, i)'
      BY <3>1 DEF Promise, TypeOK
    <3> QED
      BY <1>7, <3>1, <3>2, <3>3, StatusPass
  <2> QED
    BY <2>1, <2>2
<1>8. ASSUME NEW t \in Threads, NEW i \in Ids, i = job[t].id, Reconcile(t)
      PROVE  StatusInv'
  <2>1. Moves(t)
    BY <1>8 DEF Reconcile, Moves, Inside, TypeOK
  <2>2. Promise(t, i) => Promise(t, i)'
    BY <1>8 DEF Reconcile, Promise, Consistent, TypeOK
  <2> QED
    BY <1>8, <2>1, <2>2, StatusPass DEF Reconcile
<1>9. ASSUME NEW t \in Threads, NEW i \in Ids, i = job[t].id, UnsettleRun(t)
      PROVE  StatusInv'
  <2>1. Moves(t) /\ pc'[t] = "unstatus" /\ Inside(t)
    BY <1>9, JobType DEF UnsettleRun, Moves, Inside, TypeOK
  <2>2. ~Exists(i) => lastRun' = lastRun
    BY <1>9, <2>1, StatusHere, NoneAssumption DEF UnsettleRun, NoRun
  <2>3. i \notin suspect /\ Exists(i) => lastRun'[i].status = "error"
    <3>1. i \notin suspect /\ Exists(i) => lastRun[i].by = t
      BY <1>9, <2>1, StatusHere DEF UnsettleRun, Promise
    <3>2. lastRun[i] \in Outcome
      BY <2>1 DEF TypeOK
    <3> QED
      BY <1>9, <2>1, <3>1, <3>2 DEF UnsettleRun, TypeOK, Outcome
  <2> QED
    BY <1>9, <2>1, <2>2, <2>3, StatusHere, StatusMove DEF UnsettleRun, Promise, Exists
<1>10. ASSUME NEW t \in Threads, NEW i \in Ids, i = job[t].id,
             UnsettleStatus(t) \/ FailStatus(t)
      PROVE  StatusInv'
  <2>1. /\ SetStatus(i, "error") /\ Inside(t)
        /\ pc'[t] = "release" /\ UNCHANGED <<lastRun, running, job, suspect>>
        /\ pc[t] \in {"unstatus", "failStatus"}
    BY <1>10, JobType DEF UnsettleStatus, FailStatus, Inside, TypeOK
  <2>2. Moves(t)
    BY <1>10, <2>1, SetStatusRow
       DEF UnsettleStatus, FailStatus, Moves, Inside, TypeOK, Status
  <2>3. Exists(i)' <=> Exists(i)
    BY <2>1, SetStatusRow DEF Status
  <2>4. ~Exists(i)' => lastRun'[i] = NoRun
    BY <1>10, <2>1, <2>3, StatusHere
  <2>5. i \notin suspect' /\ Exists(i)' => Promise(t, i)'
    <3>1. i \notin suspect /\ Exists(i) => lastRun[i].status = "error"
      BY <1>10, <2>1, StatusHere DEF Promise
    <3>2. Exists(i) => connectors'[i].status = "error"
      BY <2>1, SetStatusRow DEF Status
    <3> QED
      BY <2>1, <2>3, <3>1, <3>2 DEF Promise, Consistent
  <2> QED
    BY <1>10, <2>2, <2>4, <2>5, StatusMove
<1>11. ASSUME NEW t \in Threads, NEW i \in Ids, i = job[t].id, FailRun(t)
      PROVE  StatusInv'
  <2>1. Moves(t) /\ pc'[t] = "failStatus" /\ Inside(t)
    BY <1>11, JobType DEF FailRun, Moves, Inside, TypeOK
  <2>2. Exists(i) => lastRun'[i].status = "error"
    BY <1>11, <2>1 DEF FailRun, TypeOK
  <2> QED
    BY <1>11, <2>1, <2>2, StatusHere, StatusMove DEF FailRun, Promise, Exists
<1>12. ASSUME NEW t \in Threads, NEW i \in Ids, i = job[t].id, LoadFails(t)
      PROVE  StatusInv'
  <2>1. Moves(t)
    BY <1>12 DEF LoadFails, Loading, Moves, Inside, TypeOK
  <2>2. Promise(t, i) => Promise(t, i)'
    BY <1>12 DEF LoadFails, Loading, Promise, Consistent, TypeOK
  <2> QED
    BY <1>12, <2>1, <2>2, StatusPass DEF LoadFails
<1>13. ASSUME NEW t \in Threads, NEW i \in Ids, i = job[t].id, LoseWrite(t)
      PROVE  StatusInv'
  <2>1. /\ Inside(t) /\ AfterIgnored[pc[t]] \in Stage \ {"idle", "claim"}
        /\ Goto(t, AfterIgnored[pc[t]])
        /\ UNCHANGED <<connectors, lastRun, running, job>>
        /\ suspect' = suspect \cup {i}
    BY <1>13 DEF LoseWrite, AfterIgnored, Inside
  <2>2. Moves(t)
    BY <2>1 DEF Moves, Inside, TypeOK
  <2> QED
    BY <1>13, <2>1, <2>2, StatusPass
<1>14. ASSUME NEW t \in Threads, NEW i \in Ids, i = job[t].id, Release(t)
      PROVE  StatusInv'
  <2>1. ASSUME NEW k \in Ids, k # i PROVE Untouched(k)
    BY <1>14, <2>1 DEF Release, Untouched, Inside, TypeOK
  <2>2. StatusOf(i)'
    <3>1. Inside(t) /\ pc[t] = "release" /\ UNCHANGED <<connectors, lastRun, suspect>>
      BY <1>14 DEF Release, Inside
    <3>2. \A u \in Threads : Inside(u)' => u # t /\ job'[u].id # i
      BY <1>14 DEF Release, Inside, OneScanPerSource, TypeOK
    <3>3. ~Exists(i) => lastRun[i] = NoRun
      BY <1>14, <3>1, StatusHere
    <3>4. i \notin suspect /\ Exists(i) => Consistent(i)
      BY <1>14, <3>1, StatusHere DEF Promise
    <3> QED
      BY <3>1, <3>2, <3>3, <3>4 DEF StatusOf, Consistent, Exists
  <2> QED
    BY <2>1, <2>2, StatusSplit, StatusFrame DEF StatusOf, StatusInv
<1>15. ASSUME NEW i \in Ids, NEW kind \in Kinds, CreateConnector(i, kind) PROVE StatusInv'
  <2>1. ~Exists(i)
    BY <1>15 DEF CreateConnector, IsNextId, Ids
  <2>2. lastRun[i] = NoRun
    BY <2>1 DEF StatusInv
  <2>3. UNCHANGED <<lastRun, running, pc, job>>
    BY <1>15 DEF CreateConnector
  <2>4. \A k \in Ids : k # i => Untouched(k)
    BY <1>15, <2>3 DEF CreateConnector, Untouched, Inside
  <2>5. Exists(i)' /\ connectors'[i].status = "never"
    <3>1. connectors'[i] = [enabled |-> TRUE, kind |-> kind, status |-> "never",
                            born |-> born + 1]
      BY <1>15 DEF CreateConnector, TypeOK
    <3>2. connectors'[i] \in Row
      BY <3>1 DEF Row, Status, TypeOK
    <3>3. connectors'[i].status = "never"
      BY <3>1
    <3> QED
      BY <3>2, <3>3, NoneAssumption DEF Exists
  <2>6. StatusOf(i)'
    <3>1. i \in running => i \in suspect'
      BY <1>15 DEF CreateConnector
    <3>2. \A u \in Threads : Inside(u)' /\ job'[u].id = i => i \in running
      BY <2>3 DEF OneScanPerSource, Inside
    <3> QED
      BY <2>2, <2>3, <2>5, <3>1, <3>2 DEF StatusOf, Consistent, NoRun, Exists
  <2> QED
    BY <2>4, <2>6, StatusSplit, StatusFrame DEF StatusOf, StatusInv
<1>16. ASSUME NEW i \in Ids, NEW e \in BOOLEAN, SetEnabled(i, e) PROVE StatusInv'
  <2>1. connectors' = [connectors EXCEPT ![i] = [connectors[i] EXCEPT !.enabled = e]]
        /\ Exists(i) /\ UNCHANGED <<lastRun, running, pc, job, suspect>>
    BY <1>16 DEF SetEnabled
  <2>2. connectors'[i] \in Row /\ connectors'[i].status = connectors[i].status
    BY <2>1, RowUpdate DEF TypeOK, Row
  <2>3. \A k \in Ids : Exists(k)' <=> Exists(k)
    BY <2>1, <2>2, NoneAssumption DEF Exists, TypeOK
  <2>4. \A k \in Ids : Exists(k) => connectors'[k].status = connectors[k].status
    BY <2>1, <2>2 DEF Exists, TypeOK
  <2> QED
    BY <2>1, <2>3, <2>4 DEF StatusInv, Promise, Consistent, Inside
<1>17. ASSUME NEW i \in Ids, DeleteConnector(i) PROVE StatusInv'
  <2>1. \A k \in Ids : k # i => Untouched(k)
    BY <1>17 DEF DeleteConnector, Untouched, Inside
  <2>2. StatusOf(i)'
    BY <1>17 DEF DeleteConnector, StatusOf, Exists, TypeOK
  <2> QED
    BY <2>1, <2>2, StatusSplit, StatusFrame DEF StatusOf, StatusInv
<1>18. CASE Crash
  BY <1>18 DEF Crash, StatusInv, Inside, OneScanPerSource, Consistent, Exists
<1>19. CASE UNCHANGED vars
  BY <1>19 DEF vars, StatusInv, Promise, Consistent, Inside, Exists
<1> QED
  BY <1>1, <1>2, <1>3, <1>4, <1>5, <1>6, <1>7, <1>8, <1>9, <1>10, <1>11, <1>12,
     <1>13, <1>14, <1>15, <1>16, <1>17, <1>18, <1>19, JobType
     DEF Next, Step, Environment, RequestScan, TickScan

\* When no scan of a source is in flight and no write to it was lost, the status
\* in the source list is the outcome of its newest run.
THEOREM HonestStatus == Spec => []StatusIsNewestRun
<1>1. Init => StatusInv
  BY DEF Init, StatusInv, Exists
<1>2. TypeOK /\ OneScanPerSource /\ StatusInv /\ [Next]_vars => StatusInv'
  BY StatusStep
<1>3. StatusInv => StatusIsNewestRun
  BY DEF StatusInv, StatusIsNewestRun, Consistent
<1> QED
  BY <1>1, <1>2, <1>3, TypeCorrect, OneScan, PTL DEF Spec

-----------------------------------------------------------------------------
\* ScanRunner implements ScanLifecycle.

\* A goroutine has filed an inventory only after Apply, before it lets go.
FiledInv ==
  \A t \in Threads :
    /\ job[t].applied => pc[t] \in Committed \cup {"release"}
    /\ pc[t] \in {"idle", "claim"} => ~job[t].applied

LEMMA FiledStep == ASSUME TypeOK, FiledInv, [Next]_vars PROVE FiledInv'
<1> USE DEF dbVars, historyVars, Goto, TypeOK, Committed, FiledInv
<1>1. ASSUME NEW t \in Threads, NEW i \in Ids, Call(t, i) PROVE FiledInv'
  BY <1>1, JobType DEF Call, Job
<1>2. ASSUME NEW t \in Threads, Claim(t) \/ Release(t) PROVE FiledInv'
  BY <1>2 DEF Claim, Release, NoJob
<1>3. ASSUME NEW t \in Threads, LoadRecord(t) \/ LoadConfig(t) PROVE FiledInv'
  <2>1. \E stage \in {"config", "release", "mark"} : Goto(t, stage)
    BY <1>3 DEF LoadRecord, LoadConfig
  <2>2. \A u \in Threads : job'[u].applied = job[u].applied
    BY <1>3, LoadKeeps
  <2>3. ~job[t].applied
    BY <1>3 DEF LoadRecord, LoadConfig
  <2> QED
    BY <2>1, <2>2, <2>3
<1>4. ASSUME NEW t \in Threads, MarkRunning(t) \/ Fetch(t) \/ ProxyLook(t) PROVE FiledInv'
  BY <1>4 DEF MarkRunning, Fetch, ProxyLook
<1>5. ASSUME NEW t \in Threads, ProxyInsert(t) \/ Resolve(t) \/ Reconcile(t) PROVE FiledInv'
  BY <1>5 DEF ProxyInsert, Resolve, Reconcile
<1>6. ASSUME NEW t \in Threads, Apply(t) PROVE FiledInv'
  BY <1>6 DEF Apply
<1>7. ASSUME NEW t \in Threads, UnsettleRun(t) \/ UnsettleStatus(t) PROVE FiledInv'
  BY <1>7 DEF UnsettleRun, UnsettleStatus
<1>8. ASSUME NEW t \in Threads, FailRun(t) \/ FailStatus(t) PROVE FiledInv'
  BY <1>8 DEF FailRun, FailStatus
<1>9. ASSUME NEW t \in Threads, LoadFails(t) \/ LoseWrite(t) PROVE FiledInv'
  BY <1>9 DEF LoadFails, Loading, LoseWrite, AfterIgnored
<1>10. ASSUME NEW i \in Ids, NEW kind \in Kinds, CreateConnector(i, kind) PROVE FiledInv'
  BY <1>10 DEF CreateConnector
<1>11. ASSUME NEW i \in Ids, NEW e \in BOOLEAN, SetEnabled(i, e) PROVE FiledInv'
  BY <1>11 DEF SetEnabled
<1>12. ASSUME NEW i \in Ids, DeleteConnector(i) PROVE FiledInv'
  BY <1>12 DEF DeleteConnector
<1>13. CASE Crash
  BY <1>13 DEF Crash, NoJob
<1>14. CASE UNCHANGED vars
  BY <1>14 DEF vars
<1> QED
  BY <1>1, <1>2, <1>3, <1>4, <1>5, <1>6, <1>7, <1>8, <1>9, <1>10, <1>11, <1>12,
     <1>13, <1>14 DEF Next, Step, Environment, RequestScan, TickScan

\* Some goroutine inside a scan of i has filed its inventory.
Filed(i) == \E t \in Threads : Inside(t) /\ job[t].id = i /\ job[t].applied

LEMMA PhaseIs ==
  /\ Phase = [i \in Ids |-> IF i \notin running THEN "free"
                           ELSE IF Filed(i) THEN "filed" ELSE "claimed"]
  /\ Phase' = [i \in Ids |-> IF i \notin running' THEN "free"
                            ELSE IF Filed(i)' THEN "filed" ELSE "claimed"]
  BY DEF Phase, Filed

LEMMA SamePhase ==
  ASSUME running' = running, \A i \in Ids : Filed(i)' <=> Filed(i)
  PROVE  Phase' = Phase
  BY PhaseIs

\* Steps of a scan that file nothing.
LEMMA QuietPhase ==
  ASSUME Quiet, \A t \in Threads : Inside(t) => job'[t].applied = job[t].applied
  PROVE  Phase' = Phase
<1>1. \A i \in Ids : Filed(i)' <=> Filed(i)
  BY DEF Quiet, Filed
<1> QED
  BY <1>1, SamePhase DEF Quiet

LEMMA LifecycleStep ==
  ASSUME TypeOK, OneScanPerSource, OwnInv, FiledInv, [Next]_vars
  PROVE  [Lifecycle!Next]_<<Phase, inventory>>
<1> DEFINE Goal == [Lifecycle!Next]_<<Phase, inventory>>
<1>1. ASSUME NEW t \in Threads, NEW i \in Ids, i = job[t].id, Claim(t) PROVE Goal
  <2>1. CASE i \in running
    <3>1. /\ UNCHANGED <<running, inventory>>
          /\ \A u \in Threads : Inside(u)' <=> Inside(u)
          /\ \A u \in Threads : Inside(u) => job'[u] = job[u]
      BY <1>1, <2>1 DEF Claim, Inside, Goto, TypeOK, dbVars
    <3> QED
      BY <3>1, QuietPhase DEF Quiet
  <2>2. CASE i \notin running
    <3>1. /\ running' = running \cup {i} /\ job' = job /\ inventory' = inventory
          /\ \A u \in Threads : Inside(u)' <=> Inside(u) \/ u = t
      BY <1>1, <2>2 DEF Claim, Inside, Goto, TypeOK, dbVars
    <3>2. ~job[t].applied
      BY <1>1 DEF Claim, FiledInv
    <3>3. \A k \in Ids : Filed(k)' <=> Filed(k)
      BY <3>1, <3>2 DEF Filed
    <3>4. ~Filed(i)
      BY <2>2 DEF Filed, OneScanPerSource
    <3>5. Phase[i] = "free" /\ Phase' = [Phase EXCEPT ![i] = "claimed"]
      BY <2>2, <3>1, <3>3, <3>4, PhaseIs
    <3> QED
      BY <3>1, <3>5 DEF Lifecycle!Next, Lifecycle!Begin
  <2> QED
    BY <2>1, <2>2
<1>2. ASSUME NEW t \in Threads, NEW i \in Ids, i = job[t].id, Release(t) PROVE Goal
  <2>1. /\ running' = running \ {i} /\ inventory' = inventory /\ i \in running
        /\ \A u \in Threads : u # t => job'[u] = job[u] /\ (Inside(u)' <=> Inside(u))
        /\ ~Inside(t)'
    BY <1>2 DEF Release, Inside, Goto, TypeOK, OneScanPerSource, dbVars
  <2>2. \A k \in Ids : k # i => (Filed(k)' <=> Filed(k))
    BY <1>2, <2>1 DEF Filed
  <2>3. Phase[i] # "free" /\ Phase' = [Phase EXCEPT ![i] = "free"]
    BY <2>1, <2>2, PhaseIs
  <2> QED
    BY <2>1, <2>3 DEF Lifecycle!Next, Lifecycle!End
<1>3. ASSUME NEW t \in Threads, NEW i \in Ids, i = job[t].id, Apply(t) PROVE Goal
  <2>1. CASE pc'[t] = "reconcile"
    <3>1. /\ inventory' = [inventory EXCEPT ![i] = job[t].born]
          /\ job' = [job EXCEPT ![t].applied = TRUE]
          /\ running' = running
          /\ \A u \in Threads : Inside(u)' <=> Inside(u)
          /\ Inside(t) /\ pc[t] = "apply"
      BY <1>3, <2>1 DEF Apply, Inside, Goto, TypeOK
    <3>2. job[t].born # 0 /\ job[t].born \in Nat
      BY <3>1, JobType DEF OwnInv, Working
    <3>3. /\ job'[t].id = i /\ job'[t].applied
          /\ \A u \in Threads : u # t => job'[u] = job[u]
      BY <1>3, <3>1, JobType DEF TypeOK, Job
    <3>4. i \in running /\ \A u \in Threads : Inside(u) /\ job[u].id = i => u = t
      BY <1>3, <3>1 DEF OneScanPerSource
    <3>5. ~job[t].applied
      BY <3>1 DEF FiledInv, Committed
    <3>6. ~Filed(i) /\ Filed(i)'
      BY <3>1, <3>3, <3>4, <3>5 DEF Filed
    <3>7. \A k \in Ids : k # i => (Filed(k)' <=> Filed(k))
      BY <1>3, <3>1, <3>3 DEF Filed
    <3>8. Phase[i] = "claimed" /\ Phase' = [Phase EXCEPT ![i] = "filed"]
      BY <3>1, <3>4, <3>6, <3>7, PhaseIs
    <3>9. inventory'[i] = job[t].born
      BY <3>1 DEF TypeOK
    <3> QED
      BY <3>1, <3>2, <3>8, <3>9 DEF Lifecycle!Next, Lifecycle!File
  <2>2. CASE pc'[t] # "reconcile"
    <3>1. UNCHANGED <<inventory, job, running>> /\ \A u \in Threads : Inside(u)' <=> Inside(u)
      BY <1>3, <2>2 DEF Apply, Inside, Goto, TypeOK
    <3> QED
      BY <3>1, QuietPhase DEF Quiet
  <2> QED
    BY <2>1, <2>2
<1>4. ASSUME NEW i \in Ids, DeleteConnector(i) PROVE Goal
  <2>1. inventory' = [inventory EXCEPT ![i] = 0] /\ UNCHANGED <<running, pc, job>>
    BY <1>4 DEF DeleteConnector
  <2>2. Phase' = Phase
    BY <2>1, QuietPhase DEF Quiet, Inside
  <2> QED
    BY <2>1, <2>2 DEF Lifecycle!Next, Lifecycle!Forget
<1>5. CASE Crash
  <2>1. running' = {} /\ inventory' = inventory
    BY <1>5 DEF Crash, dbVars
  <2>2. Phase' = [i \in Ids |-> "free"]
    BY <2>1, PhaseIs
  <2> QED
    BY <2>1, <2>2 DEF Lifecycle!Next, Lifecycle!Restart
<1>6. ASSUME ~Crash, \A t \in Threads : ~Claim(t) /\ ~Release(t),
             inventory' = inventory,
             \A t \in Threads : Inside(t) => job'[t].applied = job[t].applied
      PROVE  Goal
  BY <1>6, QuietSteps, QuietPhase
<1>7. ASSUME NEW t \in Threads, NEW i \in Ids, Call(t, i)
      PROVE  inventory' = inventory /\ \A u \in Threads : Inside(u) => job'[u].applied = job[u].applied
  BY <1>7 DEF Call, dbVars, Inside, TypeOK
<1>8. ASSUME NEW t \in Threads, LoadRecord(t) \/ LoadConfig(t)
      PROVE  inventory' = inventory /\ \A u \in Threads : Inside(u) => job'[u].applied = job[u].applied
  BY <1>8, LoadKeeps DEF LoadRecord, LoadConfig, dbVars
<1>9. ASSUME NEW t \in Threads,
             \/ MarkRunning(t) \/ Fetch(t) \/ ProxyLook(t) \/ ProxyInsert(t)
             \/ Resolve(t) \/ Reconcile(t) \/ UnsettleRun(t) \/ UnsettleStatus(t)
             \/ FailRun(t) \/ FailStatus(t) \/ LoadFails(t) \/ LoseWrite(t)
      PROVE  UNCHANGED <<inventory, job>>
  BY <1>9 DEF MarkRunning, Fetch, ProxyLook, ProxyInsert, Resolve, Reconcile, UnsettleRun,
              UnsettleStatus, FailRun, FailStatus, LoadFails, LoseWrite, dbVars
<1>10. ASSUME NEW i \in Ids,
             \/ \E kind \in Kinds : CreateConnector(i, kind)
             \/ \E e \in BOOLEAN : SetEnabled(i, e)
       PROVE  UNCHANGED <<inventory, job>>
  BY <1>10 DEF CreateConnector, SetEnabled
<1>11. CASE UNCHANGED vars
  BY <1>11, QuietPhase DEF vars, Quiet, Inside
<1> QED
  BY <1>1, <1>2, <1>3, <1>4, <1>5, <1>6, <1>7, <1>8, <1>9, <1>10, <1>11, JobType
     DEF Next, Step, Environment, RequestScan, TickScan

\* Whatever interleaves, each source is claimed, filed at most once per claim, and
\* given back: the program implements the abstract life cycle of a scan.
THEOREM Implements == Spec => ImplementsLifecycle
<1>1. Init => OwnInv
  BY DEF Init, OwnInv, Working
<1>2. Init => FiledInv
  BY DEF Init, FiledInv, NoJob
<1>3. Init => Lifecycle!Init
  BY PhaseIs DEF Init, Lifecycle!Init
<1>4. TypeOK /\ OneScanPerSource /\ OwnInv /\ [Next]_vars => OwnInv'
  BY OwnStep
<1>5. TypeOK /\ FiledInv /\ [Next]_vars => FiledInv'
  BY FiledStep
<1>6. TypeOK /\ OneScanPerSource /\ OwnInv /\ FiledInv /\ [Next]_vars
        => [Lifecycle!Next]_(Lifecycle!vars)
  BY LifecycleStep DEF Lifecycle!vars
<1> QED
  BY <1>1, <1>2, <1>3, <1>4, <1>5, <1>6, TypeCorrect, OneScan, PTL
     DEF Spec, ImplementsLifecycle, Lifecycle!Spec
=============================================================================

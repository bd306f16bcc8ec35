--------------------------- MODULE ConnectorsProofs ---------------------------
(***************************************************************************)
(* Proofs about the scans of five connectors, for any number of accounts,  *)
(* ports, guests, tags, workers and files: Nginx Proxy Manager             *)
(* (NpmSession), SSH (SshScan), Proxmox (Proxmox), registry (RegistryScan) *)
(* and nginx (NginxLoad).                                                  *)
(***************************************************************************)
EXTENDS MCConnectors, FiniteSetTheorems, SequenceTheorems, WellFoundedInduction, TLAPS

\* The run's specification moves one part at a time: for each part it is its own.
Parts == <<part, registry, proxmox, ssh, npm, nginx>>

LEMMA SameCardinality == \A S : P!Cardinality(S) = Cardinality(S)
BY DEF P!Cardinality, Cardinality

-----------------------------------------------------------------------------
\* NpmSession: why a call with the password fails only of what no login mends.

Calls == Scans \cup Tests
Issued == {None} \cup 1..issued

NpmType ==
  /\ issued \in 0..MaxLogins
  /\ faults \in 0..MaxFaults
  /\ live \subseteq 1..issued
  /\ kept \in Issued
  /\ pc \in [Calls -> {"new", "session", "login", "keep", "read", "listed", "partial", "failed"}]
  /\ session \in [Calls -> Issued]
  /\ path \in [Calls -> {"proxy-hosts", "certificates"}]
  /\ again \in [Calls -> BOOLEAN]
  /\ refusals \in [Calls -> Nat]

\* What each call carries from step to step.
CallInv(c) ==
  /\ pc[c] = "read" => session[c] # None
  /\ c \in Tests => pc[c] \notin {"session", "read"} /\ path[c] = "proxy-hosts"
  \* It is refused once, and then over.
  /\ refusals[c] <= 1
  /\ pc[c] \in {"new", "session", "login", "read"} => refusals[c] = 0
  /\ pc[c] = "keep" /\ refusals[c] # 0 => session[c] = None
  \* A login that brought no session was refused or met a fault.
  /\ pc[c] = "keep" /\ session[c] = None => c \in upset \/ refusals[c] # 0
  \* The session of a call's own login is live until a fault ends it.
  /\ pc[c] \in {"new", "session"} => again[c] = FALSE
  /\ pc[c] \in {"keep", "read"} /\ again[c] = TRUE /\ session[c] # None =>
       session[c] \in live \/ c \in upset
  /\ pc[c] \in {"partial", "failed"} => c \in upset \/ refusals[c] # 0
  \* A test keeps a session only of a login its password earned.
  /\ c \in Tests /\ pc[c] = "keep" /\ session[c] # None => c \in knows \/ c \in upset

NpmInv == NpmType /\ \A c \in Calls : CallInv(c)

LEMMA NpmInitKeeps == N!Init => NpmInv
<1> SUFFICES ASSUME N!Init PROVE NpmInv
  OBVIOUS
<1>1. MaxLogins \in Nat /\ MaxFaults \in Nat /\ 0 \in 0..MaxLogins /\ 0 \in 0..MaxFaults
  BY BoundsAssumption
<1>2. NpmType
  BY <1>1 DEF N!Init, NpmType, Issued, Calls, N!Calls
<1>3. ASSUME NEW c \in Calls PROVE CallInv(c)
  BY <1>3 DEF N!Init, CallInv, Calls, N!Calls
<1> QED
  BY <1>2, <1>3 DEF NpmInv

\* A call that does not move is untouched by what others and the server do.
LEMMA CallRests ==
  ASSUME NEW c \in Calls, CallInv(c),
         pc'[c] = pc[c], session'[c] = session[c], path'[c] = path[c], again'[c] = again[c],
         refusals'[c] = refusals[c], upset \subseteq upset',
         again[c] /\ pc[c] \in {"keep", "read"} => live \subseteq live' \/ c \in upset',
         c \in Tests /\ pc[c] = "keep" => knows' = knows \/ c \in upset'
  PROVE  CallInv(c)'
BY DEF CallInv

\* The bookkeeping of a call's move: the others rest.
LEMMA OneCallMoves ==
  ASSUME NpmInv, NEW c \in Calls, NpmType', CallInv(c)',
         \A d \in Calls \ {c} : /\ pc'[d] = pc[d] /\ session'[d] = session[d]
                                /\ path'[d] = path[d] /\ again'[d] = again[d]
                                /\ refusals'[d] = refusals[d],
         upset \subseteq upset', live \subseteq live', knows' = knows
  PROVE  NpmInv'
<1>1. \A d \in Calls \ {c} : CallInv(d)'
  BY CallRests DEF NpmInv
<1> QED
  BY <1>1 DEF NpmInv

LEMMA StartKeeps == ASSUME NpmInv, NEW c \in Calls, N!Start(c) PROVE NpmInv'
<1> DEFINE to == IF c \in Tests THEN "login" ELSE "session"
<1>1. /\ pc[c] = "new" /\ pc' = [pc EXCEPT ![c] = to]
      /\ UNCHANGED <<issued, live, faults, knows, kept, session, path, again, refusals, upset>>
  BY DEF N!Start, N!Goes, N!server
<1>2. pc'[c] = to /\ \A d \in Calls \ {c} : pc'[d] = pc[d]
  BY <1>1 DEF NpmInv, NpmType
<1>3. NpmType'
  BY <1>1 DEF NpmInv, NpmType, Issued
<1>4. CallInv(c)'
  BY <1>1, <1>2 DEF NpmInv, CallInv
<1> QED
  BY <1>1, <1>2, <1>3, <1>4, OneCallMoves

LEMMA SessionKeeps == ASSUME NpmInv, NEW c \in Calls, N!Session(c) PROVE NpmInv'
<1> DEFINE to == IF kept = None THEN "login" ELSE "read"
<1>1. /\ pc[c] = "session" /\ pc' = [pc EXCEPT ![c] = to] /\ session' = [session EXCEPT ![c] = kept]
      /\ UNCHANGED <<issued, live, faults, knows, kept, path, again, refusals, upset>>
  BY DEF N!Session, N!Goes, N!server
<1>2. /\ pc'[c] = to /\ session'[c] = kept
      /\ \A d \in Calls \ {c} : pc'[d] = pc[d] /\ session'[d] = session[d]
  BY <1>1 DEF NpmInv, NpmType
<1>3. NpmType'
  BY <1>1 DEF NpmInv, NpmType, Issued
<1>4. CallInv(c)'
  BY <1>1, <1>2 DEF NpmInv, CallInv
<1> QED
  BY <1>1, <1>2, <1>3, <1>4, OneCallMoves

LEMMA LoginKeeps == ASSUME NpmInv, NEW c \in Calls, N!Login(c) PROVE NpmInv'
<1>1. /\ pc[c] = "login" /\ c \in knows /\ issued < MaxLogins
      /\ issued' = issued + 1 /\ live' = live \cup {issued'}
      /\ session' = [session EXCEPT ![c] = issued']
      /\ pc' = [pc EXCEPT ![c] = "keep"]
      /\ UNCHANGED <<faults, knows, kept, path, again, refusals, upset>>
  BY DEF N!Login, N!Goes
<1>2. /\ pc'[c] = "keep" /\ session'[c] = issued'
      /\ \A d \in Calls \ {c} : pc'[d] = pc[d] /\ session'[d] = session[d]
  BY <1>1 DEF NpmInv, NpmType
<1>3. MaxLogins \in Nat /\ issued \in Nat /\ issued' \in 0..MaxLogins /\ issued' # None
  BY <1>1, BoundsAssumption, NoneAssumption DEF NpmInv, NpmType
<1>4. Issued \subseteq Issued' /\ issued' \in Issued' /\ live' \subseteq 1..issued'
  BY <1>1, <1>3 DEF NpmInv, NpmType, Issued
<1>5. NpmType'
  BY <1>1, <1>3, <1>4 DEF NpmInv, NpmType
<1>6. CallInv(c)'
  BY <1>1, <1>2, <1>3 DEF NpmInv, CallInv
<1> QED
  BY <1>1, <1>2, <1>5, <1>6, OneCallMoves

LEMMA RefuseKeeps == ASSUME NpmInv, NEW c \in Calls, N!Refuse(c) PROVE NpmInv'
<1>1. /\ pc[c] = "login" /\ refusals' = [refusals EXCEPT ![c] = @ + 1]
      /\ session' = [session EXCEPT ![c] = None] /\ pc' = [pc EXCEPT ![c] = "keep"]
      /\ UNCHANGED <<issued, live, faults, knows, kept, path, again, upset>>
  BY DEF N!Refuse, N!Goes, N!server
<1>2. /\ pc'[c] = "keep" /\ session'[c] = None /\ refusals'[c] = refusals[c] + 1
      /\ \A d \in Calls \ {c} : pc'[d] = pc[d] /\ session'[d] = session[d]
                                /\ refusals'[d] = refusals[d]
  BY <1>1 DEF NpmInv, NpmType
<1>3. NpmType'
  BY <1>1 DEF NpmInv, NpmType, Issued
<1>4. refusals'[c] = 1
  BY <1>1, <1>2 DEF NpmInv, CallInv
<1>5. CallInv(c)'
  BY <1>1, <1>2, <1>4 DEF NpmInv, CallInv
<1> QED
  BY <1>1, <1>2, <1>3, <1>5, OneCallMoves

LEMMA KeepKeeps == ASSUME NpmInv, NEW c \in Calls, N!Keep(c) PROVE NpmInv'
<1> DEFINE to == IF session[c] = None THEN N!Failed(c) ELSE IF c \in Tests THEN "listed" ELSE "read"
<1>1. /\ pc[c] = "keep" /\ kept' = session[c] /\ pc' = [pc EXCEPT ![c] = to]
      /\ UNCHANGED <<issued, live, faults, knows, session, path, again, refusals, upset>>
  BY DEF N!Keep, N!Goes, N!server
<1>2. pc'[c] = to /\ \A d \in Calls \ {c} : pc'[d] = pc[d]
  BY <1>1 DEF NpmInv, NpmType
<1>3. NpmType'
  BY <1>1 DEF NpmInv, NpmType, Issued, N!Failed
<1>4. CallInv(c)
  BY DEF NpmInv
<1>5. CallInv(c)'
  BY <1>1, <1>2, <1>4 DEF CallInv, N!Failed
<1> QED
  BY <1>1, <1>2, <1>3, <1>5, OneCallMoves

LEMMA AcceptedKeeps == ASSUME NpmInv, NEW c \in Calls, N!Accepted(c) PROVE NpmInv'
<1> DEFINE to == IF path[c] = "certificates" THEN "listed" ELSE "session"
<1>1. /\ pc[c] = "read" /\ path' = [path EXCEPT ![c] = "certificates"]
      /\ again' = [again EXCEPT ![c] = FALSE] /\ pc' = [pc EXCEPT ![c] = to]
      /\ UNCHANGED <<issued, live, faults, knows, kept, session, refusals, upset>>
  BY DEF N!Accepted, N!Advance, N!Goes, N!server
<1>2. /\ pc'[c] = to /\ path'[c] = "certificates" /\ again'[c] = FALSE
      /\ \A d \in Calls \ {c} : pc'[d] = pc[d] /\ path'[d] = path[d] /\ again'[d] = again[d]
  BY <1>1 DEF NpmInv, NpmType
<1>3. NpmType'
  BY <1>1 DEF NpmInv, NpmType, Issued
<1>4. CallInv(c)
  BY DEF NpmInv
<1>5. CallInv(c)'
  BY <1>1, <1>2, <1>4 DEF CallInv
<1> QED
  BY <1>1, <1>2, <1>3, <1>5, OneCallMoves

LEMMA RefusedKeeps == ASSUME NpmInv, NEW c \in Calls, N!Refused(c) PROVE NpmInv'
<1> DEFINE to == IF N!Renew(c) THEN "login" ELSE N!Failed(c)
<1>1. /\ pc[c] = "read" /\ session[c] \notin live /\ again' = [again EXCEPT ![c] = TRUE]
      /\ pc' = [pc EXCEPT ![c] = to]
      /\ UNCHANGED <<issued, live, faults, knows, kept, session, path, refusals, upset>>
  BY DEF N!Refused, N!Goes, N!server
<1>2. /\ pc'[c] = to /\ again'[c] = TRUE
      /\ \A d \in Calls \ {c} : pc'[d] = pc[d] /\ again'[d] = again[d]
  BY <1>1 DEF NpmInv, NpmType
<1>3. NpmType'
  BY <1>1 DEF NpmInv, NpmType, Issued, N!Failed
<1>4. CallInv(c) /\ again[c] \in BOOLEAN
  BY DEF NpmInv, NpmType
<1>5. CallInv(c)'
  BY <1>1, <1>2, <1>4 DEF CallInv, N!Failed, N!Renew
<1> QED
  BY <1>1, <1>2, <1>3, <1>5, OneCallMoves

LEMMA DeniedKeeps == ASSUME NpmInv, NEW c \in Calls, N!Denied(c) PROVE NpmInv'
<1> DEFINE to == IF N!Renew(c) THEN "login" ELSE N!Failed(c)
<1>1. /\ pc[c] = "read" /\ again' = [again EXCEPT ![c] = TRUE]
      /\ pc' = [pc EXCEPT ![c] = to] /\ upset' = upset \cup {c}
      /\ UNCHANGED <<issued, live, faults, knows, kept, session, path, refusals>>
  BY DEF N!Denied, N!Goes, N!server
<1>2. /\ pc'[c] = to /\ again'[c] = TRUE
      /\ \A d \in Calls \ {c} : pc'[d] = pc[d] /\ again'[d] = again[d]
  BY <1>1 DEF NpmInv, NpmType
<1>3. NpmType'
  BY <1>1 DEF NpmInv, NpmType, Issued, N!Failed
<1>4. CallInv(c)
  BY DEF NpmInv
<1>5. CallInv(c)'
  BY <1>1, <1>2, <1>4 DEF CallInv, N!Failed
<1> QED
  BY <1>1, <1>2, <1>3, <1>5, OneCallMoves

LEMMA BreakKeeps == ASSUME NpmInv, NEW c \in Calls, N!Break(c) PROVE NpmInv'
<1> DEFINE to == IF pc[c] = "login" THEN "keep" ELSE N!Failed(c)
<1>1. /\ pc[c] \in {"login", "read"}
      /\ session' = IF pc[c] = "login" THEN [session EXCEPT ![c] = None] ELSE session
      /\ pc' = [pc EXCEPT ![c] = to] /\ upset' = upset \cup {c}
      /\ UNCHANGED <<issued, live, faults, knows, kept, path, again, refusals>>
  BY DEF N!Break, N!Goes, N!server
<1>2. /\ pc'[c] = to /\ session'[c] = IF pc[c] = "login" THEN None ELSE session[c]
      /\ \A d \in Calls \ {c} : pc'[d] = pc[d] /\ session'[d] = session[d]
  BY <1>1 DEF NpmInv, NpmType
<1>3. NpmType'
  BY <1>1 DEF NpmInv, NpmType, Issued, N!Failed
<1>4. CallInv(c)
  BY DEF NpmInv
<1>5. CallInv(c)'
  BY <1>1, <1>2, <1>4 DEF CallInv, N!Failed
<1> QED
  BY <1>1, <1>2, <1>3, <1>5, OneCallMoves

\* The server ends the sessions, or the password changes: whoever has no login left, or
\* is tested, is upset.
LEMMA ServerKeeps == ASSUME NpmInv, N!EndSessions \/ N!ChangePassword PROVE NpmInv'
<1>1. /\ faults' = faults + 1 /\ faults < MaxFaults /\ upset \subseteq upset'
      /\ \/ /\ live' = {} /\ knows' = knows
            /\ {c \in Calls : again[c] /\ pc[c] \in {"keep", "read"}} \subseteq upset'
         \/ live' = live /\ {c \in Tests : pc[c] = "keep"} \subseteq upset'
      /\ UNCHANGED <<issued, kept, pc, session, path, again, refusals>>
  BY DEF N!EndSessions, N!ChangePassword, N!Calls, Calls
<1>2. NpmType'
  <2>1. faults' \in 0..MaxFaults
    BY <1>1, BoundsAssumption DEF NpmInv, NpmType
  <2>2. live' \subseteq 1..issued
    BY <1>1 DEF NpmInv, NpmType
  <2> QED
    BY <1>1, <2>1, <2>2 DEF NpmInv, NpmType, Issued
<1>3. ASSUME NEW c \in Calls PROVE CallInv(c)'
  <2>1. again[c] /\ pc[c] \in {"keep", "read"} => live \subseteq live' \/ c \in upset'
    BY <1>1
  <2>2. c \in Tests /\ pc[c] = "keep" => knows' = knows \/ c \in upset'
    BY <1>1
  <2> QED
    BY <1>1, <2>1, <2>2, CallRests DEF NpmInv
<1> QED
  BY <1>2, <1>3 DEF NpmInv

LEMMA NpmStepKeeps == NpmInv /\ [N!Next]_npm => NpmInv'
<1> SUFFICES ASSUME NpmInv, [N!Next]_npm PROVE NpmInv'
  OBVIOUS
<1>1. CASE N!EndSessions \/ N!ChangePassword
  BY <1>1, ServerKeeps
<1>2. ASSUME NEW c \in Calls, N!Step(c) PROVE NpmInv'
  BY <1>2, StartKeeps, SessionKeeps, LoginKeeps, RefuseKeeps, KeepKeeps, AcceptedKeeps,
     RefusedKeeps, DeniedKeeps, BreakKeeps DEF N!Step
<1>3. CASE UNCHANGED npm
  BY <1>3 DEF npm, NpmInv, NpmType, CallInv, Issued
<1> QED
  BY <1>1, <1>2, <1>3 DEF N!Next, N!Calls, Calls

LEMMA PartsMoveNpm == PartsSpec => N!Init /\ [][N!Next]_npm
<1>1. PartsInit => N!Init
  BY DEF PartsInit
<1>2. [PartsNext]_Parts => [N!Next]_npm
  <2> SUFFICES ASSUME [PartsNext]_Parts, npm' # npm PROVE N!Next
    OBVIOUS
  <2> QED
    BY DEF PartsNext, Rest, Parts
<1> QED
  BY <1>1, <1>2, PTL DEF PartsSpec, Parts

\* get, session, fresh (SessionsAreShared): a call logs in in vain at most once, a call that
\* has the password and meets no fault but what a login mends does not fail, whatever others do
\* to the cached session and wherever it dies between the reads, and a connection test passes only with a login its own password earned, for
\* any number of scans and tests.
THEOREM SessionsCorrect == PartsSpec => SessionsAreShared
<1>1. NpmInv => N!TypeOK /\ N!OneFailedLogin /\ N!DeadSessionIsHarmless
  <2> SUFFICES ASSUME NpmInv PROVE N!TypeOK /\ N!OneFailedLogin /\ N!DeadSessionIsHarmless
    OBVIOUS
  <2>1. N!TypeOK
    BY DEF NpmInv, NpmType, CallInv, Issued, N!TypeOK, N!Calls, Calls
  <2>2. N!OneFailedLogin
    BY DEF NpmInv, CallInv, N!OneFailedLogin, N!Calls, Calls
  <2>3. N!DeadSessionIsHarmless
    <3>1. \A c \in Calls : refusals[c] # 0 => refusals[c] > 0
      BY DEF NpmInv, NpmType
    <3> QED
      BY <3>1 DEF NpmInv, CallInv, N!DeadSessionIsHarmless, N!Calls, Calls
  <2> QED
    BY <2>1, <2>2, <2>3
<1>2. NpmInv /\ [N!Next]_npm =>
        [\A c \in Tests : pc[c] # "listed" /\ pc'[c] = "listed" =>
           session[c] # None /\ (c \in knows \/ c \in upset)]_pc
  <2> SUFFICES ASSUME NpmInv, [N!Next]_npm, NEW c \in Tests, pc[c] # "listed", pc'[c] = "listed"
               PROVE  session[c] # None /\ (c \in knows \/ c \in upset)
    OBVIOUS
  <2>1. c \in Calls /\ CallInv(c)
    BY DEF NpmInv, Calls
  <2>2. PICK d \in Calls : N!Step(d)
    BY DEF N!Next, N!EndSessions, N!ChangePassword, N!Calls, Calls, npm
  <2>3. d = c
    BY <2>1, <2>2 DEF N!Step, N!Start, N!Session, N!Login, N!Refuse, N!Keep, N!Accepted, N!Advance,
                      N!Refused, N!Denied, N!Break, N!Goes, NpmInv, NpmType
  <2>4. pc[c] # "read"
    BY <2>1 DEF CallInv
  <2>5. pc' = [pc EXCEPT ![c] = "listed"] => pc'[c] = "listed"
    OBVIOUS
  <2>6. N!Keep(c) /\ session[c] # None
    BY <2>1, <2>2, <2>3, <2>4 DEF N!Step, N!Start, N!Session, N!Login, N!Refuse, N!Keep, N!Accepted,
                      N!Refused, N!Denied, N!Break, N!Goes, N!Failed, NpmInv, NpmType
  <2> QED
    BY <2>1, <2>6 DEF CallInv, N!Keep
<1> QED
  BY <1>1, <1>2, NpmInitKeeps, NpmStepKeeps, PartsMoveNpm, PTL DEF SessionsAreShared, N!TestsAreReal

-----------------------------------------------------------------------------
\* SshScan: both commands read a host that changes between them.

Holders == Containers \cup Processes \cup {None}
Mapped(x) == H!Pick(x, {p \in H!Ports : x[p] \in Containers /\ ~ H!InRange(x, p)})

SshType ==
  /\ holder \in [H!Ports -> Holders]
  /\ command \in {"idle", "docker", "ss", "snapshot"}
  /\ {root, dockerRan, ssRan} \subseteq BOOLEAN

\* What the scan holds at each command, and what it is made of.
SshHeld ==
  /\ command \in {"docker", "ss"} => holder \in holders
  /\ command \in {"idle", "docker"} => docker = <<>> /\ dockerRan = FALSE
  /\ command # "snapshot" => found = <<>>
  /\ dockerRan = FALSE => docker = <<>>
  /\ dockerRan = TRUE => \E x \in holders : docker = Mapped(x)

SshInv == SshType /\ SshHeld /\ H!NoPortTwice /\ H!HeldIsShown /\ H!ReportedWasHeld

LEMMA NothingIsHeld == DOMAIN <<>> = {}
OBVIOUS

LEMMA MappedIs ==
  ASSUME NEW x
  PROVE  /\ DOMAIN Mapped(x) = {p \in H!Ports : x[p] \in Containers /\ ~ H!InRange(x, p)}
         /\ \A p \in DOMAIN Mapped(x) : Mapped(x)[p] = x[p]
BY DEF Mapped, H!Pick

LEMMA SshInitKeeps == H!Init => SshInv
<1> SUFFICES ASSUME H!Init PROVE SshInv
  OBVIOUS
<1>1. SshType
  BY DEF H!Init, H!Nothing, SshType, Holders
<1>2. SshHeld
  BY DEF H!Init, H!Nothing, SshHeld
<1>3. H!NoPortTwice /\ H!ReportedWasHeld
  BY NothingIsHeld DEF H!Init, H!Nothing, H!NoPortTwice, H!ReportedWasHeld
<1>4. H!HeldIsShown
  BY DEF H!Init, H!HeldIsShown
<1> QED
  BY <1>1, <1>2, <1>3, <1>4 DEF SshInv

\* While nothing is read, what was held only grows.
LEMMA ChangeKeeps == ASSUME SshInv, H!Change PROVE SshInv'
<1>1. /\ UNCHANGED <<root, command, docker, dockerRan, found, ssRan, dropped>>
      /\ holders' = IF command \in {"docker", "ss"} THEN holders \cup {holder'} ELSE holders
  BY DEF H!Change
<1>2. SshType'
  BY <1>1 DEF H!Change, SshInv, SshType, Holders
<1>3. SshHeld'
  BY <1>1 DEF SshInv, SshHeld
<1>4. H!NoPortTwice'
  BY <1>1 DEF SshInv, H!NoPortTwice
<1>5. H!HeldIsShown'
  BY <1>1 DEF SshInv, H!HeldIsShown
<1>6. H!ReportedWasHeld'
  BY <1>1 DEF SshInv, H!ReportedWasHeld
<1> QED
  BY <1>2, <1>3, <1>4, <1>5, <1>6 DEF SshInv

LEMMA BeginKeeps == ASSUME SshInv, H!Begin PROVE SshInv'
<1>1. /\ command = "idle" /\ command' = "docker" /\ holders' = {holder}
      /\ UNCHANGED <<holder, root, docker, dockerRan, found, ssRan>>
  BY DEF H!Begin
<1>2. docker = <<>> /\ found = <<>> /\ dockerRan = FALSE
  BY <1>1 DEF SshInv, SshHeld
<1>3. SshType' /\ SshHeld'
  BY <1>1, <1>2 DEF SshInv, SshType, SshHeld
<1>4. H!NoPortTwice' /\ H!ReportedWasHeld'
  BY <1>1, <1>2, NothingIsHeld DEF H!NoPortTwice, H!ReportedWasHeld
<1>5. H!HeldIsShown'
  BY <1>1 DEF H!HeldIsShown
<1> QED
  BY <1>3, <1>4, <1>5 DEF SshInv

LEMMA DockerKeeps == ASSUME SshInv, H!runDocker PROVE SshInv'
<1>1. /\ command = "docker" /\ command' = "ss" /\ dockerRan' \in BOOLEAN
      /\ docker' = IF dockerRan' THEN Mapped(holder) ELSE <<>>
      /\ UNCHANGED <<holder, root, found, ssRan, holders>>
  BY DEF H!runDocker, H!parseDockerPorts, Mapped
<1>2. found = <<>> /\ holder \in holders
  BY <1>1 DEF SshInv, SshHeld
<1>3. SshType' /\ SshHeld'
  BY <1>1, <1>2 DEF SshInv, SshType, SshHeld
<1>4. H!NoPortTwice'
  BY <1>1, <1>2, NothingIsHeld DEF H!NoPortTwice
<1>5. H!HeldIsShown'
  BY <1>1 DEF H!HeldIsShown
<1>6. \A p \in DOMAIN docker' : holder[p] = docker'[p]
  BY <1>1, MappedIs, NothingIsHeld
<1>7. H!ReportedWasHeld'
  BY <1>1, <1>2, <1>6, NothingIsHeld DEF H!ReportedWasHeld
<1> QED
  BY <1>3, <1>4, <1>5, <1>7 DEF SshInv

LEMMA SSKeeps == ASSUME SshInv, H!runSS PROVE SshInv'
<1> DEFINE Shown == {p \in H!Listeners : ssRan' /\ ~ H!Explained(p)}
<1>1. /\ command = "ss" /\ command' = "snapshot" /\ ssRan' \in BOOLEAN
      /\ found' = [p \in Shown |-> H!Process(p)]
      /\ UNCHANGED <<holder, root, docker, dockerRan, holders>>
  BY DEF H!runSS
<1>2. holder \in holders
  BY <1>1 DEF SshInv, SshHeld
<1>3. DOMAIN found' = Shown /\ \A p \in Shown : found'[p] = H!Process(p)
  BY <1>1
<1>4. \A p \in DOMAIN docker : docker[p] \in Containers
  <2>1. CASE dockerRan = TRUE
    <3>1. PICK x \in holders : docker = Mapped(x)
      BY <2>1 DEF SshInv, SshHeld
    <3> QED
      BY <3>1, MappedIs
  <2>2. CASE dockerRan = FALSE
    BY <2>2, NothingIsHeld DEF SshInv, SshHeld
  <2> QED
    BY <2>1, <2>2 DEF SshInv, SshType
<1>5. SshType' /\ SshHeld'
  BY <1>1 DEF SshInv, SshType, SshHeld
<1>6. H!NoPortTwice'
  BY <1>1, <1>3 DEF H!NoPortTwice, H!Explained
<1>7. \A p \in DOMAIN docker : \E x \in holders : x[p] = docker[p]
  BY DEF SshInv, H!ReportedWasHeld
<1>8. ASSUME NEW p \in H!Ports, NEW h \in Processes, \A x \in holders : x[p] = h, ssRan' = TRUE
      PROVE  p \in Shown
  <2>1. holder[p] = h /\ h \notin Containers /\ h # None /\ h # "docker-proxy"
    BY <1>2, <1>8, ProcessAssumption, NoneAssumption
  <2>2. p \notin DOMAIN docker
    BY <1>4, <1>7, <1>8, <2>1
  <2>3. H!Process(p) # "docker-proxy"
    BY <2>1 DEF H!Process
  <2> QED
    BY <1>8, <2>1, <2>2, <2>3 DEF H!Listeners, H!Explained
<1>9. ASSUME NEW p \in H!Ports, NEW h \in Containers, \A x \in holders : x[p] = h, dockerRan = TRUE,
             ~ \E x \in holders : H!InRange(x, p)
      PROVE  p \in DOMAIN docker /\ docker[p] = h
  <2>1. PICK x \in holders : docker = Mapped(x)
    BY <1>9 DEF SshInv, SshHeld
  <2> QED
    BY <1>9, <2>1, MappedIs
<1>10. H!HeldIsShown'
  BY <1>1, <1>3, <1>8, <1>9, ProcessAssumption DEF H!HeldIsShown
<1>11. ASSUME NEW p \in Shown PROVE holder[p] # None /\ (root => holder[p] = H!Process(p))
  BY <1>11 DEF H!Listeners, H!Explained, H!Process
<1>12. H!ReportedWasHeld'
  BY <1>1, <1>2, <1>3, <1>7, <1>11 DEF H!ReportedWasHeld
<1> QED
  BY <1>5, <1>6, <1>10, <1>12 DEF SshInv

LEMMA ReturnKeeps == ASSUME SshInv, H!Return PROVE SshInv'
<1>1. /\ command' = "idle" /\ docker' = <<>> /\ dockerRan' = FALSE /\ found' = <<>> /\ ssRan' = FALSE
      /\ UNCHANGED <<holder, root>>
  BY DEF H!Return
<1>2. SshType' /\ SshHeld'
  BY <1>1 DEF SshInv, SshType, SshHeld
<1>3. H!NoPortTwice' /\ H!ReportedWasHeld'
  BY <1>1, NothingIsHeld DEF H!NoPortTwice, H!ReportedWasHeld
<1>4. H!HeldIsShown'
  BY <1>1 DEF H!HeldIsShown
<1> QED
  BY <1>2, <1>3, <1>4 DEF SshInv

LEMMA SshStepKeeps == SshInv /\ [H!Next]_ssh => SshInv'
<1>1. ASSUME SshInv, UNCHANGED ssh PROVE SshInv'
  BY <1>1 DEF ssh, SshInv, SshType, SshHeld, H!NoPortTwice, H!HeldIsShown, H!ReportedWasHeld
<1> QED
  BY <1>1, ChangeKeeps, BeginKeeps, DockerKeeps, SSKeeps, ReturnKeeps DEF H!Next

LEMMA PartsMoveSsh == PartsSpec => H!Init /\ [][H!Next]_ssh
<1>1. PartsInit => H!Init
  BY DEF PartsInit
<1>2. [PartsNext]_Parts => [H!Next]_ssh
  <2> SUFFICES ASSUME [PartsNext]_Parts, ssh' # ssh PROVE H!Next
    OBVIOUS
  <2> QED
    BY DEF PartsNext, Rest, Parts
<1> QED
  BY <1>1, <1>2, PTL DEF PartsSpec, Parts

\* parseDockerPorts, parseSS (PortsAreTold): no port is told twice, a port one program held
\* all through the scan is told as its own, and what is told was listening at some moment
\* of it, for any number of ports, programs and changes between the two commands.
THEOREM PortsCorrect == PartsSpec => []PortsAreTold
<1>1. SshInv => PortsAreTold
  BY DEF SshInv, PortsAreTold
<1> QED
  BY <1>1, SshInitKeeps, SshStepKeeps, PartsMoveSsh, PTL

-----------------------------------------------------------------------------
\* Proxmox: a scan holds what the cluster was at some moment of it.

Rows == [status : {"absent", "stopped", "running", "unknown"}, named : BOOLEAN]
Told == Addrs \cup {None, Unread}
ScanRecord ==
  [pc : {"idle", "permissions", "nodeAddresses", "guests", "readGuests"}, agent : BOOLEAN,
   node : {None, "own", Unread}, listed : UNION {[S -> Rows] : S \in SUBSET Guests},
   ips : UNION {[S -> Told] : S \in SUBSET Guests}, todo : SUBSET Guests,
   calls : SUBSET Guests, expired : BOOLEAN]
StoreRow == [state : {"none", "active", "gone"}, addr : Addrs \cup {None},
             name : {"none", "placeholder", "real"}]

ProxmoxType ==
  /\ cluster \in P!Clusters /\ clusters \subseteq P!Clusters
  /\ moves \in 0..MaxMoves
  /\ scan \in ScanRecord
  /\ store \in [Guests -> StoreRow]
  /\ node \in {None, "own"}

\* Of a scan itself: what is asked is listed and runs, and the slots suffice.
ScanSound(s) ==
  /\ s.pc = "idle" => s = P!Idle
  /\ s.pc # "readGuests" => s.calls = {} /\ s.todo = {}
  /\ DOMAIN s.ips = DOMAIN s.listed
  /\ \A g \in s.todo \cup s.calls : g \in DOMAIN s.listed /\ s.listed[g].status = "running"
  /\ IsFiniteSet(s.calls) /\ Cardinality(s.calls) <= Slots

\* Of a scan and the clusters it has seen: every listed row, every missing one and every
\* address is what one of them was.
ScanSeen(s) ==
  /\ s.pc # "idle" => cluster \in clusters
  /\ s.pc = "readGuests" => \E c \in clusters : s.listed = P!toGuests(c)
  /\ s.node # Unread => \E c \in clusters : c.sys /\ c.node = s.node
  /\ \A g \in DOMAIN s.listed :
       /\ s.listed[g].status = "stopped" => s.ips[g] = None
       /\ s.ips[g] # Unread => \E c \in clusters : c.guests[g].addr = s.ips[g]

StoreSound == \A g \in Guests : store[g].state = "none" => store[g] = P!NoRow

ProxmoxInv == ProxmoxType /\ ScanSound(scan) /\ ScanSeen(scan) /\ StoreSound

LEMMA IdleIs ==
  /\ P!Idle \in ScanRecord /\ ScanSound(P!Idle) /\ ScanSeen(P!Idle)
  /\ P!Idle.pc = "idle" /\ P!Idle.calls = {} /\ P!Idle.todo = {}
  /\ DOMAIN P!Idle.listed = {} /\ DOMAIN P!Idle.ips = {} /\ P!Idle.node = Unread
<1>1. <<>> \in [{} -> Rows] /\ <<>> \in [{} -> Told] /\ DOMAIN <<>> = {}
  OBVIOUS
<1>2. P!Idle \in ScanRecord
  BY <1>1 DEF P!Idle, ScanRecord
<1>3. /\ P!Idle.pc = "idle" /\ P!Idle.calls = {} /\ P!Idle.todo = {} /\ P!Idle.listed = <<>>
      /\ P!Idle.ips = <<>> /\ P!Idle.node = Unread
  BY DEF P!Idle
<1>4. IsFiniteSet({}) /\ Cardinality({}) = 0 /\ Slots \in Nat
  BY FS_EmptySet, BoundsAssumption
<1>5. ScanSound(P!Idle)
  BY <1>1, <1>3, <1>4 DEF ScanSound
<1>6. ScanSeen(P!Idle)
  BY <1>1, <1>3 DEF ScanSeen
<1> QED
  BY <1>1, <1>2, <1>3, <1>5, <1>6

LEMMA GuestStates ==
  ASSUME NEW c \in P!Clusters, NEW g \in Guests
  PROVE  /\ c.guests[g] \in P!States
         /\ c.guests[g].addr \in Addrs \cup {None}
         /\ c.guests[g].status \in {"absent", "stopped", "running"}
         /\ c.guests[g].rrd \in BOOLEAN
         /\ c.guests[g].status = "stopped" => c.guests[g].addr = None
<1>1. c.guests[g] \in P!States
  BY DEF P!Clusters
<1>2. CASE c.guests[g] = P!Absent
  BY <1>1, <1>2 DEF P!Absent
<1>3. CASE c.guests[g] \in P!Asleep
  BY <1>1, <1>3 DEF P!Asleep
<1>4. CASE c.guests[g] \in P!Awake
  BY <1>1, <1>4 DEF P!Awake
<1> QED
  BY <1>1, <1>2, <1>3, <1>4 DEF P!States

\* toGuests lists who exists, as the statistics tell it.
LEMMA ToGuests ==
  ASSUME NEW c \in P!Clusters
  PROVE  /\ DOMAIN P!toGuests(c) = {g \in Guests : c.audit /\ c.guests[g].status # "absent"}
         /\ \A g \in DOMAIN P!toGuests(c) : P!toGuests(c)[g] = P!Row(c.guests[g])
         /\ P!toGuests(c) \in [DOMAIN P!toGuests(c) -> Rows]
<1>1. \A g \in Guests : P!Row(c.guests[g]) \in Rows
  BY GuestStates DEF P!Row, Rows
<1> QED
  BY <1>1 DEF P!toGuests

LEMMA ProxmoxInitKeeps == P!Init => ProxmoxInv
<1> SUFFICES ASSUME P!Init PROVE ProxmoxInv
  OBVIOUS
<1>1. MaxMoves \in Nat
  BY BoundsAssumption
<1>2. ProxmoxType
  BY <1>1, IdleIs DEF P!Init, ProxmoxType, P!NoRow, StoreRow
<1>3. ScanSound(scan) /\ ScanSeen(scan)
  BY IdleIs DEF P!Init
<1>4. StoreSound
  BY DEF P!Init, StoreSound
<1> QED
  BY <1>2, <1>3, <1>4 DEF ProxmoxInv

\* The scan goes on with what it read: what is left to show is about the scan.
LEMMA ScanGoes ==
  ASSUME ProxmoxInv, NEW s \in ScanRecord, P!Goes(s), ScanSound(s), ScanSeen(s)
  PROVE  ProxmoxInv'
<1>1. scan' = s /\ UNCHANGED <<cluster, moves, store, node, clusters>>
  BY DEF P!Goes
<1>2. ProxmoxType'
  BY <1>1 DEF ProxmoxInv, ProxmoxType
<1>3. ScanSound(scan)'
  BY <1>1 DEF ScanSound
<1>4. ScanSeen(scan)'
  BY <1>1 DEF ScanSeen
<1>5. StoreSound'
  BY <1>1 DEF ProxmoxInv, StoreSound
<1> QED
  BY <1>2, <1>3, <1>4, <1>5 DEF ProxmoxInv

\* What was seen stays seen when more is.
LEMMA ClusterChanges ==
  ASSUME ProxmoxInv, NEW c \in P!Clusters, P!Changed(c)
  PROVE  ProxmoxInv'
<1>1. /\ moves < MaxMoves /\ cluster' = c /\ moves' = moves + 1
      /\ clusters' = IF scan = P!Idle THEN clusters ELSE clusters \cup {c}
      /\ UNCHANGED <<scan, store, node>>
  BY DEF P!Changed
<1>2. moves' \in 0..MaxMoves
  BY <1>1, BoundsAssumption DEF ProxmoxInv, ProxmoxType
<1>3. ProxmoxType'
  BY <1>1, <1>2 DEF ProxmoxInv, ProxmoxType
<1>4. ScanSound(scan)'
  BY <1>1 DEF ProxmoxInv, ScanSound
<1>5. ScanSeen(scan)'
  BY <1>1, IdleIs DEF ProxmoxInv, ScanSound, ScanSeen
<1>6. StoreSound'
  BY <1>1 DEF ProxmoxInv, StoreSound
<1> QED
  BY <1>3, <1>4, <1>5, <1>6 DEF ProxmoxInv

LEMMA ClusterKeeps == ASSUME ProxmoxInv, P!ChangeGuest \/ P!ChangeNode \/ P!ChangeToken PROVE ProxmoxInv'
<1>1. cluster \in P!Clusters
  BY DEF ProxmoxInv, ProxmoxType
<1>2. ASSUME NEW g \in Guests, NEW s \in P!States PROVE [cluster EXCEPT !.guests[g] = s] \in P!Clusters
  BY <1>1, <1>2 DEF P!Clusters
<1>3. ASSUME NEW p \in {"audit", "agent", "sys"} PROVE [cluster EXCEPT ![p] = ~ @] \in P!Clusters
  <2>1. CASE p = "audit"
    BY <1>1, <2>1 DEF P!Clusters
  <2>2. CASE p = "agent"
    BY <1>1, <2>2 DEF P!Clusters
  <2>3. CASE p = "sys"
    BY <1>1, <2>3 DEF P!Clusters
  <2> QED
    BY <1>3, <2>1, <2>2, <2>3
<1>4. CASE P!ChangeGuest
  BY <1>2, <1>4, ClusterChanges DEF P!ChangeGuest
<1>6. CASE P!ChangeNode
  <2>1. ASSUME NEW a \in {None, "own"} PROVE [cluster EXCEPT !.node = a] \in P!Clusters
    BY <1>1, <2>1 DEF P!Clusters
  <2>2. P!Changed([cluster EXCEPT !.node = IF cluster.node = None THEN "own" ELSE None])
    BY <1>6 DEF P!ChangeNode
  <2> QED
    BY <2>1, <2>2, ClusterChanges
<1>5. CASE P!ChangeToken
  BY <1>3, <1>5, ClusterChanges DEF P!ChangeToken
<1> QED
  BY <1>4, <1>5, <1>6

LEMMA ScanBegins == ASSUME ProxmoxInv, P!Begin PROVE ProxmoxInv'
<1> DEFINE s == [P!Idle EXCEPT !.pc = "permissions"]
<1>1. /\ scan' = s /\ clusters' = {cluster} /\ UNCHANGED <<cluster, moves, store, node>>
  BY DEF P!Begin
<1>2. <<>> \in [{} -> Rows] /\ <<>> \in [{} -> Told] /\ DOMAIN <<>> = {}
  OBVIOUS
<1>3. s \in ScanRecord
  BY IdleIs DEF ScanRecord
<1>4. /\ s.pc = "permissions" /\ s.calls = {} /\ s.todo = {} /\ s.listed = <<>> /\ s.ips = <<>>
      /\ s.node = Unread
  BY DEF P!Idle
<1>5. IsFiniteSet({}) /\ Cardinality({}) = 0 /\ Slots \in Nat
  BY FS_EmptySet, BoundsAssumption
<1> HIDE DEF s
<1>6. ScanSound(scan)'
  BY <1>1, <1>2, <1>4, <1>5 DEF ScanSound
<1>7. ScanSeen(scan)'
  BY <1>1, <1>2, <1>4 DEF ScanSeen
<1>8. ProxmoxType' /\ StoreSound'
  BY <1>1, <1>3 DEF ProxmoxInv, ProxmoxType, StoreSound
<1> QED
  BY <1>6, <1>7, <1>8 DEF ProxmoxInv

\* A scan that only moves on, or only narrows what is left to ask.
LEMMA ScanAlike ==
  ASSUME ProxmoxInv, NEW s \in ScanRecord, s.pc # "idle", scan.pc # "idle",
         s.listed = scan.listed, s.ips = scan.ips, s.calls = scan.calls, s.todo \subseteq scan.todo,
         s.node # Unread => \E c \in clusters : c.sys /\ c.node = s.node,
         s.pc = "readGuests" <=> scan.pc = "readGuests"
  PROVE  ScanSound(s) /\ ScanSeen(s)
BY DEF ProxmoxInv, ScanSound, ScanSeen

LEMMA PermissionsKeeps == ASSUME ProxmoxInv, P!permissions PROVE ProxmoxInv'
<1> DEFINE s == [scan EXCEPT !.pc = "nodeAddresses", !.agent = cluster.agent]
<1>1. scan.pc = "permissions" /\ P!Goes(s)
  BY DEF P!permissions
<1>2. scan \in ScanRecord /\ cluster.agent \in BOOLEAN
  BY DEF ProxmoxInv, ProxmoxType, P!Clusters
<1>3. [scan EXCEPT !.pc = "nodeAddresses"] \in ScanRecord
  BY <1>2 DEF ScanRecord
<1>4. /\ s \in ScanRecord /\ s.pc = "nodeAddresses" /\ s.listed = scan.listed /\ s.ips = scan.ips
      /\ s.calls = scan.calls /\ s.todo = scan.todo /\ s.node = scan.node
  BY <1>2, <1>3 DEF ScanRecord
<1> HIDE DEF s
<1>6. s.node # Unread => \E c \in clusters : c.sys /\ c.node = s.node
  BY <1>4 DEF ProxmoxInv, ScanSeen
<1>5. ScanSound(s) /\ ScanSeen(s)
  BY <1>1, <1>4, <1>6, ScanAlike
<1> QED
  BY <1>1, <1>4, <1>5, ScanGoes

LEMMA NodeAddressesKeeps == ASSUME ProxmoxInv, P!nodeAddresses PROVE ProxmoxInv'
<1> DEFINE a == IF cluster.sys THEN cluster.node ELSE Unread
           s == [scan EXCEPT !.pc = "guests", !.node = a]
<1>1. scan.pc = "nodeAddresses" /\ P!Goes(s)
  BY DEF P!nodeAddresses
<1>2. scan \in ScanRecord /\ a \in {None, "own", Unread}
  BY DEF ProxmoxInv, ProxmoxType, P!Clusters
<1>6. a # Unread => cluster \in clusters /\ cluster.sys /\ cluster.node = a
  BY <1>1 DEF ProxmoxInv, ScanSeen
<1> HIDE DEF a
<1>3. [scan EXCEPT !.pc = "guests"] \in ScanRecord
  BY <1>2 DEF ScanRecord
<1>4. /\ s \in ScanRecord /\ s.pc = "guests" /\ s.listed = scan.listed /\ s.ips = scan.ips
      /\ s.calls = scan.calls /\ s.todo = scan.todo /\ s.node = a
  BY <1>2, <1>3 DEF ScanRecord
<1> HIDE DEF s
<1>5. ScanSound(s) /\ ScanSeen(s)
  BY <1>1, <1>6, <1>4, ScanAlike
<1> QED
  BY <1>1, <1>4, <1>5, ScanGoes

LEMMA GuestsKeeps == ASSUME ProxmoxInv, P!guests PROVE ProxmoxInv'
<1> DEFINE l == P!toGuests(cluster)
           s == [scan EXCEPT !.pc = "readGuests", !.listed = l, !.ips = P!Settled(l), !.todo = P!Asked(l)]
<1>1. scan.pc = "guests" /\ P!Goes(s)
  BY DEF P!guests
<1>2. scan \in ScanRecord /\ cluster \in P!Clusters
  BY DEF ProxmoxInv, ProxmoxType
<1>3. /\ DOMAIN l \subseteq Guests
      /\ \A g \in DOMAIN l : l[g] = P!Row(cluster.guests[g])
      /\ l \in [DOMAIN l -> Rows]
  BY <1>2, ToGuests
<1> HIDE DEF l
<1>4. l \in UNION {[S -> Rows] : S \in SUBSET Guests}
  BY <1>3
<1>5. P!Settled(l) \in [DOMAIN l -> Told] /\ DOMAIN P!Settled(l) = DOMAIN l
  BY DEF P!Settled, Told
<1>6. P!Settled(l) \in UNION {[S -> Told] : S \in SUBSET Guests}
  BY <1>3, <1>5
<1>7. P!Asked(l) \in SUBSET Guests
  BY <1>3 DEF P!Asked
<1>8. [scan EXCEPT !.pc = "readGuests"] \in ScanRecord
  BY <1>2 DEF ScanRecord
<1>9. [scan EXCEPT !.pc = "readGuests", !.listed = l] \in ScanRecord
  BY <1>4, <1>8 DEF ScanRecord
<1>10. [scan EXCEPT !.pc = "readGuests", !.listed = l, !.ips = P!Settled(l)] \in ScanRecord
  BY <1>6, <1>9 DEF ScanRecord
<1>11. s \in ScanRecord
  BY <1>7, <1>10 DEF ScanRecord
<1>12. /\ s.pc = "readGuests" /\ s.listed = l /\ s.ips = P!Settled(l) /\ s.todo = P!Asked(l)
       /\ s.calls = scan.calls /\ s.node = scan.node
  BY <1>2 DEF ScanRecord
<1> HIDE DEF s
<1>13. scan.calls = {}
  BY <1>1 DEF ProxmoxInv, ScanSound
<1>14. IsFiniteSet({}) /\ Cardinality({}) = 0 /\ Slots \in Nat
  BY FS_EmptySet, BoundsAssumption
<1>15. ScanSound(s)
  BY <1>5, <1>12, <1>13, <1>14 DEF ScanSound, P!Asked
<1>16. cluster \in clusters
  BY <1>1 DEF ProxmoxInv, ScanSeen
<1>17. ASSUME NEW g \in DOMAIN l
       PROVE  /\ l[g].status = "stopped" => P!Settled(l)[g] = None
              /\ P!Settled(l)[g] # Unread => cluster.guests[g].addr = P!Settled(l)[g]
  <2>1. l[g].status = "stopped" => cluster.guests[g].status = "stopped"
    BY <1>3 DEF P!Row
  <2>2. cluster.guests[g].status = "stopped" => cluster.guests[g].addr = None
    BY <1>2, <1>3, GuestStates
  <2> QED
    BY <2>1, <2>2 DEF P!Settled
<1>19. s.node # Unread => \E c \in clusters : c.sys /\ c.node = s.node
  BY <1>12 DEF ProxmoxInv, ScanSeen
<1>18. ScanSeen(s)
  BY <1>12, <1>16, <1>17, <1>19 DEF ScanSeen, l
<1> QED
  BY <1>1, <1>11, <1>15, <1>18, ScanGoes

LEMMA DispatchKeeps == ASSUME ProxmoxInv, NEW g \in Guests, P!Dispatch(g) PROVE ProxmoxInv'
<1> DEFINE s == [scan EXCEPT !.todo = @ \ {g}, !.calls = @ \cup {g}]
<1>1. g \in scan.todo /\ P!Cardinality(scan.calls) < Slots /\ P!Goes(s)
  BY DEF P!Dispatch
<1>2. scan \in ScanRecord
  BY DEF ProxmoxInv, ProxmoxType
<1>3. [scan EXCEPT !.todo = @ \ {g}] \in ScanRecord
  BY <1>2 DEF ScanRecord
<1>4. /\ s \in ScanRecord /\ s.pc = scan.pc /\ s.listed = scan.listed /\ s.ips = scan.ips
      /\ s.todo = scan.todo \ {g} /\ s.calls = scan.calls \cup {g} /\ s.node = scan.node
  BY <1>2, <1>3 DEF ScanRecord
<1> HIDE DEF s
<1>5. scan.pc = "readGuests"
  BY <1>1 DEF ProxmoxInv, ScanSound
<1>6. IsFiniteSet(s.calls) /\ Cardinality(s.calls) <= Slots
  <2>1. IsFiniteSet(scan.calls) /\ Cardinality(scan.calls) < Slots
    BY <1>1, SameCardinality DEF ProxmoxInv, ScanSound
  <2>2. /\ IsFiniteSet(scan.calls \cup {g})
        /\ \/ Cardinality(scan.calls \cup {g}) = Cardinality(scan.calls) + 1
           \/ Cardinality(scan.calls \cup {g}) = Cardinality(scan.calls)
    BY <2>1, FS_AddElement
  <2>3. Cardinality(scan.calls) \in Nat
    BY <2>1, FS_CardinalityType
  <2> QED
    BY <1>4, <2>1, <2>2, <2>3, BoundsAssumption
<1>7. ScanSound(s)
  BY <1>1, <1>4, <1>5, <1>6 DEF ProxmoxInv, ScanSound
<1>8. ScanSeen(s)
  BY <1>4 DEF ProxmoxInv, ScanSeen
<1> QED
  BY <1>1, <1>4, <1>7, <1>8, ScanGoes

\* What a guest answers is what it has now.
LEMMA InterfacesKeeps == ASSUME ProxmoxInv, NEW g \in Guests, P!guestInterfaces(g) PROVE ProxmoxInv'
<1>1. PICK a \in P!Reported(g) :
        P!Goes([scan EXCEPT !.ips[g] = a, !.calls = @ \ {g}])
  BY DEF P!guestInterfaces
<1> DEFINE s == [scan EXCEPT !.ips[g] = a, !.calls = @ \ {g}]
<1>2. scan \in ScanRecord /\ cluster \in P!Clusters /\ g \in scan.calls
  BY DEF P!guestInterfaces, ProxmoxInv, ProxmoxType
<1>3. /\ a \in Told
      /\ a # Unread => a = cluster.guests[g].addr
  BY <1>2, GuestStates DEF P!Reported, Told
<1>4. /\ g \in DOMAIN scan.listed /\ scan.listed[g].status = "running"
      /\ DOMAIN scan.ips = DOMAIN scan.listed
  BY <1>2 DEF ProxmoxInv, ScanSound
<1>5. scan.ips \in UNION {[S -> Told] : S \in SUBSET Guests}
  BY <1>2 DEF ScanRecord
<1>6. [scan.ips EXCEPT ![g] = a] \in UNION {[S -> Told] : S \in SUBSET Guests}
  BY <1>3, <1>5
<1>7. [scan EXCEPT !.ips[g] = a] \in ScanRecord
  BY <1>2, <1>6 DEF ScanRecord
<1>8. /\ s \in ScanRecord /\ s.pc = scan.pc /\ s.listed = scan.listed /\ s.todo = scan.todo
      /\ s.ips = [scan.ips EXCEPT ![g] = a] /\ s.calls = scan.calls \ {g} /\ s.node = scan.node
  BY <1>2, <1>7 DEF ScanRecord
<1>9. P!Goes(s)
  BY <1>1
<1> HIDE DEF s
<1>10. /\ DOMAIN s.ips = DOMAIN s.listed
       /\ s.ips[g] = a
       /\ \A x \in DOMAIN s.listed \ {g} : s.ips[x] = scan.ips[x]
  BY <1>4, <1>5, <1>8
<1>11. scan.pc = "readGuests"
  BY <1>2 DEF ProxmoxInv, ScanSound
<1>12. IsFiniteSet(s.calls) /\ Cardinality(s.calls) <= Slots
  <2>1. IsFiniteSet(scan.calls) /\ Cardinality(scan.calls) <= Slots
    BY DEF ProxmoxInv, ScanSound
  <2>2. /\ IsFiniteSet(scan.calls \ {g})
        /\ Cardinality(scan.calls \ {g}) <= Cardinality(scan.calls)
    BY <2>1, FS_Subset
  <2>3. Cardinality(scan.calls) \in Nat /\ Cardinality(scan.calls \ {g}) \in Nat
    BY <2>1, <2>2, FS_CardinalityType
  <2> QED
    BY <1>8, <2>1, <2>2, <2>3, BoundsAssumption
<1>13. ScanSound(s)
  BY <1>8, <1>10, <1>11, <1>12 DEF ProxmoxInv, ScanSound
<1>14. cluster \in clusters
  BY <1>11 DEF ProxmoxInv, ScanSeen
<1>15. ScanSeen(s)
  BY <1>3, <1>4, <1>8, <1>10, <1>11, <1>14 DEF ProxmoxInv, ScanSeen
<1> QED
  BY <1>8, <1>9, <1>13, <1>15, ScanGoes

LEMMA BudgetKeeps == ASSUME ProxmoxInv, P!BudgetEnds \/ P!BreakOff PROVE ProxmoxInv'
<1> DEFINE s == [scan EXCEPT !.expired = TRUE]
           t == [scan EXCEPT !.todo = {}]
<1>1. scan \in ScanRecord
  BY DEF ProxmoxInv, ProxmoxType
<1>4. scan.node # Unread => \E c \in clusters : c.sys /\ c.node = scan.node
  BY DEF ProxmoxInv, ScanSeen
<1>2. CASE P!BudgetEnds
  <2>1. scan.pc = "readGuests" /\ P!Goes(s)
    BY <1>2 DEF P!BudgetEnds
  <2>2. /\ s \in ScanRecord /\ s.pc = scan.pc /\ s.listed = scan.listed /\ s.ips = scan.ips
        /\ s.calls = scan.calls /\ s.todo = scan.todo /\ s.node = scan.node
    BY <1>1 DEF ScanRecord
  <2> HIDE DEF s
  <2>3. ScanSound(s) /\ ScanSeen(s)
    BY <1>4, <2>1, <2>2, ScanAlike
  <2> QED
    BY <2>1, <2>2, <2>3, ScanGoes
<1>3. CASE P!BreakOff
  <2>1. scan.todo # {} /\ P!Goes(t)
    BY <1>3 DEF P!BreakOff
  <2>2. scan.pc = "readGuests"
    BY <2>1 DEF ProxmoxInv, ScanSound
  <2>3. /\ t \in ScanRecord /\ t.pc = scan.pc /\ t.listed = scan.listed /\ t.ips = scan.ips
        /\ t.calls = scan.calls /\ t.todo = {} /\ t.node = scan.node
    BY <1>1 DEF ScanRecord
  <2> HIDE DEF t
  <2>4. ScanSound(t) /\ ScanSeen(t)
    BY <1>4, <2>1, <2>2, <2>3, ScanAlike
  <2> QED
    BY <2>1, <2>3, <2>4, ScanGoes
<1> QED
  BY <1>2, <1>3

LEMMA FailKeeps == ASSUME ProxmoxInv, P!Fail PROVE ProxmoxInv'
<1>1. scan' = P!Idle /\ clusters' = {} /\ UNCHANGED <<cluster, moves, store, node>>
  BY DEF P!Fail, P!Over
<1>2. ScanSound(scan)' /\ ScanSeen(scan)'
  <2>1. IsFiniteSet({}) /\ Cardinality({}) = 0 /\ Slots \in Nat
    BY FS_EmptySet, BoundsAssumption
  <2> QED
    BY <1>1, <2>1, IdleIs DEF ScanSound, ScanSeen
<1> QED
  BY <1>1, <1>2, IdleIs DEF ProxmoxInv, ProxmoxType, StoreSound

\* What Apply writes, row by row.
LEMMA Applied ==
  ASSUME ProxmoxInv, P!Apply, NEW g \in Guests
  PROVE  /\ scan.pc = "readGuests"
         /\ store'[g] = IF g \in DOMAIN scan.listed
              THEN [state |-> "active", addr |-> P!Address(g), name |-> P!Name(g)]
              ELSE P!markGone(g)
         /\ P!Address(g) \in Addrs \cup {None} \/ g \notin DOMAIN scan.listed
         /\ P!Name(g) \in {"none", "placeholder", "real"}
         /\ store[g] \in StoreRow
<1>1. /\ scan \in ScanRecord /\ store[g] \in StoreRow
      /\ DOMAIN scan.ips = DOMAIN scan.listed
  BY DEF ProxmoxInv, ProxmoxType, ScanSound
<1>2. g \in DOMAIN scan.listed => scan.ips[g] \in Told
  BY <1>1 DEF ScanRecord
<1>3. g \in DOMAIN scan.listed => P!Address(g) \in Addrs \cup {None}
  BY <1>1, <1>2 DEF P!Address, Told, StoreRow
<1>4. P!Name(g) \in {"none", "placeholder", "real"}
  BY <1>1 DEF P!Name, StoreRow
<1> QED
  BY <1>1, <1>3, <1>4 DEF P!Apply

LEMMA ApplyKeeps == ASSUME ProxmoxInv, P!Apply PROVE ProxmoxInv'
<1>1. scan' = P!Idle /\ clusters' = {} /\ UNCHANGED <<cluster, moves>>
  BY DEF P!Apply, P!Over
<1>2. ScanSound(scan)' /\ ScanSeen(scan)'
  <2>1. IsFiniteSet({}) /\ Cardinality({}) = 0 /\ Slots \in Nat
    BY FS_EmptySet, BoundsAssumption
  <2> QED
    BY <1>1, <2>1, IdleIs DEF ScanSound, ScanSeen
<1>3. ASSUME NEW g \in Guests
      PROVE  store'[g] \in StoreRow /\ (store'[g].state = "none" => store'[g] = P!NoRow)
  <2>1. CASE g \in DOMAIN scan.listed
    <3>1. store'[g] = [state |-> "active", addr |-> P!Address(g), name |-> P!Name(g)]
      BY <2>1, Applied
    <3>2. P!Address(g) \in Addrs \cup {None} /\ P!Name(g) \in {"none", "placeholder", "real"}
      BY <2>1, Applied
    <3> QED
      BY <3>1, <3>2 DEF StoreRow
  <2>2. CASE g \notin DOMAIN scan.listed
    <3>1. store'[g] = P!markGone(g) /\ store[g] \in StoreRow
      BY <2>2, Applied
    <3>2. P!NoRow \in StoreRow
      BY DEF P!NoRow, StoreRow
    <3>3. [store[g] EXCEPT !.state = "gone"] \in StoreRow /\ [store[g] EXCEPT !.state = "gone"].state = "gone"
      BY <3>1 DEF StoreRow
    <3> QED
      BY <3>1, <3>2, <3>3 DEF P!markGone
  <2> QED
    BY <2>1, <2>2
<1>4. store' \in [Guests -> StoreRow]
  <2>1. store' = [g \in Guests |-> store'[g]]
    BY DEF P!Apply
  <2> QED
    BY <1>3, <2>1
<1>5. node' \in {None, "own"}
  BY DEF P!Apply, ProxmoxInv, ProxmoxType, ScanRecord
<1> QED
  BY <1>1, <1>2, <1>3, <1>4, <1>5, IdleIs DEF ProxmoxInv, ProxmoxType, StoreSound

LEMMA ProxmoxStepKeeps == ProxmoxInv /\ [P!Next]_proxmox => ProxmoxInv'
<1>1. ASSUME ProxmoxInv, UNCHANGED proxmox PROVE ProxmoxInv'
  BY <1>1 DEF proxmox, ProxmoxInv, ProxmoxType, ScanSound, ScanSeen, StoreSound
<1>2. ASSUME ProxmoxInv, P!Read PROVE ProxmoxInv'
  BY <1>2, PermissionsKeeps, NodeAddressesKeeps, GuestsKeeps, BudgetKeeps, ApplyKeeps, FailKeeps,
     DispatchKeeps, InterfacesKeeps DEF P!Read
<1> QED
  BY <1>1, <1>2, ClusterKeeps, ScanBegins, BudgetKeeps DEF P!Next

LEMMA PartsMoveProxmox == PartsSpec => P!Init /\ [][P!Next]_proxmox
<1>1. PartsInit => P!Init
  BY DEF PartsInit
<1>2. [PartsNext]_Parts => [P!Next]_proxmox
  <2> SUFFICES ASSUME [PartsNext]_Parts, proxmox' # proxmox PROVE P!Next
    OBVIOUS
  <2> QED
    BY DEF PartsNext, Rest, Parts
<1> QED
  BY <1>1, <1>2, PTL DEF PartsSpec, Parts

\* Only Apply writes.
LEMMA OnlyApplyWrites ==
  ASSUME [P!Next]_proxmox, store' # store \/ node' # node PROVE P!Apply
BY DEF P!Next, P!ChangeGuest, P!ChangeNode, P!ChangeToken, P!Changed, P!Begin, P!Read, P!permissions, P!nodeAddresses,
       P!guests, P!Goes, P!BreakOff, P!Fail, P!Dispatch, P!guestInterfaces, P!BudgetEnds, proxmox

\* Scan, readGuests, applyHosts (UnreadIsKept): a scan replaces or clears an address only by
\* what it saw, marks only those gone that it did not see, leaves a guest that was stopped
\* all along without an address, and keeps every name, whatever the cluster, the token and
\* the budget do meanwhile, for any number of guests, addresses and slots.
THEOREM UnreadStays == PartsSpec => UnreadIsKept
<1>1. ProxmoxInv => P!TypeOK
  <2> SUFFICES ASSUME ProxmoxInv PROVE P!TypeOK
    OBVIOUS
  <2>1. /\ scan.pc \in {"idle", "permissions", "nodeAddresses", "guests", "readGuests"}
        /\ {scan.agent, scan.expired} \subseteq BOOLEAN /\ scan.node \in {None, "own", Unread}
        /\ DOMAIN scan.listed \subseteq Guests
        /\ \A g \in DOMAIN scan.ips : scan.ips[g] \in Told
    BY DEF ProxmoxInv, ProxmoxType, ScanRecord
  <2>2. P!Cardinality(scan.calls) <= Slots
    BY SameCardinality DEF ProxmoxInv, ScanSound
  <2> QED
    BY <2>1, <2>2 DEF P!TypeOK, ProxmoxInv, ProxmoxType, ScanSound, StoreRow, Told
<1>2. ProxmoxInv /\ [P!Next]_proxmox =>
        [/\ \A g \in Guests : store'[g].addr # store[g].addr =>
              \E c \in clusters : c.guests[g].addr = store'[g].addr
         /\ node' # node => \E c \in clusters : c.sys /\ c.node = node']_<<store, node>>
  <2> SUFFICES ASSUME ProxmoxInv, [P!Next]_proxmox, store' # store \/ node' # node
               PROVE  /\ \A g \in Guests : store'[g].addr # store[g].addr =>
                           \E c \in clusters : c.guests[g].addr = store'[g].addr
                      /\ node' # node => \E c \in clusters : c.sys /\ c.node = node'
    OBVIOUS
  <2>1. P!Apply
    BY OnlyApplyWrites
  <2>2. node' # node => \E c \in clusters : c.sys /\ c.node = node'
    BY <2>1 DEF P!Apply, ProxmoxInv, ScanSeen
  <2>3. ASSUME NEW g \in Guests, store'[g].addr # store[g].addr
        PROVE  \E c \in clusters : c.guests[g].addr = store'[g].addr
    <3>1. CASE g \in DOMAIN scan.listed
      <4>0. store'[g] = [state |-> "active", addr |-> P!Address(g), name |-> P!Name(g)]
        BY <2>1, <3>1, Applied
      <4>1. store'[g].addr = P!Address(g)
        BY <4>0
      <4>2. scan.ips[g] # Unread /\ store'[g].addr = scan.ips[g]
        BY <2>3, <4>1 DEF P!Address
      <4> QED
        BY <3>1, <4>2 DEF ProxmoxInv, ScanSeen
    <3>2. CASE g \notin DOMAIN scan.listed
      <4>1. store'[g] = P!markGone(g) /\ store[g] \in StoreRow
        BY <2>1, <3>2, Applied
      <4>2. store[g].state = "none" => store[g] = P!NoRow
        BY DEF ProxmoxInv, StoreSound
      <4>3. [store[g] EXCEPT !.state = "gone"].addr = store[g].addr
        BY <4>1 DEF StoreRow
      <4> QED
        BY <2>3, <4>1, <4>2, <4>3 DEF P!markGone
    <3> QED
      BY <3>1, <3>2
  <2> QED
    BY <2>2, <2>3
<1>3. ProxmoxInv /\ [P!Next]_proxmox =>
        [\A g \in Guests : store[g].state = "active" /\ store'[g].state = "gone"
           => \E c \in clusters : c.guests[g].status = "absent" \/ ~ c.audit]_store
  <2> SUFFICES ASSUME ProxmoxInv, [P!Next]_proxmox, store' # store, NEW g \in Guests,
                      store[g].state = "active", store'[g].state = "gone"
               PROVE  \E c \in clusters : c.guests[g].status = "absent" \/ ~ c.audit
    OBVIOUS
  <2>1. P!Apply
    BY OnlyApplyWrites
  <2>2. g \notin DOMAIN scan.listed /\ scan.pc = "readGuests"
    <3>1. scan.pc = "readGuests"
      BY <2>1, Applied
    <3>2. g \in DOMAIN scan.listed =>
            store'[g] = [state |-> "active", addr |-> P!Address(g), name |-> P!Name(g)]
      BY <2>1, Applied
    <3> QED
      BY <3>1, <3>2
  <2>3. PICK c \in clusters : scan.listed = P!toGuests(c)
    BY <2>2 DEF ProxmoxInv, ScanSeen
  <2>4. c \in P!Clusters
    BY DEF ProxmoxInv, ProxmoxType
  <2> QED
    BY <2>2, <2>3, <2>4, ToGuests
<1>4. ProxmoxInv /\ [P!Next]_proxmox =>
        [P!Apply => \A g \in Guests :
           (\A c \in clusters : c.audit /\ c.guests[g] = [status |-> "stopped", addr |-> None, rrd |-> TRUE])
             => store'[g] = [state |-> "active", addr |-> None, name |-> "real"]]_proxmox
  <2> SUFFICES ASSUME ProxmoxInv, P!Apply, NEW g \in Guests,
                      \A c \in clusters : c.audit /\ c.guests[g] = [status |-> "stopped", addr |-> None, rrd |-> TRUE]
               PROVE  store'[g] = [state |-> "active", addr |-> None, name |-> "real"]
    OBVIOUS
  <2>1. scan.pc = "readGuests"
    BY Applied
  <2>2. PICK c \in clusters : scan.listed = P!toGuests(c)
    BY <2>1 DEF ProxmoxInv, ScanSeen
  <2>3. c \in P!Clusters
    BY DEF ProxmoxInv, ProxmoxType
  <2>4. c.audit /\ c.guests[g].status = "stopped" /\ c.guests[g].rrd = TRUE
    OBVIOUS
  <2>5. g \in DOMAIN scan.listed /\ scan.listed[g] = P!Row(c.guests[g])
    BY <2>2, <2>3, <2>4, ToGuests
  <2>6. scan.listed[g].status = "stopped" /\ scan.listed[g].named = TRUE
    BY <2>4, <2>5 DEF P!Row
  <2>7. scan.ips[g] = None
    BY <2>5, <2>6 DEF ProxmoxInv, ScanSeen
  <2>8. P!Address(g) = None /\ P!Name(g) = "real"
    BY <2>6, <2>7, NoneAssumption DEF P!Address, P!Name
  <2> QED
    BY <2>5, <2>8, Applied
<1>5. ProxmoxInv /\ [P!Next]_proxmox =>
        [\A g \in Guests : store[g].name = "real" => store'[g].name = "real"]_store
  <2> SUFFICES ASSUME ProxmoxInv, [P!Next]_proxmox, store' # store, NEW g \in Guests,
                      store[g].name = "real"
               PROVE  store'[g].name = "real"
    OBVIOUS
  <2>1. P!Apply
    BY OnlyApplyWrites
  <2>2. store[g].state # "none"
    BY DEF ProxmoxInv, StoreSound, P!NoRow
  <2>3. CASE g \in DOMAIN scan.listed
    <3>1. store'[g] = [state |-> "active", addr |-> P!Address(g), name |-> P!Name(g)]
      BY <2>1, <2>3, Applied
    <3>2. P!Name(g) = "real"
      BY <2>2 DEF P!Name
    <3> QED
      BY <3>1, <3>2
  <2>4. CASE g \notin DOMAIN scan.listed
    <3>1. store'[g] = P!markGone(g) /\ store[g] \in StoreRow
      BY <2>1, <2>4, Applied
    <3>2. [store[g] EXCEPT !.state = "gone"].name = store[g].name
      BY <3>1 DEF StoreRow
    <3> QED
      BY <2>2, <3>1, <3>2 DEF P!markGone
  <2> QED
    BY <2>3, <2>4
<1> QED
  BY <1>1, <1>2, <1>3, <1>4, <1>5, ProxmoxInitKeeps, ProxmoxStepKeeps, PartsMoveProxmox, PTL
  DEF UnreadIsKept, P!AddressesAreEarned, P!GoneWasAbsent, P!StoppedHoldsNone, P!NamesAreKept,
      P!vars, proxmox

-----------------------------------------------------------------------------
\* RegistryScan: what a scan knows of its hosts, and who waits for whom.

Stages == {"idle", "challenged", "wait", "head", "token", "auth", "get"}
WorkerRecord == [at : Stages, sent : BOOLEAN, tag : Tags, target : Hosts]
Outcomes == {"none", "digest", "unknown", "transient"}
TokenStates == {"none", "fetching", "token", "unknown", "transient"}

\* Hosts: while one has not answered, every failure of it was a loss.
HostsInv ==
  /\ limited \subseteq Range(Registries)
  /\ answered \subseteq Hosts /\ down \subseteq Hosts
  /\ netFailures \in [Hosts -> Nat] /\ silence \in [Hosts -> Nat]
  /\ \A h \in Hosts : h \notin answered => silence[h] = netFailures[h]
  /\ DownIsSilent

WorkType ==
  /\ feed \in Seq(Tags)
  /\ worker \in [Workers -> WorkerRecord]
  /\ answers \in [Tags -> Outcomes]
  /\ tokens \in [Scopes -> TokenStates]
  /\ fetches \in [Scopes -> Nat]

\* Who waits waits for a token that was asked for, and one that is fetched is fetched by
\* a worker.
Awaited ==
  /\ \A w \in Workers : worker[w].at = "wait" => tokens[Scope(worker[w].tag)] # "none"
  /\ \A s \in Scopes : tokens[s] = "fetching" =>
       \E v \in Workers : worker[v].at = "token" /\ Scope(worker[v].tag) = s

FetchedOnce == \A s \in Scopes : fetches[s] <= 1 /\ (tokens[s] = "none" => fetches[s] = 0)

\* Whatever settled a lookup was an answer.
SettledByAnswer ==
  /\ \A t \in Tags : answers[t] \in {"digest", "unknown"} => answered # {}
  /\ \A s \in Scopes : tokens[s] \in {"token", "unknown"} => answered # {}

\* A scan that is over does nothing more.
OverIsOver ==
  /\ result \in {"none", "cancelled", "unreachable", "snapshot"}
  /\ result # "none" => feed = <<>> /\ \A w \in Workers : worker[w] = Idle
  /\ result = "unreachable" => answered = {}

RestType == day \in Days /\ context \in {"running", "deadline", "cancelled"} /\ requests \in Nat

RegistryInv ==
  HostsInv /\ WorkType /\ Awaited /\ FetchedOnce /\ SettledByAnswer /\ OverIsOver /\ RestType

LEMMA TagIs ==
  ASSUME NEW t \in Tags
  PROVE  /\ t.registry \in Range(Registries) /\ t.registry \in Hosts
         /\ TokenHost[t.registry] \in Hosts /\ MirrorHost[t.registry] \in Hosts
         /\ Scope(t) \in Scopes
<1>1. t.registry \in Range(Registries)
  BY ConfigAssumption
<1>2. TokenHost[t.registry] \in Range(TokenHost) /\ MirrorHost[t.registry] \in Range(MirrorHost)
  BY <1>1, ConfigAssumption DEF Range
<1> QED
  BY <1>1, <1>2 DEF Hosts, Scope, Scopes

LEMMA IdleWorker == Idle \in WorkerRecord /\ Idle.at = "idle"
<1>1. (CHOOSE t \in Tags : TRUE) \in Tags
  BY ConfigAssumption
<1>2. Registries[1] \in Hosts
  BY ConfigAssumption DEF Hosts, Range
<1> QED
  BY <1>1, <1>2 DEF Idle, WorkerRecord, Stages

LEMMA HostOf == ASSUME WorkType, NEW w \in Workers PROVE Host(w) \in Hosts
<1>1. worker[w] \in WorkerRecord
  BY DEF WorkType
<1>2. worker[w].tag \in Tags /\ worker[w].target \in Hosts
  BY <1>1 DEF WorkerRecord
<1> QED
  BY <1>2, TagIs DEF Host

\* Every step that learns something keeps what is known of the hosts.
LEMMA LearningKeeps ==
  ASSUME HostsInv, NEW h \in Hosts,
         \/ markAnswered(h) \/ recordFailure(h) \/ NothingLearned
         \/ UNCHANGED <<limited, answered, netFailures, down, silence>>
         \/ /\ limited' \subseteq Range(Registries)
            /\ answered' = answered \cup {h}
            /\ netFailures' = [netFailures EXCEPT ![h] = 0]
            /\ down' = down \ {h}
            /\ UNCHANGED silence
  PROVE  HostsInv' /\ answered \subseteq answered'
<1>1. CASE UNCHANGED <<limited, answered, netFailures, down, silence>>
  BY <1>1 DEF HostsInv, DownIsSilent
<1>2. CASE NothingLearned
  BY <1>1, <1>2 DEF NothingLearned, learned, history
<1>3. CASE /\ limited' \subseteq Range(Registries)
           /\ answered' = answered \cup {h}
           /\ netFailures' = [netFailures EXCEPT ![h] = 0]
           /\ down' = down \ {h}
           /\ UNCHANGED silence
  BY <1>3 DEF HostsInv, DownIsSilent
<1>4. CASE markAnswered(h)
  BY <1>3, <1>4 DEF markAnswered, history, HostsInv
<1>5. CASE recordFailure(h)
  <2>1. CASE h \in answered
    BY <1>1, <1>5, <2>1 DEF recordFailure
  <2>2. CASE h \notin answered
    <3>1. /\ netFailures' = [netFailures EXCEPT ![h] = @ + 1]
          /\ down' = IF netFailures[h] + 1 >= downAfter THEN down \cup {h} ELSE down
          /\ silence' = [silence EXCEPT ![h] = @ + 1]
          /\ UNCHANGED <<limited, answered>>
      BY <1>5, <2>2 DEF recordFailure
    <3>2. /\ netFailures[h] \in Nat /\ silence[h] = netFailures[h] /\ downAfter \in Nat
          /\ netFailures \in [Hosts -> Nat] /\ silence \in [Hosts -> Nat]
      BY <2>2, ConfigAssumption DEF HostsInv
    <3>3. /\ netFailures'[h] = netFailures[h] + 1 /\ silence'[h] = silence[h] + 1
          /\ \A g \in Hosts \ {h} : netFailures'[g] = netFailures[g] /\ silence'[g] = silence[g]
      BY <3>1, <3>2
    <3>4. netFailures' \in [Hosts -> Nat] /\ silence' \in [Hosts -> Nat] /\ down' \subseteq Hosts
      BY <3>1, <3>2 DEF HostsInv
    <3>5. \A g \in Hosts : g \notin answered' => silence'[g] = netFailures'[g]
      BY <3>1, <3>2, <3>3 DEF HostsInv
    <3>6. ASSUME NEW g \in down' PROVE g \notin answered' /\ silence'[g] >= downAfter
      <4>1. CASE g = h
        <5>1. CASE netFailures[h] + 1 >= downAfter
          BY <2>2, <3>1, <3>2, <3>3, <4>1, <5>1
        <5>2. CASE ~(netFailures[h] + 1 >= downAfter)
          <6>1. h \in down
            BY <3>1, <3>6, <4>1, <5>2
          <6>2. silence[h] >= downAfter
            BY <6>1 DEF HostsInv, DownIsSilent
          <6> QED
            BY <3>2, <5>2, <6>2
        <5> QED
          BY <5>1, <5>2
      <4>2. CASE g # h
        BY <3>1, <3>3, <3>6, <4>2 DEF HostsInv, DownIsSilent
      <4> QED
        BY <4>1, <4>2
    <3> QED
      BY <3>1, <3>4, <3>5, <3>6 DEF HostsInv, DownIsSilent
  <2> QED
    BY <2>1, <2>2
<1> QED
  BY <1>1, <1>2, <1>3, <1>4, <1>5

-----------------------------------------------------------------------------
\* The moves of a worker.

LEMMA WorkerMoves ==
  ASSUME WorkType, NEW w \in Workers, NEW r \in WorkerRecord, worker' = [worker EXCEPT ![w] = r]
  PROVE  /\ worker' \in [Workers -> WorkerRecord]
         /\ worker'[w] = r
         /\ \A v \in Workers \ {w} : worker'[v] = worker[v]
BY DEF WorkType

LEMMA GoIs ==
  ASSUME WorkType, NEW w \in Workers, NEW at \in Stages, NEW target \in Hosts, Go(w, at, target)
  PROVE  /\ worker' \in [Workers -> WorkerRecord]
         /\ worker'[w].at = at /\ worker'[w].tag = worker[w].tag /\ worker[w].tag \in Tags
         /\ \A v \in Workers \ {w} : worker'[v] = worker[v]
<1> DEFINE r == [worker[w] EXCEPT !.at = at, !.target = target, !.sent = FALSE]
<1>1. worker[w] \in WorkerRecord
  BY DEF WorkType
<1>2. [worker[w] EXCEPT !.at = at] \in WorkerRecord
  BY <1>1 DEF WorkerRecord
<1>3. [worker[w] EXCEPT !.at = at, !.target = target] \in WorkerRecord
  BY <1>2 DEF WorkerRecord
<1>4. r \in WorkerRecord /\ r.at = at /\ r.tag = worker[w].tag /\ worker[w].tag \in Tags
  BY <1>1, <1>3 DEF WorkerRecord
<1>5. worker' = [worker EXCEPT ![w] = r]
  BY DEF Go
<1> HIDE DEF r
<1> QED
  BY <1>4, <1>5, WorkerMoves

\* A lookup ends: its worker is free, and whoever waited for its token is told.
LEMMA EndIs ==
  ASSUME WorkType, Awaited, FetchedOnce, UNCHANGED <<fetches, feed>>, NEW w \in Workers, NEW out \in Outcomes \ {"none"},
         \/ End(w, out) /\ out \in {"unknown", "transient"}
         \/ Done(w, out) /\ worker[w].at # "token" /\ UNCHANGED tokens
  PROVE  /\ WorkType' /\ Awaited' /\ FetchedOnce'
         /\ \A t \in Tags : answers'[t] \in {answers[t], out}
         /\ \A s \in Scopes : tokens'[s] \in {tokens[s], out} /\ (tokens'[s] # tokens[s] => out # "digest")
<1> DEFINE k == Scope(worker[w].tag)
<1>1. worker' = [worker EXCEPT ![w] = Idle] /\ answers' = [answers EXCEPT ![worker[w].tag] = out]
  BY DEF End, Done, Free
<1>2. /\ worker' \in [Workers -> WorkerRecord] /\ worker'[w] = Idle /\ Idle.at = "idle"
      /\ \A v \in Workers \ {w} : worker'[v] = worker[v]
  BY <1>1, IdleWorker, WorkerMoves
<1>3. answers' \in [Tags -> Outcomes] /\ \A t \in Tags : answers'[t] \in {answers[t], out}
  BY <1>1 DEF WorkType
<1>4. /\ tokens' \in [Scopes -> TokenStates]
      /\ \A s \in Scopes : \/ tokens'[s] = tokens[s]
                           \/ tokens'[s] = out /\ out \in {"unknown", "transient"}
      /\ worker[w].at = "token" => \A s \in Scopes : s = k => tokens'[s] = out /\ out \in {"unknown", "transient"}
  <2>1. CASE End(w, out) /\ out \in {"unknown", "transient"} /\ worker[w].at = "token"
    <3>1. tokens' = [tokens EXCEPT ![k] = out]
      BY <2>1 DEF End
    <3> HIDE DEF k
    <3> QED
      BY <2>1, <3>1 DEF WorkType, TokenStates
  <2>2. CASE UNCHANGED tokens /\ worker[w].at # "token"
    BY <2>2 DEF WorkType
  <2> QED
    BY <2>1, <2>2 DEF End
<1> HIDE DEF k
<1>5. Awaited'
  <2>1. ASSUME NEW v \in Workers, worker'[v].at = "wait" PROVE tokens'[Scope(worker'[v].tag)] # "none"
    <3>1. v # w /\ worker'[v] = worker[v]
      BY <1>2, <2>1
    <3>2. worker[v].tag \in Tags
      BY DEF WorkType, WorkerRecord
    <3>3. Scope(worker[v].tag) \in Scopes /\ tokens[Scope(worker[v].tag)] # "none"
      BY <2>1, <3>1, <3>2, TagIs DEF Awaited
    <3> QED
      BY <1>4, <3>1, <3>3
  <2>2. ASSUME NEW s \in Scopes, tokens'[s] = "fetching"
        PROVE  \E v \in Workers : worker'[v].at = "token" /\ Scope(worker'[v].tag) = s
    <3>1. tokens[s] = "fetching"
      BY <1>4, <2>2
    <3>2. PICK v \in Workers : worker[v].at = "token" /\ Scope(worker[v].tag) = s
      BY <3>1 DEF Awaited
    <3>3. v # w
      BY <1>4, <2>2, <3>2 DEF k
    <3> QED
      BY <1>2, <3>2, <3>3
  <2> QED
    BY <2>1, <2>2 DEF Awaited, Scope
<1>6. FetchedOnce'
  BY <1>4 DEF FetchedOnce
<1> QED
  BY <1>2, <1>3, <1>4, <1>5, <1>6 DEF WorkType

\* A worker moves on, not to a wait and not from a fetch.
LEMMA MovesOn ==
  ASSUME WorkType, Awaited, FetchedOnce, UNCHANGED <<fetches, feed, answers, tokens>>, NEW w \in Workers,
         worker' \in [Workers -> WorkerRecord], worker'[w].at # "wait", worker[w].at # "token",
         \A v \in Workers \ {w} : worker'[v] = worker[v]
  PROVE  WorkType' /\ Awaited' /\ FetchedOnce'
<1>1. ASSUME NEW v \in Workers, worker'[v].at = "wait" PROVE tokens'[Scope(worker'[v].tag)] # "none"
  BY <1>1 DEF Awaited
<1>2. ASSUME NEW s \in Scopes, tokens'[s] = "fetching"
      PROVE  \E v \in Workers : worker'[v].at = "token" /\ Scope(worker'[v].tag) = s
  <2>1. PICK v \in Workers : worker[v].at = "token" /\ Scope(worker[v].tag) = s
    BY <1>2 DEF Awaited
  <2> QED
    BY <2>1
<1> QED
  BY <1>1, <1>2 DEF WorkType, Awaited, FetchedOnce, Scope

\* What ends a step of a worker: answers came if anything was settled.
LEMMA WorkKeeps ==
  ASSUME RegistryInv, HostsInv', WorkType', Awaited', FetchedOnce', answered \subseteq answered',
         UNCHANGED <<day, context, result>>, requests' \in Nat, result = "none",
         \A t \in Tags : answers'[t] \in {"digest", "unknown"} =>
           answers[t] \in {"digest", "unknown"} \/ answered' # {},
         \A s \in Scopes : tokens'[s] \in {"token", "unknown"} =>
           tokens[s] \in {"token", "unknown"} \/ answered' # {}
  PROVE  RegistryInv'
<1>1. SettledByAnswer'
  BY DEF RegistryInv, SettledByAnswer
<1> QED
  BY <1>1 DEF RegistryInv, OverIsOver, RestType

LEMMA Works ==
  ASSUME RegistryInv, NEW w \in Workers, worker[w].at # "idle"
  PROVE  result = "none" /\ worker[w] \in WorkerRecord /\ Host(w) \in Hosts /\ requests \in Nat
         /\ HostsInv /\ WorkType /\ Awaited /\ FetchedOnce
BY IdleWorker, HostOf DEF RegistryInv, OverIsOver, WorkType, RestType

-----------------------------------------------------------------------------
\* The steps of a worker.

LEMMA TakeKeeps == ASSUME RegistryInv, NEW w \in Workers, Take(w) PROVE RegistryInv'
<1> DEFINE t == Head(feed)
           r == [at |-> "head", sent |-> FALSE, tag |-> t, target |-> t.registry]
<1>1. /\ worker[w] = Idle /\ feed # <<>> /\ feed' = Tail(feed)
      /\ NothingLearned /\ UNCHANGED <<day, context, requests, tokens, result>>
  BY DEF Take
<1>2. HostsInv /\ WorkType /\ Awaited /\ FetchedOnce /\ result = "none" /\ requests \in Nat
  BY <1>1 DEF RegistryInv, OverIsOver, RestType
<1>3. UNCHANGED <<limited, answered, netFailures, down, silence, fetches>>
  BY <1>1 DEF NothingLearned, learned, history
<1>4. t \in Tags /\ feed' \in Seq(Tags)
  BY <1>1, <1>2 DEF WorkType
<1>5. HostsInv'
  BY <1>2, <1>3 DEF HostsInv, DownIsSilent
<1>6. Idle.at = "idle"
  BY IdleWorker
<1>7. CASE t.registry \in limited
  <2>1. answers' = [answers EXCEPT ![t] = "transient"] /\ UNCHANGED worker
    BY <1>7 DEF Take
  <2> HIDE DEF t
  <2>2. WorkType' /\ Awaited' /\ FetchedOnce'
    BY <1>1, <1>2, <1>3, <1>4, <2>1 DEF WorkType, Awaited, FetchedOnce, Outcomes
  <2>3. \A u \in Tags : answers'[u] \in {answers[u], "transient"}
    BY <1>2, <2>1 DEF WorkType
  <2> QED
    BY <1>1, <1>2, <1>3, <1>5, <2>2, <2>3, WorkKeeps
<1>8. CASE t.registry \notin limited
  <2>1. worker' = [worker EXCEPT ![w] = r] /\ UNCHANGED answers
    BY <1>8 DEF Take
  <2> HIDE DEF t
  <2>2. r \in WorkerRecord /\ r.at = "head"
    BY <1>4, TagIs DEF WorkerRecord, Stages
  <2> HIDE DEF r
  <2>3. /\ worker' \in [Workers -> WorkerRecord] /\ worker'[w] = r
        /\ \A v \in Workers \ {w} : worker'[v] = worker[v]
    BY <1>2, <2>1, <2>2, WorkerMoves
  <2>4. Awaited'
    <3>1. ASSUME NEW v \in Workers, worker'[v].at = "wait" PROVE tokens'[Scope(worker'[v].tag)] # "none"
      BY <1>1, <1>2, <2>2, <2>3, <3>1 DEF Awaited
    <3>2. ASSUME NEW s \in Scopes, tokens'[s] = "fetching"
          PROVE  \E v \in Workers : worker'[v].at = "token" /\ Scope(worker'[v].tag) = s
      <4>1. PICK v \in Workers : worker[v].at = "token" /\ Scope(worker[v].tag) = s
        BY <1>1, <1>2, <3>2 DEF Awaited
      <4>2. v # w
        BY <1>1, <1>6, <4>1
      <4> QED
        BY <2>3, <4>1, <4>2
    <3> QED
      BY <3>1, <3>2 DEF Awaited, Scope
  <2>5. WorkType' /\ FetchedOnce'
    BY <1>1, <1>2, <1>3, <1>4, <2>1, <2>3 DEF WorkType, FetchedOnce
  <2> QED
    BY <1>1, <1>2, <1>3, <1>5, <2>1, <2>4, <2>5, WorkKeeps
<1> QED
  BY <1>7, <1>8

\* What ends a lookup without settling it.
LEMMA TransientEnd ==
  ASSUME RegistryInv, NEW w \in Workers, worker[w].at # "idle", End(w, "transient"),
         HostsInv', answered \subseteq answered', requests' \in Nat,
         UNCHANGED <<day, context, feed, result, fetches>>
  PROVE  RegistryInv'
<1>1. HostsInv /\ WorkType /\ Awaited /\ FetchedOnce /\ result = "none"
  BY Works
<1>2. /\ WorkType' /\ Awaited' /\ FetchedOnce'
      /\ \A t \in Tags : answers'[t] \in {answers[t], "transient"}
      /\ \A s \in Scopes : tokens'[s] \in {tokens[s], "transient"}
  BY <1>1, EndIs DEF Outcomes
<1> QED
  BY <1>1, <1>2, WorkKeeps

LEMMA InFlightIs ==
  ASSUME NEW w \in Workers, InFlight(w) PROVE worker[w].at # "idle" /\ worker[w].at \in Asking
BY DEF InFlight, Asking

LEMMA SendKeeps == ASSUME RegistryInv, NEW w \in Workers, Send(w) PROVE RegistryInv'
<1>1. /\ worker[w].at \in Asking /\ worker[w].at # "idle" /\ worker[w].sent = FALSE
      /\ UNCHANGED <<day, context, feed, limited, answered, netFailures, down, result, silence, fetches>>
  <2>1. worker[w].at \in Asking /\ worker[w].at # "idle"
    BY DEF Send, Asking
  <2>2. worker[w].sent \in BOOLEAN
    BY <2>1, Works DEF WorkerRecord
  <2> QED
    BY <2>1, <2>2 DEF Send, learned
<1>2. /\ result = "none" /\ worker[w] \in WorkerRecord /\ requests \in Nat
      /\ HostsInv /\ WorkType /\ Awaited /\ FetchedOnce
  BY <1>1, Works
<1>3. HostsInv'
  BY <1>1, <1>2 DEF HostsInv, DownIsSilent
<1>4. requests' \in Nat
  BY <1>2 DEF Send
<1>5. CASE End(w, "transient")
  BY <1>1, <1>3, <1>4, <1>5, TransientEnd
<1>6. CASE worker' = [worker EXCEPT ![w].sent = TRUE] /\ UNCHANGED <<answers, tokens>>
  <2> DEFINE r == [worker[w] EXCEPT !.sent = TRUE]
  <2>1. r \in WorkerRecord /\ r.at = worker[w].at /\ r.tag = worker[w].tag
    BY <1>2 DEF WorkerRecord
  <2>2. worker' = [worker EXCEPT ![w] = r]
    BY <1>6
  <2> HIDE DEF r
  <2>3. /\ worker' \in [Workers -> WorkerRecord] /\ worker'[w] = r
        /\ \A v \in Workers \ {w} : worker'[v] = worker[v]
    BY <1>2, <2>1, <2>2, WorkerMoves
  <2>4. \A v \in Workers : worker'[v].at = worker[v].at /\ worker'[v].tag = worker[v].tag
    BY <2>1, <2>3
  <2>5. WorkType' /\ Awaited' /\ FetchedOnce'
    <3>1. ASSUME NEW v \in Workers, worker'[v].at = "wait" PROVE tokens'[Scope(worker'[v].tag)] # "none"
      BY <1>2, <1>6, <2>4, <3>1 DEF Awaited
    <3>2. ASSUME NEW s \in Scopes, tokens'[s] = "fetching"
          PROVE  \E v \in Workers : worker'[v].at = "token" /\ Scope(worker'[v].tag) = s
      BY <1>2, <1>6, <2>4, <3>2 DEF Awaited
    <3>3. Awaited'
      BY <3>1, <3>2 DEF Awaited, Scope
    <3> QED
      BY <1>1, <1>2, <1>6, <2>3, <3>3 DEF WorkType, FetchedOnce
  <2> QED
    BY <1>1, <1>2, <1>3, <1>4, <1>6, <2>5, WorkKeeps
<1> QED
  BY <1>5, <1>6 DEF Send

LEMMA LossKeeps ==
  ASSUME RegistryInv, NEW w \in Workers, Lost(w) \/ Broken(w) \/ Stranded(w) \/ TooMany(w)
  PROVE  RegistryInv'
<1>1. /\ InFlight(w) /\ End(w, "transient") /\ UNCHANGED <<day, context, feed, requests, result>>
  BY DEF Lost, Broken, Stranded, TooMany
<1>2. worker[w].at # "idle"
  BY <1>1, InFlightIs
<1>3. /\ worker[w] \in WorkerRecord /\ Host(w) \in Hosts /\ requests \in Nat
      /\ HostsInv
  BY <1>2, Works
<1>4. worker[w].tag.registry \in Range(Registries)
  BY <1>3, TagIs DEF WorkerRecord
<1>5. \/ markAnswered(Host(w)) \/ recordFailure(Host(w)) \/ NothingLearned
      \/ /\ limited' \subseteq Range(Registries)
         /\ answered' = answered \cup {Host(w)}
         /\ netFailures' = [netFailures EXCEPT ![Host(w)] = 0]
         /\ down' = down \ {Host(w)}
         /\ UNCHANGED silence
  <2>1. CASE Lost(w) \/ Broken(w) \/ Stranded(w)
    BY <2>1 DEF Lost, Broken, Stranded
  <2>2. CASE TooMany(w)
    BY <1>3, <1>4, <2>2 DEF TooMany, markLimited, history, HostsInv
  <2> QED
    BY <2>1, <2>2
<1>6. HostsInv' /\ answered \subseteq answered'
  BY <1>3, <1>5, LearningKeeps
<1>7. UNCHANGED fetches
  BY DEF Lost, Broken, Stranded, TooMany, recordFailure, markAnswered, NothingLearned, history
<1> QED
  BY <1>1, <1>2, <1>3, <1>6, <1>7, TransientEnd

\* An answer of the host makes whatever it settles settled by an answer.
LEMMA HostAnswers ==
  ASSUME RegistryInv, NEW w \in Workers, InFlight(w), markAnswered(Host(w)),
         UNCHANGED <<day, context, requests, result>>, WorkType', Awaited', FetchedOnce'
  PROVE  RegistryInv'
<1>1. worker[w].at # "idle"
  BY InFlightIs
<1>2. Host(w) \in Hosts /\ HostsInv /\ result = "none" /\ requests \in Nat
  BY <1>1, Works
<1>3. HostsInv' /\ answered \subseteq answered'
  BY <1>2, LearningKeeps
<1>4. answered' # {}
  BY DEF markAnswered
<1> QED
  BY <1>2, <1>3, <1>4, WorkKeeps

LEMMA AnswerKeeps ==
  ASSUME RegistryInv, NEW w \in Workers, NEW out \in {"digest", "nodigest", "challenge", "denied", "hiccup"},
         Answer(w, out)
  PROVE  RegistryInv'
<1>1. /\ InFlight(w) /\ worker[w].at # "token" /\ markAnswered(Host(w))
      /\ UNCHANGED <<day, context, feed, requests, tokens, result, fetches>>
  BY DEF Answer, markAnswered, history
<1>2. /\ worker[w] \in WorkerRecord /\ WorkType /\ Awaited /\ FetchedOnce /\ Host(w) \in Hosts
  BY <1>1, InFlightIs, Works
<1>3. CASE \E at \in {"get", "challenged"}, target \in Hosts : Go(w, at, target) /\ UNCHANGED answers
  <2>1. PICK at \in {"get", "challenged"}, target \in Hosts : Go(w, at, target) /\ UNCHANGED answers
    BY <1>3
  <2>2. /\ worker' \in [Workers -> WorkerRecord] /\ worker'[w].at = at
        /\ \A v \in Workers \ {w} : worker'[v] = worker[v]
    BY <1>2, <2>1, GoIs DEF Stages
  <2>3. WorkType' /\ Awaited' /\ FetchedOnce'
    BY <1>1, <1>2, <2>1, <2>2, MovesOn
  <2> QED
    BY <1>1, <2>3, HostAnswers
<1>4. CASE \E o \in {"digest", "transient", "unknown"} : Done(w, o)
  <2>1. PICK o \in {"digest", "transient", "unknown"} : Done(w, o)
    BY <1>4
  <2>2. WorkType' /\ Awaited' /\ FetchedOnce'
    BY <1>1, <1>2, <2>1, EndIs DEF Outcomes
  <2> QED
    BY <1>1, <2>2, HostAnswers
<1>5. worker[w].target \in Hosts /\ MirrorHost[worker[w].tag.registry] \in Hosts
  BY <1>2, TagIs DEF WorkerRecord
<1>6. CASE out = "nodigest" /\ worker[w].at \in {"head", "auth"}
  BY <1>3, <1>5, <1>6 DEF Answer
<1>7. CASE out = "challenge" /\ worker[w].at = "head"
  BY <1>2, <1>3, <1>5, <1>7 DEF Answer
<1>8. CASE /\ ~(out = "nodigest" /\ worker[w].at \in {"head", "auth"})
           /\ ~(out = "challenge" /\ worker[w].at = "head")
  <2>1. Done(w, CASE out = "digest" -> "digest" [] out = "hiccup" -> "transient" [] OTHER -> "unknown")
    BY <1>8 DEF Answer
  <2> QED
    BY <1>4, <2>1
<1> QED
  BY <1>6, <1>7, <1>8

LEMMA AnswerTokenKeeps ==
  ASSUME RegistryInv, NEW w \in Workers, NEW out \in {"token", "denied", "hiccup"}, AnswerToken(w, out)
  PROVE  RegistryInv'
<1> DEFINE k == Scope(worker[w].tag)
<1>1. /\ InFlight(w) /\ worker[w].at = "token" /\ markAnswered(Host(w))
      /\ UNCHANGED <<day, context, feed, requests, result, fetches>>
  BY DEF AnswerToken, markAnswered, history
<1>2. /\ worker[w] \in WorkerRecord /\ WorkType /\ Awaited /\ FetchedOnce
  BY <1>1, InFlightIs, Works
<1>3. CASE out = "token"
  <2>1. tokens' = [tokens EXCEPT ![k] = "token"] /\ Go(w, "auth", worker[w].target) /\ UNCHANGED answers
    BY <1>3 DEF AnswerToken
  <2>2. worker[w].target \in Hosts
    BY <1>2 DEF WorkerRecord
  <2>3. /\ worker' \in [Workers -> WorkerRecord] /\ worker'[w].at = "auth"
        /\ \A v \in Workers \ {w} : worker'[v] = worker[v]
    BY <1>2, <2>1, <2>2, GoIs DEF Stages
  <2>4. /\ tokens' \in [Scopes -> TokenStates]
        /\ \A s \in Scopes : tokens'[s] \in {tokens[s], "token"} /\ (s = k => tokens'[s] = "token")
    BY <1>2, <2>1 DEF WorkType, TokenStates
  <2> HIDE DEF k
  <2>5. Awaited'
    <3>1. ASSUME NEW v \in Workers, worker'[v].at = "wait" PROVE tokens'[Scope(worker'[v].tag)] # "none"
      <4>1. v # w /\ worker'[v] = worker[v]
        BY <2>3, <3>1
      <4>2. worker[v].tag \in Tags
        BY <1>2 DEF WorkType, WorkerRecord
      <4>3. Scope(worker[v].tag) \in Scopes /\ tokens[Scope(worker[v].tag)] # "none"
        BY <1>2, <3>1, <4>1, <4>2, TagIs DEF Awaited
      <4> QED
        BY <2>4, <4>1, <4>3
    <3>2. ASSUME NEW s \in Scopes, tokens'[s] = "fetching"
          PROVE  \E v \in Workers : worker'[v].at = "token" /\ Scope(worker'[v].tag) = s
      <4>1. tokens[s] = "fetching" /\ s # k
        BY <2>4, <3>2
      <4>2. PICK v \in Workers : worker[v].at = "token" /\ Scope(worker[v].tag) = s
        BY <1>2, <4>1 DEF Awaited
      <4>3. v # w
        BY <4>1, <4>2 DEF k
      <4> QED
        BY <2>3, <4>2, <4>3
    <3> QED
      BY <3>1, <3>2 DEF Awaited, Scope
  <2>6. FetchedOnce'
    BY <1>1, <1>2, <2>4 DEF FetchedOnce
  <2>7. WorkType'
    BY <1>1, <1>2, <2>1, <2>3, <2>4 DEF WorkType
  <2> QED
    BY <1>1, <2>5, <2>6, <2>7, HostAnswers
<1>4. CASE out # "token"
  <2>1. \E o \in {"transient", "unknown"} : End(w, o)
    BY <1>4 DEF AnswerToken
  <2>2. WorkType' /\ Awaited' /\ FetchedOnce'
    BY <1>1, <1>2, <2>1, EndIs DEF Outcomes
  <2> QED
    BY <1>1, <2>2, HostAnswers
<1> QED
  BY <1>3, <1>4

LEMMA AskTokenKeeps == ASSUME RegistryInv, NEW w \in Workers, AskToken(w) PROVE RegistryInv'
<1> DEFINE k == Scope(worker[w].tag)
<1>1. /\ worker[w].at = "challenged"
      /\ UNCHANGED <<day, context, feed, answers, requests, limited, answered, netFailures, down, result, silence>>
  BY DEF AskToken, learned
<1>2. /\ result = "none" /\ worker[w] \in WorkerRecord /\ requests \in Nat
      /\ HostsInv /\ WorkType /\ Awaited /\ FetchedOnce
  BY <1>1, Works
<1>3. HostsInv'
  BY <1>1, <1>2 DEF HostsInv, DownIsSilent
<1>4. worker[w].target \in Hosts /\ worker[w].tag \in Tags /\ k \in Scopes
  BY <1>2, TagIs DEF WorkerRecord
<1>5. CASE tokens[k] # "none"
  <2>1. Go(w, "wait", worker[w].target) /\ UNCHANGED <<tokens, fetches>>
    BY <1>5 DEF AskToken, IsHit
  <2>2. /\ worker' \in [Workers -> WorkerRecord] /\ worker'[w].at = "wait" /\ worker'[w].tag = worker[w].tag
        /\ \A v \in Workers \ {w} : worker'[v] = worker[v]
    BY <1>2, <1>4, <2>1, GoIs DEF Stages
  <2>3. ASSUME NEW v \in Workers, worker'[v].at = "wait" PROVE tokens[Scope(worker'[v].tag)] # "none"
    BY <1>2, <1>5, <2>2, <2>3 DEF Awaited
  <2>4. ASSUME NEW s \in Scopes, tokens[s] = "fetching"
        PROVE  \E v \in Workers : worker'[v].at = "token" /\ Scope(worker'[v].tag) = s
    <3>1. PICK v \in Workers : worker[v].at = "token" /\ Scope(worker[v].tag) = s
      BY <1>2, <2>4 DEF Awaited
    <3> QED
      BY <1>1, <2>2, <3>1
  <2>5. WorkType' /\ Awaited' /\ FetchedOnce'
    BY <1>1, <1>2, <2>1, <2>2, <2>3, <2>4 DEF WorkType, Awaited, FetchedOnce, Scope
  <2> QED
    BY <1>1, <1>2, <1>3, <2>1, <2>5, WorkKeeps
<1>6. CASE tokens[k] = "none"
  <2>1. /\ tokens' = [tokens EXCEPT ![k] = "fetching"] /\ fetches' = [fetches EXCEPT ![k] = @ + 1]
        /\ Go(w, "token", worker[w].target)
    BY <1>6 DEF AskToken, IsHit
  <2>2. /\ worker' \in [Workers -> WorkerRecord] /\ worker'[w].at = "token" /\ worker'[w].tag = worker[w].tag
        /\ \A v \in Workers \ {w} : worker'[v] = worker[v]
    BY <1>2, <1>4, <2>1, GoIs DEF Stages
  <2>3. fetches[k] = 0
    BY <1>2, <1>4, <1>6 DEF FetchedOnce
  <2>4. /\ tokens' \in [Scopes -> TokenStates] /\ fetches' \in [Scopes -> Nat]
        /\ tokens'[k] = "fetching" /\ fetches'[k] = 1
        /\ \A s \in Scopes \ {k} : tokens'[s] = tokens[s] /\ fetches'[s] = fetches[s]
    <3> HIDE DEF k
    <3> QED
      BY <1>2, <1>4, <2>1, <2>3 DEF WorkType, TokenStates
  <2>5. ASSUME NEW v \in Workers, worker'[v].at = "wait" PROVE tokens'[Scope(worker'[v].tag)] # "none"
    <3>1. v # w /\ worker'[v] = worker[v]
      BY <2>2, <2>5
    <3>2. worker[v].tag \in Tags
      BY <1>2 DEF WorkType, WorkerRecord
    <3>3. Scope(worker[v].tag) \in Scopes /\ tokens[Scope(worker[v].tag)] # "none"
      BY <1>2, <2>5, <3>1, <3>2, TagIs DEF Awaited
    <3> HIDE DEF k
    <3> QED
      BY <2>4, <3>1, <3>3
  <2>6. ASSUME NEW s \in Scopes, tokens'[s] = "fetching"
        PROVE  \E v \in Workers : worker'[v].at = "token" /\ Scope(worker'[v].tag) = s
    <3>1. CASE s = k
      BY <2>2, <3>1
    <3>2. CASE s # k
      <4>1. tokens[s] = "fetching"
        BY <2>4, <2>6, <3>2
      <4>2. PICK v \in Workers : worker[v].at = "token" /\ Scope(worker[v].tag) = s
        BY <1>2, <4>1 DEF Awaited
      <4>3. v # w
        BY <1>1, <4>2
      <4> QED
        BY <2>2, <4>2, <4>3
    <3> QED
      BY <3>1, <3>2
  <2> HIDE DEF k
  <2>7. Awaited'
    BY <2>5, <2>6 DEF Awaited, Scope
  <2>8. WorkType'
    BY <1>1, <1>2, <2>2, <2>4 DEF WorkType
  <2>10. FetchedOnce'
    <3>1. ASSUME NEW s \in Scopes PROVE fetches'[s] <= 1 /\ (tokens'[s] = "none" => fetches'[s] = 0)
      <4>1. CASE s = k
        BY <2>4, <4>1
      <4>2. CASE s # k
        BY <1>2, <2>4, <4>2 DEF FetchedOnce
      <4> QED
        BY <4>1, <4>2
    <3> QED
      BY <3>1 DEF FetchedOnce
  <2>9. \A s \in Scopes : tokens'[s] \in {"token", "unknown"} => tokens[s] \in {"token", "unknown"}
    BY <2>4
  <2> QED
    BY <1>1, <1>2, <1>3, <2>7, <2>8, <2>9, <2>10, WorkKeeps
<1>7. tokens[k] # "none" \/ tokens[k] = "none"
  OBVIOUS
<1> QED
  BY <1>5, <1>6, <1>7

LEMMA WaitKeeps == ASSUME RegistryInv, NEW w \in Workers, Wait(w) PROVE RegistryInv'
<1> DEFINE k == Scope(worker[w].tag)
<1>1. /\ worker[w].at = "wait" /\ NothingLearned /\ UNCHANGED <<day, context, feed, requests, tokens, result>>
  BY DEF Wait
<1>2. /\ result = "none" /\ worker[w] \in WorkerRecord /\ requests \in Nat
      /\ HostsInv /\ WorkType /\ Awaited /\ FetchedOnce /\ SettledByAnswer
  BY <1>1, Works DEF RegistryInv
<1>3. UNCHANGED <<limited, answered, netFailures, down, silence, fetches>>
  BY <1>1 DEF NothingLearned, learned, history
<1>4. HostsInv'
  BY <1>2, <1>3 DEF HostsInv, DownIsSilent
<1>5. worker[w].target \in Hosts /\ worker[w].tag \in Tags /\ k \in Scopes
  BY <1>2, TagIs DEF WorkerRecord
<1>6. CASE Go(w, "auth", worker[w].target) /\ UNCHANGED answers
  <2>1. /\ worker' \in [Workers -> WorkerRecord] /\ worker'[w].at = "auth"
        /\ \A v \in Workers \ {w} : worker'[v] = worker[v]
    BY <1>2, <1>5, <1>6, GoIs DEF Stages
  <2>2. WorkType' /\ Awaited' /\ FetchedOnce'
    BY <1>1, <1>2, <1>3, <1>6, <2>1, MovesOn
  <2> QED
    BY <1>1, <1>2, <1>3, <1>4, <1>6, <2>2, WorkKeeps
<1>7. ASSUME NEW o \in {"unknown", "transient"}, Done(w, o), o = "unknown" => tokens[k] = "unknown"
      PROVE  RegistryInv'
  <2>1. /\ WorkType' /\ Awaited' /\ FetchedOnce'
        /\ \A t \in Tags : answers'[t] \in {answers[t], o}
    BY <1>1, <1>2, <1>3, <1>7, EndIs DEF Outcomes
  <2>2. o = "unknown" => answered # {}
    BY <1>2, <1>5, <1>7 DEF SettledByAnswer
  <2>3. \A t \in Tags : answers'[t] \in {"digest", "unknown"} =>
          answers[t] \in {"digest", "unknown"} \/ answered' # {}
    BY <1>3, <2>1, <2>2
  <2> HIDE DEF k
  <2> QED
    BY <1>1, <1>2, <1>3, <1>4, <2>1, <2>3, WorkKeeps
<1>8. \/ Go(w, "auth", worker[w].target) /\ UNCHANGED answers
      \/ tokens[k] \in {"unknown", "transient"} /\ Done(w, tokens[k])
      \/ Done(w, "transient")
  BY DEF Wait
<1> QED
  BY <1>6, <1>7, <1>8

-----------------------------------------------------------------------------

LEMMA RegistryInitKeeps == Init => RegistryInv
<1> SUFFICES ASSUME Init PROVE RegistryInv
  OBVIOUS
<1>1. Cardinality(Tags) \in Nat
  BY ConfigAssumption, FS_CardinalityType
<1>2. feed \in [1..Cardinality(Tags) -> Tags]
  BY DEF Init, feedOrder
<1>3. feed \in Seq(Tags)
  BY <1>1, <1>2
<1>4. HostsInv
  BY ConfigAssumption DEF Init, HostsInv, DownIsSilent
<1>5. WorkType
  BY <1>3, IdleWorker DEF Init, WorkType, Outcomes, TokenStates
<1>6. Awaited /\ FetchedOnce
  BY IdleWorker DEF Init, Awaited, FetchedOnce
<1> QED
  BY <1>4, <1>5, <1>6 DEF Init, RegistryInv, SettledByAnswer, OverIsOver, RestType

LEMMA RegistryStepKeeps == RegistryInv /\ [Next]_registry => RegistryInv'
<1>1. ASSUME RegistryInv, NEW w \in Workers, Work(w) PROVE RegistryInv'
  BY <1>1, TakeKeeps, SendKeeps, LossKeeps, AnswerKeeps, AnswerTokenKeeps, AskTokenKeeps, WaitKeeps DEF Work
<1>2. ASSUME RegistryInv, ContextEnds PROVE RegistryInv'
  <2>1. /\ context' \in {"deadline", "cancelled"}
        /\ UNCHANGED <<day, feed, worker, answers, requests, tokens, limited, answered, netFailures, down, result,
                       silence, fetches>>
    BY <1>2 DEF ContextEnds, learned, history
  <2> QED
    BY <1>2, <2>1 DEF RegistryInv, HostsInv, WorkType, Awaited, FetchedOnce, SettledByAnswer, OverIsOver, RestType,
                      DownIsSilent, Scope
<1>3. ASSUME RegistryInv, BreakFeed PROVE RegistryInv'
  <2>1. /\ feed' = <<>>
        /\ UNCHANGED <<day, context, worker, answers, requests, tokens, limited, answered, netFailures, down, result,
                       silence, fetches>>
    BY <1>3 DEF BreakFeed, learned, history
  <2>2. feed' \in Seq(Tags)
    BY <2>1
  <2> QED
    BY <1>3, <2>1, <2>2 DEF RegistryInv, HostsInv, WorkType, Awaited, FetchedOnce, SettledByAnswer, OverIsOver,
                            RestType, DownIsSilent, Scope
<1>4. ASSUME RegistryInv, Finish PROVE RegistryInv'
  <2>1. /\ feed = <<>> /\ \A w \in Workers : worker[w] = Idle
        /\ result' \in {"cancelled", "unreachable", "snapshot"}
        /\ result' = "unreachable" => answered = {}
        /\ UNCHANGED <<day, context, feed, worker, answers, requests, tokens, limited, answered, netFailures, down,
                       silence, fetches>>
    BY <1>4 DEF Finish, NothingAnswered, learned, history
  <2> QED
    BY <1>4, <2>1 DEF RegistryInv, HostsInv, WorkType, Awaited, FetchedOnce, SettledByAnswer, OverIsOver, RestType,
                      DownIsSilent, Scope
<1>5. ASSUME RegistryInv, UNCHANGED registry PROVE RegistryInv'
  <2>1. UNCHANGED <<day, context, feed, worker, answers, requests, tokens, limited, answered, netFailures, down,
                    result, silence, fetches>>
    BY <1>5 DEF registry, vars, learned, history
  <2> QED
    BY <1>5, <2>1 DEF RegistryInv, HostsInv, WorkType, Awaited, FetchedOnce, SettledByAnswer, OverIsOver, RestType,
                      DownIsSilent, Scope
<1> QED
  BY <1>1, <1>2, <1>3, <1>4, <1>5 DEF Next

LEMMA PartsMoveRegistry == PartsSpec => Init /\ [][Next]_registry
<1>1. PartsInit => Init
  BY DEF PartsInit
<1>2. [PartsNext]_Parts => [Next]_registry
  <2> SUFFICES ASSUME [PartsNext]_Parts, registry' # registry PROVE Next
    OBVIOUS
  <2> QED
    BY DEF PartsNext, Rest, Parts
<1> QED
  BY <1>1, <1>2, PTL DEF PartsSpec, Parts

-----------------------------------------------------------------------------
\* What an outage costs: a host that had its chances is down, and to one that is down
\* nothing is sent.

Flying(h) == {w \in Workers : InFlight(w) /\ Host(w) = h}

OutageInv ==
  /\ \A h \in Hosts \ answered : silence[h] >= downAfter => h \in down
  /\ OutageIsCheap

LEMMA WorkersAreFinite ==
  ASSUME NEW S \in SUBSET Workers
  PROVE  IsFiniteSet(S) /\ Cardinality(S) \in Nat /\ Cardinality(S) <= Cardinality(Workers)
         /\ Cardinality(Workers) \in Nat
BY ConfigAssumption, FS_Subset, FS_CardinalityType

\* No host gets another request: those in flight for it stay, or become fewer.
NoneDeparts == \A h \in Hosts : Flying(h)' \subseteq Flying(h)

LEMMA NoneDepartsKeeps ==
  ASSUME HostsInv, OutageInv, NoneDeparts, UNCHANGED silence, answered \subseteq answered',
         \A h \in Hosts \ answered' : h \in down => h \in down'
  PROVE  OutageInv'
<1> SUFFICES ASSUME NEW h \in Hosts \ answered'
             PROVE  /\ silence'[h] >= downAfter => h \in down'
                    /\ silence'[h] + Cardinality(Flying(h)') < downAfter + Cardinality(Workers)
  BY DEF OutageInv, OutageIsCheap, Flying
<1>1. h \in Hosts \ answered /\ silence[h] \in Nat /\ downAfter \in Nat
  BY ConfigAssumption DEF HostsInv
<1>2. silence[h] + Cardinality(Flying(h)) < downAfter + Cardinality(Workers)
  BY <1>1 DEF OutageInv, OutageIsCheap, Flying
<1>3. Flying(h) \in SUBSET Workers
  BY DEF Flying
<1>4. Flying(h)' \in SUBSET Flying(h)
  BY DEF NoneDeparts
<1>5. /\ Cardinality(Flying(h)') <= Cardinality(Flying(h))
      /\ Cardinality(Flying(h)') \in Nat /\ Cardinality(Flying(h)) \in Nat /\ Cardinality(Workers) \in Nat
  BY <1>3, <1>4, WorkersAreFinite, FS_Subset, FS_CardinalityType
<1> QED
  BY <1>1, <1>2, <1>5 DEF OutageInv

\* A worker that does anything but send has nothing under way after it.
Lands(w) == worker'[w].sent = FALSE /\ \A v \in Workers \ {w} : worker'[v] = worker[v]

LEMMA LandsIs ==
  ASSUME WorkType, NEW w \in Workers,
         \/ Free(w)
         \/ \E at \in Stages, target \in Hosts : Go(w, at, target)
         \/ \E t \in Tags : worker' = [worker EXCEPT ![w] =
              [at |-> "head", sent |-> FALSE, tag |-> t, target |-> t.registry]]
  PROVE  Lands(w)
<1>1. worker \in [Workers -> WorkerRecord] /\ worker[w] \in WorkerRecord
  BY DEF WorkType
<1>2. CASE Free(w)
  BY <1>1, <1>2 DEF Free, Idle, Lands
<1>3. CASE \E at \in Stages, target \in Hosts : Go(w, at, target)
  <2>1. PICK at \in Stages, target \in Hosts : Go(w, at, target)
    BY <1>3
  <2>2. worker' = [worker EXCEPT ![w] = [worker[w] EXCEPT !.at = at, !.target = target, !.sent = FALSE]]
    BY <2>1 DEF Go
  <2> QED
    BY <1>1, <2>2 DEF Lands, WorkerRecord
<1>4. CASE \E t \in Tags : worker' = [worker EXCEPT ![w] =
              [at |-> "head", sent |-> FALSE, tag |-> t, target |-> t.registry]]
  BY <1>1, <1>4 DEF Lands
<1> QED
  BY <1>2, <1>3, <1>4

LEMMA LandingDepartsNone ==
  ASSUME NEW w \in Workers, Lands(w)
  PROVE  NoneDeparts /\ \A h \in Hosts : w \notin Flying(h)'
<1>1. ~InFlight(w)'
  BY DEF Lands, InFlight
<1>2. ASSUME NEW v \in Workers \ {w} PROVE (InFlight(v)' <=> InFlight(v)) /\ Host(v)' = Host(v)
  BY DEF Lands, InFlight, Host
<1> QED
  BY <1>1, <1>2 DEF NoneDeparts, Flying

\* Nothing departs, and what the step learns keeps whoever is down and did not answer.
LEMMA LearningIsCheap ==
  ASSUME HostsInv, OutageInv, NoneDeparts, NEW h \in Hosts,
         \/ markAnswered(h)
         \/ UNCHANGED <<answered, down, silence>>
         \/ answered' = answered \cup {h} /\ down' = down \ {h} /\ UNCHANGED silence
  PROVE  OutageInv'
BY NoneDepartsKeeps DEF markAnswered, history

LEMMA LossIsCheap ==
  ASSUME RegistryInv, OutageInv, NEW w \in Workers, Lost(w)
  PROVE  OutageInv'
<1>1. InFlight(w) /\ Free(w) /\ worker[w].at # "idle"
  BY InFlightIs DEF Lost, End, Done
<1>2. HostsInv /\ WorkType /\ Host(w) \in Hosts
  BY <1>1, Works
<1> SUFFICES ASSUME NEW h \in Hosts, h = Host(w) PROVE OutageInv'
  BY <1>2
<1>3. Lands(w)
  BY <1>1, <1>2, LandsIs
<1>4. NoneDeparts /\ w \notin Flying(h)' /\ w \in Flying(h) /\ Flying(h)' \in SUBSET Flying(h)
  BY <1>1, <1>2, <1>3, LandingDepartsNone DEF NoneDeparts, Flying
<1>5. CASE NothingLearned \/ (recordFailure(h) /\ h \in answered)
  <2>1. UNCHANGED <<answered, down, silence>>
    BY <1>5 DEF NothingLearned, learned, history, recordFailure
  <2> QED
    BY <1>2, <1>4, <2>1, LearningIsCheap
<1>6. CASE recordFailure(h) /\ h \notin answered
  <2>1. /\ down' = IF netFailures[h] + 1 >= downAfter THEN down \cup {h} ELSE down
        /\ silence' = [silence EXCEPT ![h] = @ + 1] /\ UNCHANGED answered
    BY <1>6 DEF recordFailure
  <2>2. /\ silence \in [Hosts -> Nat] /\ downAfter \in Nat /\ silence[h] = netFailures[h]
    BY <1>2, <1>6, ConfigAssumption DEF HostsInv
  <2> SUFFICES ASSUME NEW g \in Hosts \ answered
               PROVE  /\ silence'[g] >= downAfter => g \in down'
                      /\ silence'[g] + Cardinality(Flying(g)') < downAfter + Cardinality(Workers)
    BY <2>1 DEF OutageInv, OutageIsCheap, Flying
  <2>3. silence[g] + Cardinality(Flying(g)) < downAfter + Cardinality(Workers)
    BY DEF OutageInv, OutageIsCheap, Flying
  <2>4. Flying(g) \in SUBSET Workers /\ Flying(g)' \in SUBSET Flying(g)
    BY <1>4 DEF Flying, NoneDeparts
  <2>5. /\ Cardinality(Flying(g)') <= Cardinality(Flying(g)) /\ IsFiniteSet(Flying(g))
        /\ Cardinality(Flying(g)') \in Nat /\ Cardinality(Flying(g)) \in Nat /\ Cardinality(Workers) \in Nat
    BY <2>4, WorkersAreFinite, FS_Subset, FS_CardinalityType
  <2>6. CASE g = h
    <3>1. Flying(g)' \in SUBSET (Flying(g) \ {w}) /\ w \in Flying(g)
      BY <1>4, <2>4, <2>6
    <3>2. IsFiniteSet(Flying(g) \ {w}) /\ Cardinality(Flying(g) \ {w}) = Cardinality(Flying(g)) - 1
      BY <2>5, <3>1, FS_RemoveElement
    <3>3. Cardinality(Flying(g)') <= Cardinality(Flying(g)) - 1
      BY <3>1, <3>2, FS_Subset
    <3>4. silence'[g] = silence[g] + 1 /\ silence[g] \in Nat
      BY <2>1, <2>2, <2>6
    <3>5. silence'[g] >= downAfter => g \in down'
      BY <2>1, <2>2, <2>6, <3>4
    <3> QED
      BY <2>2, <2>3, <2>5, <3>3, <3>4, <3>5
  <2>7. CASE g # h
    <3>1. silence'[g] = silence[g] /\ silence[g] \in Nat /\ (g \in down => g \in down')
      BY <2>1, <2>2, <2>7
    <3> QED
      BY <2>2, <2>3, <2>5, <3>1 DEF OutageInv
  <2> QED
    BY <2>6, <2>7
<1> QED
  BY <1>5, <1>6 DEF Lost

LEMMA SendIsCheap ==
  ASSUME RegistryInv, OutageInv, NEW w \in Workers, Send(w)
  PROVE  OutageInv'
<1>1. /\ worker[w].at # "idle" /\ UNCHANGED <<answered, down, silence>>
  BY DEF Send, Asking, learned
<1>2. HostsInv /\ WorkType /\ Host(w) \in Hosts /\ worker[w] \in WorkerRecord
  BY <1>1, Works
<1>3. CASE Free(w)
  <2>1. NoneDeparts
    BY <1>2, <1>3, LandsIs, LandingDepartsNone
  <2> QED
    BY <1>1, <1>2, <2>1, LearningIsCheap
<1>4. CASE worker' = [worker EXCEPT ![w].sent = TRUE] /\ Host(w) \notin down
  <2>1. /\ \A v \in Workers \ {w} : worker'[v] = worker[v]
        /\ worker'[w].at = worker[w].at /\ worker'[w].tag = worker[w].tag /\ worker'[w].target = worker[w].target
    BY <1>2, <1>4 DEF WorkType, WorkerRecord
  <2>2. ASSUME NEW v \in Workers PROVE Host(v)' = Host(v)
    BY <2>1 DEF Host
  <2>3. ASSUME NEW v \in Workers \ {w} PROVE InFlight(v)' <=> InFlight(v)
    BY <2>1 DEF InFlight
  <2> SUFFICES ASSUME NEW g \in Hosts \ answered
               PROVE  silence[g] + Cardinality(Flying(g)') < downAfter + Cardinality(Workers)
    BY <1>1 DEF OutageInv, OutageIsCheap, Flying
  <2>4. silence[g] \in Nat /\ downAfter \in Nat
    BY <1>2, ConfigAssumption DEF HostsInv
  <2>5. CASE g = Host(w)
    <3>1. silence[g] < downAfter
      BY <1>4, <2>4, <2>5 DEF OutageInv
    <3>2. Flying(g)' \in SUBSET Workers
      BY DEF Flying
    <3>3. /\ Cardinality(Flying(g)') <= Cardinality(Workers)
          /\ Cardinality(Flying(g)') \in Nat /\ Cardinality(Workers) \in Nat
      BY <3>2, WorkersAreFinite
    <3> QED
      BY <2>4, <3>1, <3>3
  <2>6. CASE g # Host(w)
    <3>1. Flying(g)' = Flying(g)
      BY <2>2, <2>3, <2>6 DEF Flying
    <3> QED
      BY <3>1 DEF OutageInv, OutageIsCheap, Flying
  <2> QED
    BY <2>5, <2>6
<1> QED
  BY <1>3, <1>4 DEF Send, IsDown, End, Done

LEMMA WorkIsCheap ==
  ASSUME RegistryInv, OutageInv, NEW w \in Workers, Work(w)
  PROVE  OutageInv'
<1>1. HostsInv /\ WorkType
  BY DEF RegistryInv
<1>2. Host(w) \in Hosts /\ worker[w] \in WorkerRecord /\ worker[w].tag \in Tags /\ worker[w].target \in Hosts
  BY <1>1, HostOf DEF WorkType, WorkerRecord
<1>3. CASE Take(w)
  <2>1. Head(feed) \in Tags
    BY <1>1, <1>3 DEF WorkType, Take
  <2>2. UNCHANGED <<answered, down, silence>>
    BY <1>3 DEF Take, NothingLearned, learned, history
  <2>3. UNCHANGED worker => NoneDeparts
    BY DEF NoneDeparts, Flying, InFlight, Host
  <2>4. NoneDeparts
    BY <1>1, <1>3, <2>1, <2>3, LandsIs, LandingDepartsNone DEF Take
  <2> QED
    BY <1>1, <1>2, <2>2, <2>4, LearningIsCheap
<1>4. CASE Broken(w) \/ Stranded(w) \/ TooMany(w)
  <2>1. NoneDeparts
    BY <1>1, <1>4, LandsIs, LandingDepartsNone DEF Broken, Stranded, TooMany, End, Done
  <2> QED
    BY <1>1, <1>2, <1>4, <2>1, LearningIsCheap DEF Broken, Stranded, TooMany, NothingLearned, learned, history
<1>5. CASE \E out \in {"digest", "nodigest", "challenge", "denied", "hiccup"} : Answer(w, out)
  <2>1. markAnswered(Host(w))
    BY <1>5 DEF Answer
  <2>2. MirrorHost[worker[w].tag.registry] \in Hosts
    BY <1>2, TagIs
  <2>3. Free(w) \/ \E at \in Stages, target \in Hosts : Go(w, at, target)
    BY <1>2, <1>5, <2>2 DEF Answer, Done, Stages
  <2> QED
    BY <1>1, <1>2, <2>1, <2>3, LandsIs, LandingDepartsNone, LearningIsCheap
<1>6. CASE \E out \in {"token", "denied", "hiccup"} : AnswerToken(w, out)
  <2>1. markAnswered(Host(w))
    BY <1>6 DEF AnswerToken
  <2>2. Free(w) \/ \E at \in Stages, target \in Hosts : Go(w, at, target)
    BY <1>2, <1>6 DEF AnswerToken, End, Done, Stages
  <2> QED
    BY <1>1, <1>2, <2>1, <2>2, LandsIs, LandingDepartsNone, LearningIsCheap
<1>7. CASE AskToken(w) \/ Wait(w)
  <2>1. UNCHANGED <<answered, down, silence>>
    BY <1>7 DEF AskToken, Wait, NothingLearned, learned, history
  <2>2. Free(w) \/ \E at \in Stages, target \in Hosts : Go(w, at, target)
    BY <1>2, <1>7 DEF AskToken, Wait, Done, Stages
  <2> QED
    BY <1>1, <1>2, <2>1, <2>2, LandsIs, LandingDepartsNone, LearningIsCheap
<1> QED
  BY <1>3, <1>4, <1>5, <1>6, <1>7, LossIsCheap, SendIsCheap DEF Work

LEMMA OutageInitKeeps == Init => OutageInv
<1> SUFFICES ASSUME Init PROVE OutageInv
  OBVIOUS
<1>1. \A h \in Hosts : silence[h] = 0
  BY DEF Init
<1>2. \A h \in Hosts : Flying(h) = {}
  BY IdleWorker DEF Init, Flying, InFlight, Asking
<1>3. Cardinality({}) = 0 /\ Cardinality(Workers) \in Nat /\ downAfter \in Nat /\ downAfter > 0
  BY ConfigAssumption, FS_EmptySet, FS_CardinalityType
<1>4. \A h \in Hosts : silence[h] + Cardinality(Flying(h)) < downAfter + Cardinality(Workers)
  BY <1>1, <1>2, <1>3
<1> QED
  BY <1>1, <1>3, <1>4 DEF OutageInv, OutageIsCheap, Flying

LEMMA OutageStepKeeps == RegistryInv /\ OutageInv /\ [Next]_registry => OutageInv'
<1> SUFFICES ASSUME RegistryInv, OutageInv, [Next]_registry PROVE OutageInv'
  OBVIOUS
<1>1. CASE \E w \in Workers : Work(w)
  BY <1>1, WorkIsCheap
<1>2. CASE ContextEnds \/ BreakFeed \/ Finish \/ UNCHANGED registry
  <2>1. UNCHANGED <<worker, answered, down, silence>>
    BY <1>2 DEF ContextEnds, BreakFeed, Finish, registry, vars, learned, history
  <2> QED
    BY <2>1 DEF OutageInv, OutageIsCheap, InFlight, Host
<1> QED
  BY <1>1, <1>2 DEF Next

\* session, recordFailure, Scan (OutagesAreContained): no host is given up that ever answered
\* or was not given downAfter chances, however late its answers come; a host that never
\* answers costs as many requests as there are workers and downAfter - 1 more; and a scan that
\* ends as unreachable had settled no lookup, for any number of workers, tags and registries.
THEOREM OutagesStayContained == PartsSpec => []OutagesAreContained
<1>1. RegistryInv /\ OutageInv => OutagesAreContained
  <2> SUFFICES ASSUME RegistryInv, OutageInv PROVE TypeOK /\ DownIsSilent /\ OutageIsCheap /\ FailureLosesNothing
    BY DEF OutagesAreContained
  <2>1. TypeOK
    BY DEF TypeOK, RegistryInv, HostsInv, WorkType, OverIsOver, RestType, WorkerRecord, Stages, Asking, Outcomes,
           TokenStates
  <2>2. FailureLosesNothing
    BY DEF FailureLosesNothing, RegistryInv, OverIsOver, SettledByAnswer
  <2> QED
    BY <2>1, <2>2 DEF RegistryInv, HostsInv, OutageInv
<1> QED
  BY <1>1, RegistryInitKeeps, RegistryStepKeeps, OutageInitKeeps, OutageStepKeeps, PartsMoveRegistry, PTL

-----------------------------------------------------------------------------
\* The order of the lookups.

\* Where rotation puts a place, and that it puts each place first on some day.
LEMMA Rotation ==
  ASSUME NEW n \in Nat \ {0}, NEW p \in 0..(n - 1), NEW d \in Nat
  PROVE  /\ d % n \in 0..(n - 1)
         /\ (p + (n - (d % n))) % n =
              IF d % n <= p THEN p - (d % n) ELSE (p + n) - (d % n)
<1>1. d % n \in 0..(n - 1)
  OBVIOUS
<1>2. \A m \in 0..(n - 1) : m % n = m /\ (m + n) % n = m
  OBVIOUS
<1> QED
  BY <1>1, <1>2

LEMMA ComingRound ==
  ASSUME NEW n \in Nat \ {0}, NEW p \in 0..(n - 1), NEW d \in Nat
  PROVE  \E e \in d..(d + (n - 1)) : e % n = p
<1> DEFINE q == d \div n
           r == d % n
<1>1. r \in 0..(n - 1) /\ d = n * q + r /\ q \in Nat
  OBVIOUS
<1> HIDE DEF q, r
<1>2. \A m \in 0..(n - 1), k \in Nat : (n * k + m) % n = m
  <2> SUFFICES ASSUME NEW m \in 0..(n - 1), NEW k \in Nat PROVE (n * k + m) % n = m
    OBVIOUS
  <2> DEFINE x == n * k + m
  <2>1. x \in Nat
    OBVIOUS
  <2> HIDE DEF x
  <2>2. x % n \in 0..(n - 1) /\ x = n * (x \div n) + (x % n) /\ x \div n \in Nat
    BY <2>1
  <2>3. n * k + m = n * (x \div n) + (x % n)
    BY <2>2 DEF x
  <2>4. n * (k - (x \div n)) = (x % n) - m
    BY <2>2, <2>3
  <2>5. k - (x \div n) = 0
    <3> DEFINE z == k - (x \div n)
    <3>1. z \in Int /\ n * z \in (1 - n)..(n - 1)
      BY <2>2, <2>4
    <3> HIDE DEF z
    <3>2. z >= 1 => n * z >= n
      BY <3>1
    <3>3. z <= -1 => n * z <= -n
      BY <3>1
    <3>4. z = 0
      BY <3>1, <3>2, <3>3
    <3> QED
      BY <3>4 DEF z
  <2> QED
    BY <2>2, <2>4, <2>5 DEF x
<1>3. CASE r <= p
  <2>1. d + (p - r) = n * q + p /\ d + (p - r) \in d..(d + (n - 1))
    BY <1>1, <1>3
  <2> QED
    BY <1>1, <1>2, <2>1
<1>4. CASE ~(r <= p)
  <2>1. d + ((n + p) - r) = n * (q + 1) + p /\ d + ((n + p) - r) \in d..(d + (n - 1))
    BY <1>1, <1>4
  <2>2. (n * (q + 1) + p) % n = p
    BY <1>1, <1>2
  <2>3. (d + ((n + p) - r)) % n = p
    BY <2>1, <2>2
  <2> QED
    BY <2>1, <2>3
<1> QED
  BY <1>3, <1>4

Place(t) == Cardinality({u \in Fellows(t) : u.name < t.name})
Size(t) == Cardinality(Fellows(t))

\* The places of a registry's tags are distinct, and below their number; so are their turns.
LEMMA PlaceIs ==
  ASSUME NEW t \in Tags
  PROVE  /\ t \in Fellows(t) /\ IsFiniteSet(Fellows(t))
         /\ Size(t) \in Nat \ {0} /\ Place(t) \in 0..(Size(t) - 1)
         /\ \A u \in Fellows(t) : /\ u \in Tags /\ Fellows(u) = Fellows(t)
                                  /\ Place(u) = Place(t) => u = t
<1> DEFINE below(x) == {u \in Fellows(t) : u.name < x.name}
<1>1. IsFiniteSet(Fellows(t)) /\ t \in Fellows(t)
  BY ConfigAssumption, FS_Subset DEF Fellows
<1>2. \A u \in Fellows(t) : u \in Tags /\ Fellows(u) = Fellows(t) /\ u.name \in Nat
  BY ConfigAssumption DEF Fellows
<1>3. Size(t) \in Nat /\ Size(t) # 0
  BY <1>1, FS_CardinalityType, FS_EmptySet DEF Size
<1>4. Place(t) \in Nat /\ Place(t) < Size(t)
  <2>1. IsFiniteSet(Fellows(t) \ {t}) /\ Cardinality(Fellows(t) \ {t}) = Size(t) - 1
    BY <1>1, FS_RemoveElement DEF Size
  <2>2. below(t) \in SUBSET (Fellows(t) \ {t})
    BY <1>2
  <2>3. IsFiniteSet(below(t)) /\ Cardinality(below(t)) <= Size(t) - 1
    BY <2>1, <2>2, FS_Subset
  <2> QED
    BY <1>3, <2>3, FS_CardinalityType DEF Place
<1>5. ASSUME NEW x \in Fellows(t), NEW y \in Fellows(t), x.name < y.name
      PROVE  Cardinality(below(x)) # Cardinality(below(y))
  <2>1. below(y) \in SUBSET Fellows(t) /\ below(x) \in SUBSET below(y)
    BY <1>2, <1>5
  <2>2. IsFiniteSet(below(y))
    BY <1>1, <2>1, FS_Subset
  <2>3. x \in below(y) /\ x \notin below(x)
    BY <1>2, <1>5
  <2> HIDE DEF below
  <2> QED
    BY <2>1, <2>2, <2>3, FS_Subset
<1>6. \A u \in Fellows(t) : Place(u) = Cardinality(below(u))
  BY <1>2 DEF Place
<1>7. ASSUME NEW u \in Fellows(t), Place(u) = Place(t) PROVE u = t
  <2>1. Cardinality(below(u)) = Cardinality(below(t))
    BY <1>1, <1>6, <1>7
  <2> HIDE DEF below
  <2>2. ~(u.name < t.name) /\ ~(t.name < u.name)
    BY <1>1, <1>5, <2>1
  <2>3. u.name = t.name /\ u.registry = t.registry
    BY <1>1, <1>2, <2>2 DEF Fellows
  <2> QED
    BY <1>2, <2>3, ConfigAssumption
<1> QED
  BY <1>1, <1>2, <1>3, <1>4, <1>7

LEMMA TurnIs ==
  ASSUME NEW t \in Tags, NEW d \in Nat
  PROVE  /\ Turn(t, d) \in 0..(Size(t) - 1)
         /\ \A u \in Fellows(t) : Turn(u, d) = Turn(t, d) => u = t
<1>1. \A u \in Tags : Turn(u, d) = (Place(u) + (Size(u) - (d % Size(u)))) % Size(u)
  BY DEF Turn, Place, Size
<1> DEFINE n == Size(t)
           q == d % n
<1>2. \A u \in Fellows(t) : /\ u \in Tags /\ Size(u) = n /\ Place(u) \in 0..(n - 1)
                            /\ Place(u) = Place(t) => u = t
  BY PlaceIs DEF Size
<1>3. n \in Nat \ {0} /\ t \in Fellows(t)
  BY PlaceIs
<1> HIDE DEF n
<1>4. \A u \in Fellows(t) : /\ q \in 0..(n - 1)
                            /\ (Place(u) + (n - q)) % n =
                                 IF q <= Place(u) THEN Place(u) - q ELSE (Place(u) + n) - q
  BY <1>2, <1>3, Rotation
<1>5. \A u \in Fellows(t) : Turn(u, d) = (Place(u) + (n - q)) % n
  BY <1>1, <1>2
<1> HIDE DEF q
<1>6. \A u \in Fellows(t) : Turn(u, d) = IF q <= Place(u) THEN Place(u) - q ELSE (Place(u) + n) - q
  BY <1>4, <1>5
<1>7. Turn(t, d) \in 0..(n - 1)
  BY <1>2, <1>3, <1>4, <1>6
<1>8. ASSUME NEW u \in Fellows(t), Turn(u, d) = Turn(t, d) PROVE u = t
  BY <1>2, <1>3, <1>4, <1>6, <1>8
<1> QED
  BY <1>7, <1>8 DEF n

LEMMA TurnIsNat == ASSUME NEW t \in Tags, NEW d \in Nat PROVE Turn(t, d) \in Nat
<1>1. Size(t) \in Nat \ {0} /\ Turn(t, d) \in 0..(Size(t) - 1)
  BY PlaceIs, TurnIs
<1> QED
  BY <1>1

LEMMA ComesFirst ==
  ASSUME NEW t \in Tags, NEW d \in Nat
  PROVE  \E e \in d..(d + Size(t) - 1) : e \in Nat /\ Turn(t, e) = 0
<1>1. Size(t) \in Nat \ {0} /\ Place(t) \in 0..(Size(t) - 1)
  BY PlaceIs
<1>2. PICK e \in d..(d + (Size(t) - 1)) : e % Size(t) = Place(t)
  BY <1>1, ComingRound
<1>3. e \in Nat
  BY <1>1, <1>2
<1>4. (Place(t) + (Size(t) - (e % Size(t)))) % Size(t) = 0
  BY <1>1, <1>2, <1>3, Rotation
<1> QED
  BY <1>1, <1>2, <1>3, <1>4 DEF Turn, Place, Size

\* How many tags of a registry have one of the first turns.
LEMMA FewTurns ==
  ASSUME NEW t \in Tags, NEW d \in Nat, NEW S \in SUBSET Fellows(t), NEW k \in Nat,
         \A v \in S : Turn(v, d) <= k
  PROVE  Cardinality(S) <= k + 1
<1> DEFINE f == [v \in S |-> Turn(v, d)]
<1>1. \A v \in S : v \in Tags /\ Turn(v, d) \in 0..k
  BY PlaceIs, TurnIs
<1>2. \A u, v \in S : Turn(u, d) = Turn(v, d) => u = v
  BY PlaceIs, TurnIs
<1>3. f \in Injection(S, 0..k)
  BY <1>1, <1>2 DEF Injection, IsInjective
<1>4. IsFiniteSet(0..k) /\ Cardinality(0..k) = k + 1
  BY FS_Interval
<1> HIDE DEF f
<1> QED
  BY <1>3, <1>4, FS_Injection

LEMMA ManyTurns ==
  ASSUME NEW t \in Tags, NEW d \in Nat, NEW S \in SUBSET Fellows(t), NEW k \in Nat, k < Size(t),
         \A v \in Fellows(t) : Turn(v, d) <= k => v \in S
  PROVE  Cardinality(S) >= k + 1
<1> DEFINE rest == Fellows(t) \ S
           f == [v \in rest |-> Turn(v, d)]
<1>1. Size(t) \in Nat \ {0} /\ IsFiniteSet(Fellows(t))
  BY PlaceIs
<1>2. \A v \in Fellows(t) : v \in Tags /\ Size(v) = Size(t) /\ Turn(v, d) \in 0..(Size(t) - 1)
  <2>1. \A v \in Fellows(t) : v \in Tags /\ Size(v) = Size(t)
    BY PlaceIs DEF Size
  <2> QED
    BY <2>1, TurnIs
<1>3. \A v \in rest : Turn(v, d) \in (k + 1)..(Size(t) - 1)
  BY <1>1, <1>2
<1>4. \A u, v \in rest : Turn(u, d) = Turn(v, d) => u = v
  BY PlaceIs, TurnIs
<1>5. f \in Injection(rest, (k + 1)..(Size(t) - 1))
  BY <1>3, <1>4 DEF Injection, IsInjective
<1>6. /\ IsFiniteSet((k + 1)..(Size(t) - 1))
      /\ Cardinality((k + 1)..(Size(t) - 1)) = (Size(t) - 1) - k
  <2> DEFINE b == Size(t) - 1
  <2>1. b \in Int /\ k + 1 \in Int /\ k <= b
    BY <1>1
  <2> HIDE DEF b
  <2>2. IsFiniteSet((k + 1)..b) /\ Cardinality((k + 1)..b) = IF k + 1 > b THEN 0 ELSE b - (k + 1) + 1
    BY <2>1, FS_Interval
  <2>3. Cardinality((k + 1)..b) = b - k
    BY <2>1, <2>2
  <2> QED
    BY <2>2, <2>3 DEF b
<1>7. Cardinality(rest) <= (Size(t) - 1) - k
  <2> HIDE DEF f, rest
  <2> QED
    BY <1>5, <1>6, FS_Injection
<1>8. Cardinality(rest) = Size(t) - Cardinality(S)
  <2>1. Fellows(t) \cap S = S
    OBVIOUS
  <2> QED
    BY <1>1, <2>1, FS_Difference DEF Size
<1>9. Cardinality(S) \in Nat
  BY <1>1, FS_Subset, FS_CardinalityType
<1> HIDE DEF rest
<1> QED
  BY <1>1, <1>7, <1>8, <1>9

\* The feed is in that order, and what waits behind a tag is all that comes after it.
FeedInv ==
  /\ \A i, j \in DOMAIN feed :
       i < j => feed[i] # feed[j] /\ Turn(feed[i], day) <= Turn(feed[j], day)
  /\ context = "running" =>
       \A t \in Range(feed), u \in Tags : Turn(t, day) < Turn(u, day) => u \in Range(feed)

LEMMA BeforeIs ==
  ASSUME NEW t \in Tags, NEW u \in Tags, NEW d \in Nat, Before(t, u, d)
  PROVE  t # u /\ Turn(t, d) <= Turn(u, d)
<1>1. Turn(t, d) \in Nat /\ Turn(u, d) \in Nat
  BY TurnIsNat
<1>2. DOMAIN Registries \subseteq Nat
  BY ConfigAssumption
<1>3. \A i, j \in DOMAIN Registries : Registries[i] = Registries[j] => i = j
  BY ConfigAssumption DEF IsInjective
<1> QED
  BY <1>1, <1>2, <1>3 DEF Before

LEMMA FeedInvInit == Init => FeedInv
<1> SUFFICES ASSUME Init PROVE FeedInv
  OBVIOUS
<1> DEFINE n == Cardinality(Tags)
<1>1. n \in Nat /\ IsFiniteSet(Tags)
  BY ConfigAssumption, FS_CardinalityType
<1>2. day \in Nat
  BY ConfigAssumption DEF Init
<1>3. feed \in [1..n -> Tags] /\ \A i, j \in 1..n : i < j => Before(feed[i], feed[j], day)
  BY DEF Init, feedOrder
<1> HIDE DEF n
<1>4. \A i, j \in 1..n : i < j => feed[i] # feed[j] /\ Turn(feed[i], day) <= Turn(feed[j], day)
  BY <1>2, <1>3, BeforeIs
<1>5. \A i, j \in 1..n : feed[i] = feed[j] => i = j
  BY <1>1, <1>4
<1>6. feed \in Injection(1..n, Tags)
  BY <1>3, <1>5 DEF Injection, IsInjective
<1>7. IsFiniteSet(1..n) /\ Cardinality(1..n) = n
  BY <1>1, FS_Interval
<1>8. feed \in Surjection(1..n, Tags)
  BY <1>1, <1>6, <1>7, FS_Injection DEF n
<1>9. Tags \subseteq Range(feed)
  BY <1>3, <1>8 DEF Surjection, Range
<1> QED
  BY <1>3, <1>4, <1>9 DEF FeedInv

\* The rest of a feed is the feed without its first tag.
LEMMA TailIs ==
  ASSUME NEW f \in Seq(Tags), f # <<>>
  PROVE  /\ Head(f) \in Tags /\ Tail(f) \in Seq(Tags) /\ Head(f) = f[1] /\ 1 \in DOMAIN f
         /\ \A i \in DOMAIN Tail(f) : i + 1 \in DOMAIN f /\ i \in Nat /\ 1 < i + 1 /\ Tail(f)[i] = f[i + 1]
         /\ Range(f) = {Head(f)} \cup Range(Tail(f))
<1>1. /\ Head(f) \in Tags /\ Tail(f) \in Seq(Tags) /\ Head(f) = f[1] /\ 1 \in DOMAIN f
      /\ \A i \in DOMAIN Tail(f) : i + 1 \in DOMAIN f /\ i \in Nat /\ 1 < i + 1 /\ Tail(f)[i] = f[i + 1]
  OBVIOUS
<1>2. \A i \in DOMAIN f : i = 1 \/ (i - 1 \in DOMAIN Tail(f) /\ Tail(f)[i - 1] = f[i])
  OBVIOUS
<1>3. Range(f) \subseteq {Head(f)} \cup Range(Tail(f))
  <2> SUFFICES ASSUME NEW i \in DOMAIN f PROVE f[i] \in {Head(f)} \cup Range(Tail(f))
    BY DEF Range
  <2> QED
    BY <1>1, <1>2 DEF Range
<1>4. Range(Tail(f)) \subseteq Range(f) /\ Head(f) \in Range(f)
  BY <1>1 DEF Range
<1> QED
  BY <1>1, <1>3, <1>4

LEMMA FeedMoves ==
  ASSUME [Next]_registry
  PROVE  /\ day' = day /\ (context' = "running" => context = "running")
         /\ \/ UNCHANGED feed
            \/ feed' = <<>> /\ context' # "running"
            \/ feed # <<>> /\ feed' = Tail(feed)
<1>1. ASSUME NEW w \in Workers, Work(w) PROVE UNCHANGED <<day, context>>
  BY <1>1 DEF Work, Take, Send, Lost, Broken, Stranded, TooMany, AskToken, Wait, Answer, AnswerToken
<1>2. ASSUME NEW w \in Workers, Work(w) PROVE UNCHANGED feed \/ (feed # <<>> /\ feed' = Tail(feed))
  BY <1>2 DEF Work, Take, Send, Lost, Broken, Stranded, TooMany, AskToken, Wait, Answer, AnswerToken
<1>3. CASE ContextEnds \/ BreakFeed \/ Finish
  BY <1>3 DEF ContextEnds, BreakFeed, Finish
<1>4. CASE UNCHANGED registry
  BY <1>4 DEF registry, vars
<1> QED
  BY <1>1, <1>2, <1>3, <1>4 DEF Next

LEMMA FeedInvStep == RegistryInv /\ FeedInv /\ [Next]_registry => FeedInv'
<1> SUFFICES ASSUME RegistryInv, FeedInv, [Next]_registry PROVE FeedInv'
  OBVIOUS
<1>1. feed \in Seq(Tags) /\ day \in Nat
  BY ConfigAssumption DEF RegistryInv, WorkType, RestType
<1>2. /\ day' = day /\ (context' = "running" => context = "running")
      /\ \/ UNCHANGED feed
         \/ feed' = <<>> /\ context' # "running"
         \/ feed # <<>> /\ feed' = Tail(feed)
  BY FeedMoves
<1>3. CASE UNCHANGED feed
  <2>1. UNCHANGED <<feed, day>> /\ (context' = "running" => context = "running")
    BY <1>2, <1>3
  <2> QED
    BY <2>1 DEF FeedInv
<1>4. CASE feed' = <<>> /\ context' # "running"
  BY <1>4 DEF FeedInv
<1>5. CASE feed # <<>> /\ feed' = Tail(feed)
  <2>1. /\ Head(feed) = feed[1] /\ 1 \in DOMAIN feed /\ feed' \in Seq(Tags)
        /\ \A i \in DOMAIN feed' : /\ i + 1 \in DOMAIN feed /\ i \in Nat /\ 1 < i + 1
                                   /\ feed'[i] = feed[i + 1]
        /\ Range(feed) = {Head(feed)} \cup Range(feed')
    BY <1>1, <1>5, TailIs
  <2>2. \A i, j \in DOMAIN feed' :
          i < j => feed'[i] # feed'[j] /\ Turn(feed'[i], day) <= Turn(feed'[j], day)
    BY <2>1 DEF FeedInv
  <2>3. \A t \in Range(feed') : Turn(feed[1], day) <= Turn(t, day)
    BY <2>1 DEF FeedInv, Range
  <2>4. ASSUME context' = "running", NEW t \in Range(feed'), NEW u \in Tags, Turn(t, day) < Turn(u, day)
        PROVE  u \in Range(feed')
    <3>1. u \in Range(feed)
      BY <1>2, <2>1, <2>4 DEF FeedInv
    <3>2. Turn(feed[1], day) <= Turn(t, day)
      BY <2>3, <2>4
    <3>3. Turn(feed[1], day) \in Nat /\ Turn(t, day) \in Nat
      <4>1. feed[1] \in Tags /\ t \in Tags
        BY <1>1, <2>1 DEF Range
      <4> QED
        BY <1>1, <4>1, TurnIsNat
    <3>4. u # feed[1]
      BY <2>4, <3>2, <3>3
    <3> QED
      BY <2>1, <3>1, <3>4
  <2> QED
    BY <1>2, <2>2, <2>4 DEF FeedInv, Turn
<1> QED
  BY <1>2, <1>3, <1>4, <1>5

\* If k tags of a registry are taken and others wait, one of its first k + 1 waits; then
\* every other registry has had at most its first k + 1.
LEMMA RegistriesTakeTurns ==
  ASSUME RegistryInv, FeedInv, context = "running"
  PROVE  NoRegistryWaits
<1> DEFINE waits(t) == {u \in Range(feed) : u.registry = t.registry}
           taken(t) == Fellows(t) \ waits(t)
<1>1. /\ day \in Nat
      /\ \A v \in Range(feed) : v \in Tags
      /\ \A t \in Range(feed), u \in Tags : Turn(t, day) < Turn(u, day) => u \in Range(feed)
  BY ConfigAssumption DEF RegistryInv, WorkType, RestType, FeedInv, Range
<1>2. \A t \in Tags : waits(t) \subseteq Fellows(t) /\ taken(t) \subseteq Fellows(t)
  BY <1>1 DEF Fellows
<1>3. ASSUME NEW t \in Tags
      PROVE  /\ IsFiniteSet(waits(t)) /\ IsFiniteSet(taken(t))
             /\ Cardinality(taken(t)) = Cardinality(Fellows(t)) - Cardinality(waits(t))
             /\ Cardinality(taken(t)) \in Nat /\ Cardinality(waits(t)) \in Nat
             /\ Cardinality(waits(t)) > 0 => Cardinality(taken(t)) < Size(t)
  <2>1. IsFiniteSet(Fellows(t)) /\ Size(t) \in Nat
    BY PlaceIs
  <2>2. waits(t) \in SUBSET Fellows(t) /\ taken(t) \in SUBSET Fellows(t)
    BY <1>2
  <2>3. Fellows(t) \cap waits(t) = waits(t)
    BY <2>2
  <2>4. Cardinality(taken(t)) = Cardinality(Fellows(t)) - Cardinality(waits(t))
    BY <2>1, <2>3, FS_Difference
  <2> HIDE DEF waits, taken
  <2>5. /\ IsFiniteSet(waits(t)) /\ IsFiniteSet(taken(t))
        /\ Cardinality(taken(t)) \in Nat /\ Cardinality(waits(t)) \in Nat
    BY <2>1, <2>2, FS_Subset, FS_CardinalityType
  <2> QED
    BY <2>1, <2>4, <2>5 DEF Size
<1>4. ASSUME NEW t \in Tags, NEW u \in Tags, Cardinality(waits(t)) > 0
      PROVE  Cardinality(taken(u)) <= Cardinality(taken(t)) + 1
  <2> DEFINE k == Cardinality(taken(t))
  <2>1. k \in Nat /\ k < Size(t) /\ Size(t) \in Nat
    BY <1>3, <1>4, PlaceIs
  <2>2. \E v \in waits(t) : Turn(v, day) <= k
    <3> SUFFICES ASSUME \A v \in waits(t) : ~(Turn(v, day) <= k) PROVE FALSE
      OBVIOUS
    <3>1. \A v \in Fellows(t) : Turn(v, day) <= k => v \in taken(t)
      OBVIOUS
    <3>2. taken(t) \in SUBSET Fellows(t)
      BY <1>2
    <3>3. \A S \in SUBSET Fellows(t) :
            (\A v \in Fellows(t) : Turn(v, day) <= k => v \in S) => Cardinality(S) >= k + 1
      <4> HIDE DEF k
      <4> QED
        BY <1>1, <2>1, ManyTurns
    <3>4. k >= k + 1
      BY <3>1, <3>2, <3>3
    <3> HIDE DEF k
    <3> QED
      BY <2>1, <3>4
  <2>3. PICK v \in waits(t) : Turn(v, day) <= k
    BY <2>2
  <2>4. \A x \in taken(u) : Turn(x, day) <= k
    <3> SUFFICES ASSUME NEW x \in taken(u) PROVE Turn(x, day) <= k
      OBVIOUS
    <3>1. x \in Tags /\ v \in Tags /\ v \in Range(feed) /\ x \notin Range(feed)
      BY <1>1, <1>2 DEF Fellows
    <3>2. ~(Turn(v, day) < Turn(x, day))
      BY <1>1, <3>1
    <3>3. Turn(v, day) \in Nat /\ Turn(x, day) \in Nat
      BY <1>1, <3>1, TurnIsNat
    <3> HIDE DEF k
    <3> QED
      BY <2>1, <2>3, <3>2, <3>3
  <2>5. taken(u) \in SUBSET Fellows(u)
    BY <1>2
  <2> HIDE DEF k, taken, waits
  <2>6. Cardinality(taken(u)) <= k + 1
    BY <1>1, <2>1, <2>4, <2>5, FewTurns
  <2> QED
    BY <2>6 DEF k
<1>5. \A t \in Tags : Cardinality(Fellows(t)) - Cardinality(waits(t)) = Cardinality(taken(t))
  BY <1>3
<1> HIDE DEF taken
<1>6. \A t, u \in Tags : Cardinality(waits(t)) > 0 =>
        Cardinality(Fellows(u)) - Cardinality(waits(u)) <=
          (Cardinality(Fellows(t)) - Cardinality(waits(t))) + 1
  BY <1>4, <1>5
<1> QED
  BY <1>6 DEF NoRegistryWaits

\* On the day a tag's turn is 0, only the first tags of the registries before its own come first.
LEMMA EveryTagComesFirst ==
  ASSUME RegistryInv PROVE EveryTagHasItsDay
<1> SUFFICES ASSUME NEW t \in Tags
             PROVE  \E d \in day..(day + Cardinality(Fellows(t)) - 1) :
                      Cardinality({u \in Tags : Before(u, t, d)}) < Len(Registries)
  BY DEF EveryTagHasItsDay
<1>1. day \in Nat
  BY ConfigAssumption DEF RegistryInv, RestType
<1>2. PICK d \in day..(day + Size(t) - 1) : d \in Nat /\ Turn(t, d) = 0
  BY <1>1, ComesFirst
<1> DEFINE S == {u \in Tags : Before(u, t, d)}
<1>3. /\ Len(Registries) \in Nat /\ DOMAIN Registries = 1..Len(Registries)
      /\ \A i, j \in DOMAIN Registries : Registries[i] = Registries[j] => i = j
      /\ \A u \in Tags : \E i \in DOMAIN Registries : Registries[i] = u.registry
  BY ConfigAssumption DEF IsInjective, Range
<1>4. PICK k \in DOMAIN Registries : Registries[k] = t.registry
  BY <1>3
<1> DEFINE f == [u \in S |-> CHOOSE i \in DOMAIN Registries : Registries[i] = u.registry]
<1>5. \A u \in S : f[u] \in 1..(k - 1) /\ Registries[f[u]] = u.registry /\ Turn(u, d) = 0
  <2> SUFFICES ASSUME NEW u \in S
               PROVE  f[u] \in 1..(k - 1) /\ Registries[f[u]] = u.registry /\ Turn(u, d) = 0
    OBVIOUS
  <2>1. f[u] \in DOMAIN Registries /\ Registries[f[u]] = u.registry
    BY <1>3
  <2>2. Turn(u, d) \in Nat
    BY <1>2, TurnIsNat
  <2>3. Turn(u, d) = 0 /\ \E i, j \in DOMAIN Registries :
                            Registries[i] = u.registry /\ Registries[j] = t.registry /\ i < j
    BY <1>2, <2>2 DEF Before
  <2> HIDE DEF f, S
  <2>4. f[u] < k
    BY <1>3, <1>4, <2>1, <2>3
  <2> QED
    BY <1>3, <1>4, <2>1, <2>3, <2>4
<1>6. \A u, v \in S : f[u] = f[v] => u = v
  <2> SUFFICES ASSUME NEW u \in S, NEW v \in S, f[u] = f[v] PROVE u = v
    OBVIOUS
  <2>1. u \in Tags /\ v \in Tags
    OBVIOUS
  <2>2. u.registry = v.registry /\ Turn(u, d) = Turn(v, d)
    BY <1>5
  <2>3. u \in Fellows(v)
    BY <2>1, <2>2 DEF Fellows
  <2> QED
    BY <1>2, <2>1, <2>2, <2>3, TurnIs
<1>7. f \in [S -> 1..(k - 1)]
  BY <1>5
<1> HIDE DEF f, S
<1>8. f \in Injection(S, 1..(k - 1))
  BY <1>6, <1>7 DEF Injection, IsInjective
<1>9. k \in Int /\ k >= 1 /\ k <= Len(Registries)
  BY <1>3, <1>4
<1>10. IsFiniteSet(1..(k - 1)) /\ Cardinality(1..(k - 1)) <= k - 1
  <2> DEFINE b == k - 1
  <2>1. b \in Int /\ b >= 0
    BY <1>9
  <2> HIDE DEF b
  <2>2. IsFiniteSet(1..b) /\ Cardinality(1..b) = IF 1 > b THEN 0 ELSE b - 1 + 1
    BY <2>1, FS_Interval
  <2>3. Cardinality(1..b) <= b
    BY <2>1, <2>2
  <2> QED
    BY <2>2, <2>3 DEF b
<1>11. IsFiniteSet(S) /\ Cardinality(S) <= Cardinality(1..(k - 1))
  BY <1>8, <1>10, FS_Injection
<1>12. Cardinality(S) \in Nat /\ Cardinality(1..(k - 1)) \in Nat
  BY <1>10, <1>11, FS_CardinalityType
<1>13. Cardinality(S) < Len(Registries)
  BY <1>3, <1>9, <1>10, <1>11, <1>12
<1> QED
  BY <1>2, <1>13 DEF Size, S

-----------------------------------------------------------------------------
\* The budget: a lookup sends at most four requests.

\* How many requests the lookup of a worker may have sent by now.
Spending(r) ==
  CASE r.at = "head" -> IF r.sent THEN 1 ELSE 0
    [] r.at \in {"challenged", "wait"} -> 1
    [] r.at = "token" -> IF r.sent THEN 2 ELSE 1
    [] r.at = "auth" -> IF r.sent THEN 3 ELSE 2
    [] r.at = "get" -> IF r.sent THEN 4 ELSE 3
    [] OTHER -> 4

\* The shares of the budget that are spent: four of every tag that is done with.
Spent ==
  {p \in Tags \X (1..4) : /\ p[1] \notin Range(feed)
                          /\ \A w \in Workers : worker[w].at # "idle" /\ worker[w].tag = p[1]
                                                  => p[2] <= Spending(worker[w])}

\* A tag is in one place.
OnePlace ==
  /\ \A i, j \in DOMAIN feed : i < j => feed[i] # feed[j]
  /\ \A w \in Workers : worker[w].at # "idle" =>
       /\ worker[w].tag \notin Range(feed)
       /\ \A v \in Workers \ {w} : worker[v].at # "idle" => worker[v].tag # worker[w].tag

BudgetInv == OnePlace /\ requests <= Cardinality(Spent) /\ BudgetSuffices

LEMMA SpentIsFinite ==
  /\ Cardinality(Tags) \in Nat /\ maxRequests \in Nat
  /\ \A S \in SUBSET (Tags \X (1..4)) :
       IsFiniteSet(S) /\ Cardinality(S) \in Nat /\ Cardinality(S) <= maxRequests
<1>1. IsFiniteSet(Tags) /\ Cardinality(Tags) \in Nat /\ Spare \in Nat
  BY ConfigAssumption, FS_CardinalityType
<1>2. IsFiniteSet(1..4) /\ Cardinality(1..4) = 4
  <2> DEFINE b == 4
  <2>1. b \in Int /\ b >= 1
    OBVIOUS
  <2> HIDE DEF b
  <2>2. IsFiniteSet(1..b) /\ Cardinality(1..b) = IF 1 > b THEN 0 ELSE b - 1 + 1
    BY <2>1, FS_Interval
  <2>3. Cardinality(1..b) = b
    BY <2>1, <2>2
  <2> QED
    BY <2>2, <2>3 DEF b
<1>3. IsFiniteSet(Tags \X (1..4)) /\ Cardinality(Tags \X (1..4)) = 4 * Cardinality(Tags)
  BY <1>1, <1>2, FS_Product
<1>4. ASSUME NEW S \in SUBSET (Tags \X (1..4))
      PROVE  IsFiniteSet(S) /\ Cardinality(S) \in Nat /\ Cardinality(S) <= 4 * Cardinality(Tags)
  BY <1>3, FS_Subset, FS_CardinalityType
<1>5. maxRequests \in Nat /\ 4 * Cardinality(Tags) <= maxRequests
  BY <1>1 DEF maxRequests
<1>6. ASSUME NEW S \in SUBSET (Tags \X (1..4)) PROVE Cardinality(S) <= maxRequests
  BY <1>1, <1>4, <1>5, <1>6
<1> QED
  BY <1>1, <1>4, <1>5, <1>6

\* What is spent once stays spent, and pays for a request if it grows.
LEMMA SpentGrows ==
  ASSUME requests \in Nat, requests <= Cardinality(Spent), Spent \subseteq Spent',
         \/ requests' = requests
         \/ requests' = requests + 1 /\ Spent # Spent'
  PROVE  requests' <= Cardinality(Spent') /\ requests' <= maxRequests
<1>1. Spent \in SUBSET (Tags \X (1..4)) /\ Spent' \in SUBSET (Tags \X (1..4))
  BY DEF Spent
<1> DEFINE S == Spent
           T == Spent'
<1>2. /\ S \in SUBSET (Tags \X (1..4)) /\ T \in SUBSET (Tags \X (1..4))
      /\ S \in SUBSET T /\ requests <= Cardinality(S)
      /\ requests' = requests \/ (requests' = requests + 1 /\ S # T)
  BY <1>1
<1> HIDE DEF S, T
<1>3. /\ IsFiniteSet(T) /\ Cardinality(S) \in Nat /\ Cardinality(T) \in Nat
      /\ Cardinality(T) <= maxRequests /\ maxRequests \in Nat
  BY <1>2, SpentIsFinite
<1>4. Cardinality(S) <= Cardinality(T) /\ (S # T => Cardinality(S) # Cardinality(T))
  BY <1>2, <1>3, FS_Subset
<1>5. requests' <= Cardinality(T) /\ requests' <= maxRequests
  BY <1>2, <1>3, <1>4
<1> QED
  BY <1>5 DEF T

\* One worker goes on with its tag, or is done with it.
LEMMA SpendingMoves ==
  ASSUME WorkType, OnePlace, NEW w \in Workers, worker[w].at # "idle", UNCHANGED feed,
         worker' \in [Workers -> WorkerRecord],
         \A v \in Workers \ {w} : worker'[v] = worker[v],
         \/ worker'[w].at = "idle"
         \/ worker'[w].tag = worker[w].tag /\ Spending(worker[w]) <= Spending(worker'[w])
  PROVE  /\ OnePlace' /\ Spent \subseteq Spent'
         /\ \/ worker'[w].at = "idle" /\ Spending(worker[w]) < 4
            \/ worker'[w].at # "idle" /\ Spending(worker[w]) < Spending(worker'[w])
            => Spent # Spent'
<1>1. \A r \in WorkerRecord : Spending(r) \in 0..4
  BY DEF WorkerRecord, Spending, Stages
<1>2. /\ \A v \in Workers : Spending(worker[v]) \in 0..4 /\ Spending(worker'[v]) \in 0..4
      /\ worker[w].tag \in Tags
  BY <1>1 DEF WorkType, WorkerRecord
<1>3. OnePlace'
  BY DEF OnePlace
<1>4. Spent \subseteq Spent'
  <2> SUFFICES ASSUME NEW p \in Spent PROVE p \in Spent'
    OBVIOUS
  <2>1. /\ p \in Tags \X (1..4) /\ p[1] \notin Range(feed')
        /\ \A v \in Workers : worker[v].at # "idle" /\ worker[v].tag = p[1]
                                => p[2] <= Spending(worker[v])
    BY DEF Spent
  <2>2. \A v \in Workers : worker'[v].at # "idle" /\ worker'[v].tag = p[1]
                             => p[2] <= Spending(worker'[v])
    <3> SUFFICES ASSUME NEW v \in Workers, worker'[v].at # "idle", worker'[v].tag = p[1]
                 PROVE  p[2] <= Spending(worker'[v])
      OBVIOUS
    <3>1. CASE v # w
      BY <2>1, <3>1
    <3>2. CASE v = w
      <4>1. p[2] <= Spending(worker[w]) /\ Spending(worker[w]) <= Spending(worker'[w])
        BY <2>1, <3>2
      <4>2. p[2] \in 1..4
        BY <2>1
      <4> QED
        BY <1>2, <3>2, <4>1, <4>2
    <3> QED
      BY <3>1, <3>2
  <2> QED
    BY <2>1, <2>2 DEF Spent
<1>5. ASSUME \/ worker'[w].at = "idle" /\ Spending(worker[w]) < 4
             \/ worker'[w].at # "idle" /\ Spending(worker[w]) < Spending(worker'[w])
      PROVE  Spent # Spent'
  <2> DEFINE p == <<worker[w].tag, Spending(worker[w]) + 1>>
  <2>1. Spending(worker[w]) + 1 \in 1..4
    BY <1>2, <1>5
  <2>2. p \in Tags \X (1..4) /\ p[1] = worker[w].tag /\ p[2] = Spending(worker[w]) + 1
    BY <1>2, <2>1
  <2>3. p \notin Spent
    <3>1. ~(p[2] <= Spending(worker[w]))
      BY <1>2, <2>2
    <3> HIDE DEF p
    <3> QED
      BY <2>2, <3>1 DEF Spent
  <2>4. p \in Spent'
    <3> HIDE DEF p
    <3>1. p[1] \notin Range(feed')
      BY <2>2 DEF OnePlace
    <3>2. ASSUME NEW v \in Workers, worker'[v].at # "idle", worker'[v].tag = p[1]
          PROVE  p[2] <= Spending(worker'[v])
      <4>1. v = w
        BY <2>2, <3>2 DEF OnePlace
      <4>2. Spending(worker[w]) < Spending(worker'[w])
        BY <1>5, <3>2, <4>1
      <4> QED
        BY <1>2, <2>2, <4>1, <4>2
    <3> QED
      BY <2>2, <3>1, <3>2 DEF Spent
  <2> HIDE DEF p
  <2> QED
    BY <2>3, <2>4
<1> QED
  BY <1>3, <1>4, <1>5

\* Where a lookup is, and what it may have spent there.
LEMMA SpendingIs ==
  ASSUME NEW r \in WorkerRecord
  PROVE  /\ Spending(r) \in 0..4
         /\ r.at = "head" => Spending(r) <= 1
         /\ r.at \in {"challenged", "wait"} => Spending(r) = 1
         /\ r.at = "token" => Spending(r) >= 1 /\ Spending(r) <= 2
         /\ r.at = "auth" => Spending(r) >= 2 /\ Spending(r) <= 3
         /\ r.at = "get" => Spending(r) >= 3
         /\ r.at \in Asking /\ ~r.sent => Spending(r) < 4
<1>1. CASE r.at = "head"
  BY <1>1 DEF Spending, Asking
<1>2. CASE r.at \in {"challenged", "wait"}
  BY <1>2 DEF Spending, Asking
<1>3. CASE r.at = "token"
  BY <1>3 DEF Spending, Asking
<1>4. CASE r.at = "auth"
  BY <1>4 DEF Spending, Asking
<1>5. CASE r.at = "get"
  BY <1>5 DEF Spending, Asking
<1>6. CASE r.at = "idle"
  BY <1>6 DEF Spending, Asking
<1> QED
  BY <1>1, <1>2, <1>3, <1>4, <1>5, <1>6 DEF WorkerRecord, Stages, Asking

\* What a step leaves of the budget.
Paid ==
  /\ OnePlace' /\ Spent \subseteq Spent'
  /\ \/ requests' = requests /\ UNCHANGED overBudget
     \/ /\ requests' = requests + 1 /\ Spent # Spent'
        /\ overBudget' = overBudget \/ requests + 1 > maxRequests

LEMMA TakePays ==
  ASSUME WorkType, OnePlace, NEW w \in Workers, Take(w) PROVE Paid
<1> DEFINE t == Head(feed)
           r == [at |-> "head", sent |-> FALSE, tag |-> t, target |-> t.registry]
<1>1. /\ worker[w].at = "idle" /\ feed \in Seq(Tags) /\ feed # <<>> /\ feed' = Tail(feed)
      /\ UNCHANGED <<requests, overBudget>>
  BY IdleWorker DEF Take, NothingLearned, history, WorkType
<1>2. /\ t \in Tags /\ t = feed[1] /\ 1 \in DOMAIN feed
      /\ \A i \in DOMAIN feed' : i + 1 \in DOMAIN feed /\ i \in Nat /\ 1 < i + 1 /\ feed'[i] = feed[i + 1]
      /\ Range(feed) = {t} \cup Range(feed')
  BY <1>1, TailIs
<1> HIDE DEF t
<1>3. \A i, j \in DOMAIN feed' : i < j => feed'[i] # feed'[j]
  BY <1>2 DEF OnePlace
<1>4. t \notin Range(feed')
  BY <1>2 DEF OnePlace, Range
<1>5. ASSUME UNCHANGED worker PROVE OnePlace' /\ Spent \subseteq Spent'
  <2>1. OnePlace'
    BY <1>2, <1>3, <1>5 DEF OnePlace
  <2>2. Spent \subseteq Spent'
    BY <1>2, <1>5 DEF Spent, Spending
  <2> QED
    BY <2>1, <2>2
<1>6. ASSUME worker' = [worker EXCEPT ![w] = r] PROVE OnePlace' /\ Spent \subseteq Spent'
  <2>1. r \in WorkerRecord /\ r.at = "head" /\ r.tag = t
    BY <1>2, TagIs DEF WorkerRecord, Stages
  <2> HIDE DEF r
  <2>2. worker'[w] = r /\ \A v \in Workers \ {w} : worker'[v] = worker[v]
    BY <1>6, <2>1, WorkerMoves
  <2>3. \A v \in Workers : worker[v].at # "idle" => worker[v].tag \notin Range(feed)
    BY DEF OnePlace
  <2>4. \A v \in Workers \ {w} : worker'[v].at # "idle" => worker'[v].tag # t
    BY <1>2, <2>2, <2>3
  <2>5. ASSUME NEW v \in Workers, worker'[v].at # "idle"
        PROVE  /\ worker'[v].tag \notin Range(feed')
               /\ \A x \in Workers \ {v} : worker'[x].at # "idle" => worker'[x].tag # worker'[v].tag
    <3>1. CASE v = w
      BY <1>4, <2>1, <2>2, <2>4, <3>1
    <3>2. CASE v # w
      <4>1. worker'[v] = worker[v] /\ worker[v].tag # t /\ worker[v].tag \notin Range(feed')
        BY <1>2, <2>2, <2>3, <2>4, <2>5, <3>2
      <4>2. ASSUME NEW x \in Workers \ {v}, worker'[x].at # "idle" PROVE worker'[x].tag # worker'[v].tag
        BY <2>1, <2>2, <2>5, <4>1, <4>2 DEF OnePlace
      <4> QED
        BY <4>1, <4>2
    <3> QED
      BY <3>1, <3>2
  <2>6. OnePlace'
    BY <1>3, <2>5 DEF OnePlace
  <2>7. ASSUME NEW p \in Spent PROVE p \in Spent'
    <3>1. /\ p \in Tags \X (1..4) /\ p[1] \notin Range(feed)
          /\ \A v \in Workers : worker[v].at # "idle" /\ worker[v].tag = p[1] => p[2] <= Spending(worker[v])
      BY <2>7 DEF Spent
    <3>2. p[1] # t /\ p[1] \notin Range(feed')
      BY <1>2, <3>1
    <3>3. \A v \in Workers : worker'[v].at # "idle" /\ worker'[v].tag = p[1] => p[2] <= Spending(worker'[v])
      BY <2>1, <2>2, <3>1, <3>2
    <3> QED
      BY <3>1, <3>2, <3>3 DEF Spent
  <2> QED
    BY <2>6, <2>7
<1>7. UNCHANGED worker \/ worker' = [worker EXCEPT ![w] = r]
  BY DEF Take, t
<1> QED
  BY <1>1, <1>5, <1>6, <1>7 DEF Paid

\* A lookup ends.
LEMMA EndPays ==
  ASSUME WorkType, OnePlace, NEW w \in Workers, worker[w].at # "idle", UNCHANGED feed,
         \E out \in Outcomes : End(w, out) \/ Done(w, out)
  PROVE  /\ OnePlace' /\ Spent \subseteq Spent'
         /\ Spending(worker[w]) < 4 => Spent # Spent'
<1>1. worker' = [worker EXCEPT ![w] = Idle]
  BY DEF End, Done, Free
<1>2. /\ worker' \in [Workers -> WorkerRecord] /\ worker'[w].at = "idle"
      /\ \A v \in Workers \ {w} : worker'[v] = worker[v]
  BY <1>1, IdleWorker, WorkerMoves
<1> QED
  BY <1>2, SpendingMoves

\* A lookup goes on to its next request.
LEMMA GoPays ==
  ASSUME WorkType, OnePlace, NEW w \in Workers, worker[w].at # "idle", UNCHANGED feed,
         NEW at \in Stages, NEW target \in Hosts, Go(w, at, target),
         \/ at = "get" /\ worker[w].at \in {"head", "auth"}
         \/ at = "challenged" /\ worker[w].at = "head"
         \/ at \in {"wait", "token"} /\ worker[w].at = "challenged"
         \/ at = "auth" /\ worker[w].at \in {"token", "wait"}
  PROVE  OnePlace' /\ Spent \subseteq Spent'
<1>1. /\ worker' \in [Workers -> WorkerRecord]
      /\ worker'[w].at = at /\ worker'[w].tag = worker[w].tag
      /\ \A v \in Workers \ {w} : worker'[v] = worker[v]
  BY GoIs
<1>2. worker[w] \in WorkerRecord /\ worker'[w] \in WorkerRecord
  BY <1>1 DEF WorkType
<1>3. Spending(worker[w]) <= Spending(worker'[w])
  <2>1. CASE at = "get" /\ worker[w].at \in {"head", "auth"}
    BY <1>1, <1>2, <2>1, SpendingIs
  <2>2. CASE at = "challenged" /\ worker[w].at = "head"
    BY <1>1, <1>2, <2>2, SpendingIs
  <2>3. CASE at \in {"wait", "token"} /\ worker[w].at = "challenged"
    BY <1>1, <1>2, <2>3, SpendingIs
  <2>4. CASE at = "auth" /\ worker[w].at \in {"token", "wait"}
    BY <1>1, <1>2, <2>4, SpendingIs
  <2> QED
    BY <2>1, <2>2, <2>3, <2>4
<1> QED
  BY <1>1, <1>3, SpendingMoves

LEMMA SendPays ==
  ASSUME WorkType, OnePlace, NEW w \in Workers, Send(w) PROVE Paid
<1>1. /\ worker[w].at \in Asking /\ worker[w].at # "idle" /\ ~worker[w].sent /\ UNCHANGED feed
      /\ worker[w] \in WorkerRecord
  BY DEF Send, Asking, WorkType
<1>2. Spending(worker[w]) \in 0..3
  BY <1>1, SpendingIs
<1>3. CASE End(w, "transient")
  <2>1. OnePlace' /\ Spent \subseteq Spent' /\ Spent # Spent'
    BY <1>1, <1>2, <1>3, EndPays DEF Outcomes
  <2>2. \/ requests' = requests /\ UNCHANGED overBudget
        \/ requests' = requests + 1 /\ (overBudget' = overBudget \/ requests + 1 > maxRequests)
    BY DEF Send
  <2> QED
    BY <2>1, <2>2 DEF Paid
<1>4. CASE /\ worker' = [worker EXCEPT ![w].sent = TRUE]
           /\ requests' = requests + 1 /\ UNCHANGED overBudget
  <2> DEFINE r == [worker[w] EXCEPT !.sent = TRUE]
  <2>1. r \in WorkerRecord /\ r.at = worker[w].at /\ r.tag = worker[w].tag /\ r.sent = TRUE
    BY <1>1 DEF WorkerRecord
  <2>2. worker' = [worker EXCEPT ![w] = r]
    BY <1>4
  <2> HIDE DEF r
  <2>3. /\ worker' \in [Workers -> WorkerRecord] /\ worker'[w] = r
        /\ \A v \in Workers \ {w} : worker'[v] = worker[v]
    BY <2>1, <2>2, WorkerMoves
  <2>4. Spending(r) = Spending(worker[w]) + 1
    <3>1. CASE worker[w].at = "head"
      BY <1>1, <2>1, <3>1 DEF Spending
    <3>2. CASE worker[w].at = "token"
      BY <1>1, <2>1, <3>2 DEF Spending
    <3>3. CASE worker[w].at = "auth"
      BY <1>1, <2>1, <3>3 DEF Spending
    <3>4. CASE worker[w].at = "get"
      BY <1>1, <2>1, <3>4 DEF Spending
    <3> QED
      BY <1>1, <3>1, <3>2, <3>3, <3>4 DEF Asking
  <2>5. /\ worker'[w].tag = worker[w].tag /\ worker'[w].at # "idle"
        /\ Spending(worker[w]) < Spending(worker'[w]) /\ Spending(worker[w]) <= Spending(worker'[w])
    BY <1>1, <1>2, <2>1, <2>3, <2>4
  <2>6. OnePlace' /\ Spent \subseteq Spent' /\ Spent # Spent'
    BY <1>1, <2>3, <2>5, SpendingMoves
  <2> QED
    BY <1>4, <2>6 DEF Paid
<1> QED
  BY <1>3, <1>4 DEF Send

LEMMA WorkPays ==
  ASSUME WorkType, OnePlace, NEW w \in Workers, Work(w) PROVE Paid
<1>1. worker[w] \in WorkerRecord /\ worker[w].tag \in Tags /\ worker[w].target \in Hosts
  BY DEF WorkType, WorkerRecord
<1>2. CASE Lost(w) \/ Broken(w) \/ Stranded(w) \/ TooMany(w)
  <2>1. InFlight(w) /\ End(w, "transient") /\ UNCHANGED <<feed, requests>>
    BY <1>2 DEF Lost, Broken, Stranded, TooMany
  <2>2. UNCHANGED overBudget
    BY <1>2 DEF Lost, Broken, Stranded, TooMany, recordFailure, markAnswered, NothingLearned, history
  <2> QED
    BY <2>1, <2>2, InFlightIs, EndPays DEF Outcomes, Paid
<1>3. CASE AskToken(w)
  <2>1. /\ worker[w].at = "challenged" /\ UNCHANGED <<feed, requests, overBudget>>
        /\ \E at \in {"wait", "token"} : Go(w, at, worker[w].target)
    BY <1>3 DEF AskToken
  <2>2. worker[w].at # "idle" /\ {"wait", "token"} \subseteq Stages
    BY <2>1 DEF Stages
  <2> QED
    BY <1>1, <2>1, <2>2, GoPays DEF Paid
<1>4. CASE Wait(w)
  <2>1. /\ worker[w].at = "wait" /\ worker[w].at # "idle" /\ UNCHANGED <<feed, requests, overBudget>>
        /\ \/ Go(w, "auth", worker[w].target)
           \/ \E out \in {"unknown", "transient"} : Done(w, out)
    BY <1>4 DEF Wait, NothingLearned, history
  <2>2. "auth" \in Stages /\ {"unknown", "transient"} \subseteq Outcomes
    BY DEF Stages, Outcomes
  <2> QED
    BY <1>1, <2>1, <2>2, GoPays, EndPays DEF Paid
<1>5. ASSUME NEW out \in {"digest", "nodigest", "challenge", "denied", "hiccup"}, Answer(w, out)
      PROVE  Paid
  <2>1. InFlight(w) /\ worker[w].at # "idle" /\ UNCHANGED <<feed, requests, overBudget>>
    BY <1>5, InFlightIs DEF Answer, markAnswered, history
  <2>2. \/ worker[w].at \in {"head", "auth"} /\ Go(w, "get", worker[w].target)
        \/ worker[w].at = "head" /\ \E target \in Hosts : Go(w, "challenged", target)
        \/ \E o \in {"digest", "transient", "unknown"} : Done(w, o)
    <3>1. Host(w) \in Hosts /\ MirrorHost[worker[w].tag.registry] \in Hosts
      BY <1>1, HostOf, TagIs
    <3>2. CASE out = "nodigest" /\ worker[w].at \in {"head", "auth"}
      BY <1>5, <3>2 DEF Answer
    <3>3. CASE out = "challenge" /\ worker[w].at = "head"
      BY <1>5, <3>1, <3>3 DEF Answer
    <3>4. CASE /\ ~(out = "nodigest" /\ worker[w].at \in {"head", "auth"})
               /\ ~(out = "challenge" /\ worker[w].at = "head")
      <4>1. Done(w, CASE out = "digest" -> "digest" [] out = "hiccup" -> "transient" [] OTHER -> "unknown")
        BY <1>5, <3>4 DEF Answer
      <4> QED
        BY <4>1
    <3> QED
      BY <3>2, <3>3, <3>4
  <2>3. {"get", "challenged"} \subseteq Stages /\ {"digest", "transient", "unknown"} \subseteq Outcomes
    BY DEF Stages, Outcomes
  <2>4. CASE worker[w].at \in {"head", "auth"} /\ Go(w, "get", worker[w].target)
    BY <1>1, <2>1, <2>3, <2>4, GoPays DEF Paid
  <2>5. CASE worker[w].at = "head" /\ \E target \in Hosts : Go(w, "challenged", target)
    BY <1>1, <2>1, <2>3, <2>5, GoPays DEF Paid
  <2>6. CASE \E o \in {"digest", "transient", "unknown"} : Done(w, o)
    BY <2>1, <2>3, <2>6, EndPays DEF Paid
  <2> QED
    BY <2>2, <2>4, <2>5, <2>6
<1>6. ASSUME NEW out \in {"token", "denied", "hiccup"}, AnswerToken(w, out) PROVE Paid
  <2>1. /\ worker[w].at = "token" /\ worker[w].at # "idle" /\ UNCHANGED <<feed, requests, overBudget>>
        /\ \/ Go(w, "auth", worker[w].target)
           \/ \E o \in {"transient", "unknown"} : End(w, o)
    BY <1>6 DEF AnswerToken, markAnswered, history
  <2>2. "auth" \in Stages /\ {"unknown", "transient"} \subseteq Outcomes
    BY DEF Stages, Outcomes
  <2> QED
    BY <1>1, <2>1, <2>2, GoPays, EndPays DEF Paid
<1> QED
  BY <1>2, <1>3, <1>4, <1>5, <1>6, TakePays, SendPays DEF Work

LEMMA BudgetInvInit == Init => BudgetInv
<1> SUFFICES ASSUME Init PROVE BudgetInv
  OBVIOUS
<1>1. \A w \in Workers : worker[w].at = "idle"
  BY IdleWorker DEF Init
<1>2. OnePlace
  BY <1>1, FeedInvInit DEF FeedInv, OnePlace
<1>3. Spent \in SUBSET (Tags \X (1..4))
  BY DEF Spent
<1>4. Cardinality(Spent) \in Nat /\ requests = 0
  BY <1>3, SpentIsFinite DEF Init
<1>5. requests <= Cardinality(Spent)
  BY <1>4
<1> QED
  BY <1>2, <1>5 DEF Init, BudgetInv, BudgetSuffices

LEMMA BudgetInvStep == RegistryInv /\ BudgetInv /\ [Next]_registry => BudgetInv'
<1> SUFFICES ASSUME RegistryInv, BudgetInv, [Next]_registry PROVE BudgetInv'
  OBVIOUS
<1>1. WorkType /\ OnePlace /\ requests \in Nat /\ requests <= Cardinality(Spent) /\ ~overBudget
  BY DEF RegistryInv, RestType, BudgetInv, BudgetSuffices
<1>2. ASSUME Paid PROVE BudgetInv'
  <2>1. requests' <= Cardinality(Spent') /\ requests' <= maxRequests
    BY <1>1, <1>2, SpentGrows DEF Paid
  <2>2. ~overBudget'
    BY <1>1, <1>2, <2>1, SpentIsFinite DEF Paid
  <2> QED
    BY <1>2, <2>1, <2>2 DEF Paid, BudgetInv, BudgetSuffices
<1>3. ASSUME NEW w \in Workers, Work(w) PROVE Paid
  BY <1>1, <1>3, WorkPays
<1>4. CASE BreakFeed
  <2>1. feed' = <<>> /\ UNCHANGED <<worker, requests, overBudget>>
    BY <1>4 DEF BreakFeed, history
  <2>2. DOMAIN feed' = {} /\ Range(feed') = {}
    BY <2>1 DEF Range
  <2>3. OnePlace'
    BY <1>1, <2>1, <2>2 DEF OnePlace
  <2>4. Spent \subseteq Spent'
    BY <2>1, <2>2 DEF Spent, Spending
  <2> QED
    BY <1>2, <2>1, <2>3, <2>4 DEF Paid
<1>5. CASE ContextEnds \/ Finish \/ UNCHANGED registry
  <2>1. UNCHANGED <<feed, worker, requests, overBudget>>
    BY <1>5 DEF ContextEnds, Finish, registry, vars, history
  <2>2. OnePlace' /\ Spent' = Spent
    BY <1>1, <2>1 DEF OnePlace, Spent, Spending
  <2> QED
    BY <1>2, <2>1, <2>2 DEF Paid
<1> QED
  BY <1>2, <1>3, <1>4, <1>5 DEF Next

\* feedOrder, token, maxRequests (LookupsAreServed): while a scan runs no registry has been
\* given two tags more than one that waits, every tag is among the first of its registry on
\* one of as many days as that registry has tags, a token is fetched once for everybody who
\* needs its scope and whoever waits for it waits for a fetch under way or over, and no
\* lookup is denied a request, for any number of workers, tags, registries and days.
THEOREM LookupsServed == PartsSpec => []LookupsAreServed
<1>1. RegistryInv => TokensAreShared
  BY DEF RegistryInv, FetchedOnce, TokensAreShared
<1>2. RegistryInv => WaitsAreServed
  <2> SUFFICES ASSUME RegistryInv, NEW w \in Workers, worker[w].at = "wait"
               PROVE  \/ tokens[Scope(worker[w].tag)] \in {"token", "unknown", "transient"}
                      \/ \E v \in Workers : worker[v].at = "token" /\ Scope(worker[v].tag) = Scope(worker[w].tag)
    BY DEF WaitsAreServed
  <2>1. worker[w].tag \in Tags /\ Awaited /\ WorkType
    BY DEF RegistryInv, WorkType, WorkerRecord
  <2>2. Scope(worker[w].tag) \in Scopes /\ tokens[Scope(worker[w].tag)] # "none"
    BY <2>1, TagIs DEF Awaited
  <2>3. tokens[Scope(worker[w].tag)] \in TokenStates
    BY <2>1, <2>2 DEF WorkType
  <2> QED
    BY <2>1, <2>2, <2>3 DEF Awaited, TokenStates
<1>3. RegistryInv /\ FeedInv => NoRegistryWaits
  <2>1. context # "running" => NoRegistryWaits
    BY DEF NoRegistryWaits
  <2> QED
    BY <2>1, RegistriesTakeTurns
<1>4. RegistryInv /\ FeedInv /\ BudgetInv => LookupsAreServed
  BY <1>1, <1>2, <1>3, EveryTagComesFirst DEF LookupsAreServed, BudgetInv
<1> QED
  BY <1>4, RegistryInitKeeps, RegistryStepKeeps, FeedInvInit, FeedInvStep, BudgetInvInit, BudgetInvStep,
     PartsMoveRegistry, PTL
-----------------------------------------------------------------------------
\* Recursion: what steps from 0 to n make of a first value.

\* Of numbers one is the least.
LEMMA LeastNumber ==
  ASSUME NEW S, S \subseteq Nat, S # {}
  PROVE  \E n \in S : \A m \in S : n <= m
<1> DEFINE R == OpToRel(<, Nat)
<1>1. IsWellFoundedOn(R, Nat)
  BY NatLessThanWellFounded
<1>2. \A m, n \in Nat : m < n => <<m, n>> \in R
  BY DEF OpToRel
<1> HIDE DEF R
<1>3. PICK n \in S : \A m \in S : ~(<<m, n>> \in R)
  BY <1>1, WFMin
<1>4. \A m \in S : ~(m < n)
  BY <1>2, <1>3
<1> QED
  BY <1>4

Steps(h, n, x, step) == h[0] = x /\ \A i \in 1..n : h[i] = step[i][h[i - 1]]

LEMMA Recursion ==
  ASSUME NEW n \in Nat, NEW X, NEW x \in X, NEW step \in [1..n -> [X -> X]]
  PROVE  \E h \in [0..n -> X] : Steps(h, n, x, step)
<1> DEFINE Has(k) == \E h \in [0..k -> X] : Steps(h, k, x, step)
           Without == {k \in 0..n : ~Has(k)}
<1>1. SUFFICES ASSUME Without # {} PROVE FALSE
  OBVIOUS
<1>2. PICK k \in Without : \A j \in Without : k <= j
  <2> Without \subseteq Nat
    OBVIOUS
  <2> HIDE DEF Without
  <2> QED
    BY <1>1, LeastNumber
<1>3. k \in 0..n /\ ~Has(k)
  OBVIOUS
<1>4. CASE k = 0
  <2> DEFINE h == [i \in 0..0 |-> x]
  <2>1. h \in [0..0 -> X] /\ Steps(h, 0, x, step)
    BY DEF Steps
  <2> QED
    BY <1>3, <1>4, <2>1
<1>5. CASE k # 0
  <2>1. k - 1 \in 0..n /\ ~(k <= k - 1) /\ k \in 1..n
    BY <1>3, <1>5
  <2>2. Has(k - 1)
    BY <1>2, <2>1
  <2>3. PICK g \in [0..(k - 1) -> X] : Steps(g, k - 1, x, step)
    BY <2>2
  <2> DEFINE h == [i \in 0..k |-> IF i = k THEN step[k][g[k - 1]] ELSE g[i]]
  <2>4. step[k][g[k - 1]] \in X
    BY <2>1
  <2>5. \A i \in 0..k : i # k => i \in 0..(k - 1)
    BY <2>1
  <2>6. h \in [0..k -> X]
    BY <2>4, <2>5
  <2>7. h[0] = x
    BY <2>1, <2>3 DEF Steps
  <2>8. ASSUME NEW i \in 1..k PROVE h[i] = step[i][h[i - 1]]
    <3>1. i - 1 \in 0..k /\ i - 1 # k
      BY <2>1
    <3>2. CASE i = k
      BY <3>1, <3>2
    <3>3. CASE i # k
      <4>1. i \in 1..(k - 1)
        BY <2>1, <3>3
      <4> QED
        BY <2>3, <3>1, <3>3, <4>1 DEF Steps
    <3> QED
      BY <3>2, <3>3
  <2>9. Steps(h, k, x, step)
    BY <2>7, <2>8 DEF Steps
  <2> QED
    BY <1>3, <2>6, <2>9
<1> QED
  BY <1>4, <1>5

\* The same steps make the same.
LEMMA StepsAgree ==
  ASSUME NEW n \in Nat, NEW g, NEW h, NEW x, NEW y, NEW step, NEW walk,
         Steps(g, n, x, step), Steps(h, n, y, walk), x = y, \A i \in 1..n : step[i] = walk[i]
  PROVE  \A i \in 0..n : g[i] = h[i]
<1> DEFINE Apart == {i \in 0..n : g[i] # h[i]}
<1>1. SUFFICES ASSUME Apart # {} PROVE FALSE
  OBVIOUS
<1>2. PICK k \in Apart : \A j \in Apart : k <= j
  <2> Apart \subseteq Nat
    OBVIOUS
  <2> HIDE DEF Apart
  <2> QED
    BY <1>1, LeastNumber
<1>3. k \in 1..n /\ k - 1 \in 0..n /\ ~(k <= k - 1)
  BY DEF Steps
<1>4. g[k - 1] = h[k - 1]
  BY <1>2, <1>3
<1> QED
  BY <1>3, <1>4 DEF Steps

-----------------------------------------------------------------------------
\* FlattenSeq of the community modules.

Flattens(h, s) == h[0] = <<>> /\ \A i \in 1..Len(s) : h[i] = h[i - 1] \o s[i]

LEMMA FlattenExists ==
  ASSUME NEW A, NEW s \in Seq(Seq(A))
  PROVE  \E h \in [0..Len(s) -> Seq(A)] : Flattens(h, s)
<1> DEFINE n == Len(s)
           X == Seq(A)
           step == [i \in 1..n |-> [x \in X |-> x \o s[i]]]
<1>1. n \in Nat /\ <<>> \in X /\ \A i \in 1..n : s[i] \in X
  BY EmptySeq, ElementOfSeq, LenProperties
<1>2. \A x, y \in X : x \o y \in X
  BY ConcatProperties
<1>3. step \in [1..n -> [X -> X]]
  BY <1>1, <1>2
<1> HIDE DEF X, n
<1>4. PICK h \in [0..n -> X] : Steps(h, n, <<>>, step)
  BY <1>1, <1>3, Recursion
<1>5. \A i \in 1..n : h[i] = h[i - 1] \o s[i]
  <2> SUFFICES ASSUME NEW i \in 1..n PROVE h[i] = h[i - 1] \o s[i]
    OBVIOUS
  <2>1. h[i] = step[i][h[i - 1]]
    BY <1>4 DEF Steps
  <2>2. h[i - 1] \in X
    BY <1>1, <1>4
  <2> QED
    BY <2>1, <2>2
<1>6. h[0] = <<>>
  BY <1>4 DEF Steps
<1> QED
  BY <1>4, <1>5, <1>6 DEF Flattens, X, n

LEMMA FlattenIs ==
  ASSUME NEW A, NEW s \in Seq(Seq(A)), NEW h \in [0..Len(s) -> Seq(A)], Flattens(h, s)
  PROVE  G!FlattenSeq(s) = h[Len(s)]
<1> DEFINE n == Len(s)
<1>1. n \in Nat /\ \A i \in 1..n : s[i] \in Seq(A)
  BY ElementOfSeq, LenProperties
<1>2. CASE n = 0
  <2>1. s = <<>>
    BY <1>2, EmptySeq
  <2> QED
    BY <1>2, <2>1 DEF G!FlattenSeq, Flattens
<1>3. CASE n # 0
  <2> DEFINE Fits(f) == f = [i \in 1..n |-> IF i = 1 THEN s[i] ELSE f[i - 1] \o s[i]]
             flatten == CHOOSE f : Fits(f)
             g == [i \in 1..n |-> h[i]]
  <2>1. h[0] = <<>> /\ \A i \in 1..n : h[i] = h[i - 1] \o s[i]
    BY DEF Flattens
  <2>2. h[1] = s[1]
    <3>1. 1 \in 1..n /\ s[1] \in Seq(A) /\ 1 - 1 = 0
      BY <1>1, <1>3
    <3>2. h[1] = <<>> \o s[1]
      BY <2>1, <3>1
    <3> QED
      BY <3>1, <3>2, ConcatEmptySeq
  <2>3. \A i \in 1..n : g[i] = IF i = 1 THEN s[i] ELSE g[i - 1] \o s[i]
    <3> SUFFICES ASSUME NEW i \in 1..n, i # 1 PROVE g[i] = g[i - 1] \o s[i]
      BY <2>2
    <3>1. i - 1 \in 1..n
      BY <1>1
    <3> QED
      BY <2>1, <3>1
  <2>4. Fits(g)
    BY <2>3
  <2>5. Fits(flatten)
    BY <2>4
  <2> HIDE DEF flatten
  <2>6. \A i \in 1..n : flatten[i] = IF i = 1 THEN s[i] ELSE flatten[i - 1] \o s[i]
    BY <2>5
  <2> DEFINE Apart == {i \in 1..n : flatten[i] # g[i]}
  <2>7. Apart = {}
    <3> SUFFICES ASSUME Apart # {} PROVE FALSE
      OBVIOUS
    <3> HIDE DEF g
    <3>1. PICK k \in Apart : \A j \in Apart : k <= j
      <4>1. Apart \subseteq Nat
        BY <1>1
      <4> HIDE DEF Apart
      <4> QED
        BY <4>1, LeastNumber
    <3>2. k \in 1..n /\ flatten[k] # g[k] /\ ~(k <= k - 1)
      OBVIOUS
    <3>3. k # 1
      BY <2>3, <2>6, <3>2
    <3>4. k - 1 \in 1..n
      BY <1>1, <3>2, <3>3
    <3>5. flatten[k - 1] = g[k - 1]
      BY <3>1, <3>2, <3>4
    <3> QED
      BY <2>3, <2>6, <3>2, <3>3, <3>5
  <2>8. n \in 1..n
    BY <1>1, <1>3
  <2>9. flatten[n] = h[n]
    BY <2>7, <2>8
  <2> QED
    BY <1>3, <2>9 DEF G!FlattenSeq, flatten
<1> QED
  BY <1>2, <1>3

LEMMA FlattenType ==
  ASSUME NEW A, NEW s \in Seq(Seq(A)) PROVE G!FlattenSeq(s) \in Seq(A)
<1>1. PICK h \in [0..Len(s) -> Seq(A)] : Flattens(h, s)
  BY FlattenExists
<1>2. Len(s) \in Nat
  BY LenProperties
<1> QED
  BY <1>1, <1>2, FlattenIs

LEMMA FlattenEmpty == G!FlattenSeq(<<>>) = <<>>
BY DEF G!FlattenSeq

\* One more at the end.
LEMMA FlattenMore ==
  ASSUME NEW A, NEW s \in Seq(Seq(A)), NEW t \in Seq(Seq(A)), Len(t) = Len(s) + 1,
         \A i \in 1..Len(s) : t[i] = s[i]
  PROVE  G!FlattenSeq(t) = G!FlattenSeq(s) \o t[Len(t)]
<1>1. PICK h \in [0..Len(t) -> Seq(A)] : Flattens(h, t)
  BY FlattenExists
<1>2. Len(s) \in Nat
  BY LenProperties
<1> DEFINE n == Len(s)
           g == [i \in 0..n |-> h[i]]
<1>3. g \in [0..n -> Seq(A)] /\ \A i \in 1..n : i \in 1..(n + 1) /\ i - 1 \in 0..n
  BY <1>2
<1>a. Len(t) = n + 1 /\ \A i \in 1..n : t[i] = s[i]
  OBVIOUS
<1>b. h[0] = <<>> /\ \A i \in 1..(n + 1) : h[i] = h[i - 1] \o t[i]
  BY <1>1, <1>a DEF Flattens
<1>4. Flattens(g, s)
  <2>1. g[0] = <<>>
    BY <1>2, <1>b
  <2>2. ASSUME NEW i \in 1..n PROVE g[i] = g[i - 1] \o s[i]
    <3>1. i \in 0..n /\ i - 1 \in 0..n /\ i \in 1..(n + 1)
      BY <1>2
    <3>2. g[i] = h[i] /\ g[i - 1] = h[i - 1]
      BY <3>1
    <3> HIDE DEF g, n
    <3> QED
      BY <1>a, <1>b, <3>1, <3>2
  <2> QED
    BY <2>1, <2>2 DEF Flattens
<1>5. G!FlattenSeq(s) = h[n]
  <2>1. G!FlattenSeq(s) = g[n]
    BY <1>3, <1>4, FlattenIs
  <2> QED
    BY <1>2, <2>1
<1>6. G!FlattenSeq(t) = h[n + 1]
  BY <1>1, FlattenIs
<1>7. h[n + 1] = h[n] \o t[n + 1]
  <2>1. n + 1 \in 1..(n + 1) /\ (n + 1) - 1 = n
    BY <1>2
  <2> QED
    BY <1>b, <2>1
<1> QED
  BY <1>5, <1>6, <1>7

\* The first n pieces.
Pre(s, n) == G!FlattenSeq([i \in 1..n |-> s[i]])

LEMMA PreStart == ASSUME NEW s PROVE Pre(s, 0) = <<>>
<1>1. [i \in 1..0 |-> s[i]] = <<>>
  OBVIOUS
<1> QED
  BY <1>1, FlattenEmpty DEF Pre

LEMMA PreType ==
  ASSUME NEW A, NEW n \in Nat, NEW s, \A i \in 1..n : s[i] \in Seq(A)
  PROVE  Pre(s, n) \in Seq(A)
<1> DEFINE X == Seq(A)
           p == [i \in 1..n |-> s[i]]
<1>1. p \in Seq(X)
  BY IsASeq
<1> QED
  BY <1>1, FlattenType DEF Pre

LEMMA PreMore ==
  ASSUME NEW A, NEW n \in Nat, NEW s, \A i \in 1..(n + 1) : s[i] \in Seq(A)
  PROVE  Pre(s, n + 1) = Pre(s, n) \o s[n + 1]
<1> DEFINE X == Seq(A)
           p == [i \in 1..n |-> s[i]]
           q == [i \in 1..(n + 1) |-> s[i]]
<1>1. \A i \in 1..n : s[i] \in X
  OBVIOUS
<1>2. p \in Seq(X) /\ q \in Seq(X)
  BY <1>1, IsASeq
<1>3. Len(p) = n /\ Len(q) = n + 1
  OBVIOUS
<1>4. \A i \in 1..n : q[i] = p[i]
  OBVIOUS
<1>5. q[n + 1] = s[n + 1]
  OBVIOUS
<1> HIDE DEF X, p, q
<1>6. G!FlattenSeq(q) = G!FlattenSeq(p) \o q[Len(q)]
  BY <1>2, <1>3, <1>4, FlattenMore DEF X
<1> QED
  BY <1>3, <1>5, <1>6 DEF Pre, p, q

LEMMA PreAgrees ==
  ASSUME NEW n \in Nat, NEW s, NEW t, \A i \in 1..n : s[i] = t[i]
  PROVE  Pre(s, n) = Pre(t, n)
<1>1. [i \in 1..n |-> s[i]] = [i \in 1..n |-> t[i]]
  OBVIOUS
<1> QED
  BY <1>1 DEF Pre

LEMMA PreAll == ASSUME NEW s, NEW n \in Nat, s = [i \in 1..n |-> s[i]] PROVE Pre(s, n) = G!FlattenSeq(s)
BY DEF Pre

-----------------------------------------------------------------------------
\* resolve, include: what a directive includes are files.

LEMMA AdmittedIsFile ==
  ASSUME NEW name \in Names, G!Admitted(name) PROVE G!FileOf(name) \in Files
<1> DEFINE Loop(n) == [kind |-> "loop", to |-> n]
           R == {Directory[n] : n \in Names} \cup {Loop(n) : n \in Names}
           X == [Names -> R]
           Link(n) == Directory[n].kind = "link"
           x == [n \in Names |-> IF Link(n) THEN Loop(n) ELSE Directory[n]]
           step == [i \in 1..symlinkHops |->
                     [y \in X |-> [n \in Names |-> IF Link(n) THEN y[Directory[n].to] ELSE Directory[n]]]]
<1>1. symlinkHops \in Nat /\ \A n \in Names : Link(n) => Directory[n].to \in Names
  BY DirectoryAssumption
<1>2. x \in X
  OBVIOUS
<1>3. step \in [1..symlinkHops -> [X -> X]]
  <2>1. ASSUME NEW y \in X
        PROVE  [n \in Names |-> IF Link(n) THEN y[Directory[n].to] ELSE Directory[n]] \in X
    <3>1. ASSUME NEW n \in Names PROVE (IF Link(n) THEN y[Directory[n].to] ELSE Directory[n]) \in R
      <4>1. CASE Link(n)
        BY <1>1, <2>1, <4>1
      <4>2. CASE ~Link(n)
        BY <4>2
      <4> QED
        BY <4>1, <4>2
    <3> QED
      BY <3>1
  <2> QED
    BY <2>1
<1> HIDE DEF x, step
<1>4. PICK h \in [0..symlinkHops -> X] : Steps(h, symlinkHops, x, step)
  <2> HIDE DEF X
  <2> QED
    BY <1>1, <1>2, <1>3, Recursion
<1> DEFINE Follows(f) ==
             f = [hops \in 0..symlinkHops |->
                   [n \in Names |->
                     CASE Directory[n].kind # "link" -> Directory[n]
                       [] Directory[n].kind = "link" /\ hops = 0 -> [kind |-> "loop", to |-> n]
                       [] OTHER -> f[hops - 1][Directory[n].to]]]
           follow == CHOOSE f : Follows(f)
<1>5. Follows(h)
  <2>1. ASSUME NEW hops \in 0..symlinkHops
        PROVE  h[hops] = [n \in Names |->
                           CASE Directory[n].kind # "link" -> Directory[n]
                             [] Directory[n].kind = "link" /\ hops = 0 -> [kind |-> "loop", to |-> n]
                             [] OTHER -> h[hops - 1][Directory[n].to]]
    <3>1. CASE hops = 0
      <4>1. h[hops] = x
        BY <1>4, <3>1 DEF Steps
      <4> QED
        BY <3>1, <4>1 DEF x
    <3>2. CASE hops # 0
      <4>1. hops \in 1..symlinkHops /\ hops - 1 \in 0..symlinkHops
        BY <1>1, <3>2
      <4>2. h[hops] = step[hops][h[hops - 1]] /\ h[hops - 1] \in X
        BY <1>4, <4>1 DEF Steps
      <4>3. h[hops] = [n \in Names |-> IF Link(n) THEN h[hops - 1][Directory[n].to] ELSE Directory[n]]
        BY <4>1, <4>2 DEF step
      <4> QED
        BY <3>2, <4>3
    <3> QED
      BY <3>1, <3>2
  <2> QED
    BY <1>4, <2>1
<1>6. Follows(follow)
  BY <1>5
<1> HIDE DEF follow
<1>7. \A hops \in 0..symlinkHops, n \in Names :
        follow[hops][n] = CASE Directory[n].kind # "link" -> Directory[n]
                            [] Directory[n].kind = "link" /\ hops = 0 -> [kind |-> "loop", to |-> n]
                            [] OTHER -> follow[hops - 1][Directory[n].to]
  <2> SUFFICES ASSUME NEW hops \in 0..symlinkHops, NEW n \in Names
               PROVE  follow[hops][n] = CASE Directory[n].kind # "link" -> Directory[n]
                            [] Directory[n].kind = "link" /\ hops = 0 -> [kind |-> "loop", to |-> n]
                            [] OTHER -> follow[hops - 1][Directory[n].to]
    OBVIOUS
  <2>1. follow[hops] = [m \in Names |->
                           CASE Directory[m].kind # "link" -> Directory[m]
                             [] Directory[m].kind = "link" /\ hops = 0 -> [kind |-> "loop", to |-> m]
                             [] OTHER -> follow[hops - 1][Directory[m].to]]
    BY <1>6
  <2> QED
    BY <2>1
<1> DEFINE Wild == {hops \in 0..symlinkHops : ~(\A n \in Names : follow[hops][n] \in R)}
<1>8. Wild = {}
  <2> SUFFICES ASSUME Wild # {} PROVE FALSE
    OBVIOUS
  <2>1. PICK k \in Wild : \A j \in Wild : k <= j
    <3>1. Wild \subseteq Nat
      BY <1>1
    <3> HIDE DEF Wild
    <3> QED
      BY <3>1, LeastNumber
  <2>2. PICK n \in Names : follow[k][n] \notin R
    OBVIOUS
  <2>3. Link(n) /\ k # 0
    <3>1. CASE ~Link(n)
      <4>1. follow[k][n] = Directory[n]
        BY <1>7, <3>1
      <4> QED
        BY <2>2, <4>1
    <3>2. CASE Link(n) /\ k = 0
      <4>1. follow[k][n] = Loop(n)
        BY <1>7, <3>2
      <4> QED
        BY <2>2, <4>1
    <3> QED
      BY <3>1, <3>2
  <2>4. k \in 0..symlinkHops /\ k - 1 \in 0..symlinkHops /\ ~(k <= k - 1)
    BY <1>1, <2>3
  <2>5. \A m \in Names : follow[k - 1][m] \in R
    BY <2>1, <2>4
  <2>6. follow[k][n] = follow[k - 1][Directory[n].to]
    BY <1>7, <2>3, <2>4
  <2> QED
    BY <1>1, <2>2, <2>3, <2>5, <2>6
<1>9. follow[symlinkHops][name] \in R
  BY <1>1, <1>8
<1>10. G!resolve(name) = follow[symlinkHops][name]
  BY DEF G!resolve, follow
<1>11. \A r \in R : r.kind = "file" => r.to \in Files
  BY DirectoryAssumption
<1> QED
  BY <1>9, <1>10, <1>11 DEF G!Admitted, G!FileOf

LEMMA IncludeType == ASSUME NEW names \in Seq(Names) PROVE G!include(names) \in Seq(Files)
<1> DEFINE X == Seq(Files)
           p == [i \in DOMAIN names |-> IF G!Admitted(names[i]) THEN <<G!FileOf(names[i])>> ELSE <<>>]
<1>1. DOMAIN names = 1..Len(names) /\ Len(names) \in Nat /\ \A i \in 1..Len(names) : names[i] \in Names
  BY ElementOfSeq, LenProperties
<1>2. ASSUME NEW i \in 1..Len(names)
      PROVE  (IF G!Admitted(names[i]) THEN <<G!FileOf(names[i])>> ELSE <<>>) \in X
  <2>1. CASE G!Admitted(names[i])
    <3>1. G!FileOf(names[i]) \in Files
      BY <1>1, <2>1, AdmittedIsFile
    <3> QED
      BY <2>1, <3>1
  <2>2. CASE ~G!Admitted(names[i])
    BY <2>2
  <2> QED
    BY <2>1, <2>2
<1>3. p \in Seq(X)
  BY <1>1, <1>2, IsASeq
<1>4. G!FlattenSeq(p) \in Seq(Files)
  <2> HIDE DEF p
  <2> QED
    BY <1>3, FlattenType
<1> QED
  BY <1>4 DEF G!include

LEMMA IncludeNothing == G!include(<<>>) = <<>>
<1>1. [i \in DOMAIN <<>> |-> IF G!Admitted(<<>>[i]) THEN <<G!FileOf(<<>>[i])>> ELSE <<>>] = <<>>
  OBVIOUS
<1> QED
  BY <1>1, FlattenEmpty DEF G!include

-----------------------------------------------------------------------------
\* NginxLoad: what the frames, the files that are through and the tree have to do with
\* each other.

Config == Seq(G!Item)
Words == Files \X Nat
Frames == [file : Files, rest : Config, pending : Seq(Files)]

LoadType ==
  /\ disk \in [Files -> Config]
  /\ lim \in Limits /\ includes \in Nat
  /\ entry \in Seq(Files) /\ todo \in Seq(Files)
  /\ parsed \in [Files -> Config \cup {G!NotRead}]
  /\ stack \in Seq(Frames)
  /\ tree \in Seq(Words)

\* Level 0 are the entry files, level k the directive the frame k is at: the files it
\* includes, and how many of them have had their turn.
Taken(k) == Len(parsed[stack[k].file]) - Len(stack[k].rest)
At(k) == parsed[stack[k].file][Taken(k)]
List(k) ==
  CASE k = 0 -> entry
    [] k # 0 /\ Taken(k) = 0 -> <<>>
    [] OTHER -> G!include(At(k).names)
Left(k) == IF k = 0 THEN todo ELSE stack[k].pending
Spliced(k) == Len(List(k)) - Len(Left(k))
Through(k) == IF k = Len(stack) THEN Spliced(k) ELSE Spliced(k) - 1

FramesFit ==
  /\ \A k \in 1..Len(stack) :
       /\ parsed[stack[k].file] # G!NotRead
       /\ Taken(k) \in Nat
       /\ \A i \in 1..Len(stack[k].rest) : stack[k].rest[i] = parsed[stack[k].file][Taken(k) + i]
  /\ \A k \in 0..Len(stack) :
       /\ Spliced(k) \in Nat
       /\ \A j \in 1..Len(Left(k)) : Left(k)[j] = List(k)[Spliced(k) + j]
       /\ k # Len(stack) => Spliced(k) # 0 /\ List(k)[Spliced(k)] = stack[k + 1].file
  /\ \A i, j \in 1..Len(stack) : stack[i].file = stack[j].file => i = j

\* Files that are through, in the order they were: each includes earlier ones only.
Ordered(order) ==
  /\ order \in Seq(Files)
  /\ \A i, j \in 1..Len(order) : order[i] = order[j] => i = j
  /\ \A i \in 1..Len(order) :
       /\ parsed[order[i]] # G!NotRead
       /\ \A g \in Files : G!Mentions(order[i], g) => \E j \in 1..(i - 1) : order[j] = g

Behind(order) == {order[i] : i \in 1..Len(order)}

AllThrough(order) ==
  /\ \A f \in Files : parsed[f] # G!NotRead => f \in Behind(order) \/ \E k \in 1..Len(stack) : stack[k].file = f
  /\ \A k \in 1..Len(stack) : \A i \in 1..(Taken(k) - 1) :
       \A g \in Files : g \in Range(G!include(parsed[stack[k].file][i].names)) => g \in Behind(order)
  /\ \A k \in 0..Len(stack) : \A j \in 1..Through(k) : List(k)[j] \in Behind(order)

\* What they say, unfolded.
Said(said, fs) == [j \in DOMAIN fs |-> said[fs[j]]]
Text(said, f, d) ==
  IF d.include THEN G!FlattenSeq(Said(said, G!include(d.names))) ELSE <<<<f, d.word>>>>
Texts(said, f) == [i \in DOMAIN parsed[f] |-> Text(said, f, parsed[f][i])]

Tells(said, order) ==
  /\ said \in [Files -> Seq(Words)]
  /\ \A f \in Behind(order) : said[f] = G!FlattenSeq(Texts(said, f))

\* What each level has brought.
Piece(said, k) ==
  CASE k = 0 -> Pre(Said(said, entry), Through(0))
    [] k # 0 /\ Taken(k) = 0 -> <<>>
    [] OTHER -> Pre(Texts(said, stack[k].file), Taken(k) - 1)
                  \o (IF At(k).include THEN Pre(Said(said, List(k)), Through(k))
                      ELSE <<<<stack[k].file, At(k).word>>>>)
Pieces(said) == [k \in 1..(Len(stack) + 1) |-> Piece(said, k - 1)]

LoadInv(order, said) ==
  /\ LoadType
  /\ FramesFit
  /\ Ordered(order)
  /\ AllThrough(order)
  /\ Tells(said, order)
  /\ tree = G!FlattenSeq(Pieces(said))

LEMMA ItemIs ==
  ASSUME NEW d \in G!Item
  PROVE  /\ d.include \in BOOLEAN /\ d.word \in Nat /\ d.names \in Seq(Names)
         /\ G!include(d.names) \in Seq(Files)
         /\ ~d.include => G!include(d.names) = <<>>
<1>1. /\ d.include \in BOOLEAN /\ d.word \in Nat /\ d.names \in Seq(Names)
      /\ ~d.include => d.names = <<>>
  <2>1. CASE d \in [include : {TRUE}, word : {0}, names : Seq(Names)]
    <3>1. d.include = TRUE /\ d.word = 0 /\ d.names \in Seq(Names)
      BY <2>1
    <3>2. d.include \in BOOLEAN /\ (~d.include => d.names = <<>>)
      BY <3>1, Zenon
    <3>3. d.word \in Nat
      BY <3>1
    <3> QED
      BY <3>1, <3>2, <3>3, Zenon
  <2>2. CASE d \in [include : {FALSE}, word : Nat, names : {<<>>}]
    <3>1. d.names = <<>> /\ d.include = FALSE /\ d.word \in Nat
      BY <2>2
    <3>2. <<>> \in Seq(Names)
      BY EmptySeq
    <3> QED
      BY <3>1, <3>2
  <2> QED
    BY <2>1, <2>2 DEF G!Item
<1> QED
  BY <1>1, IncludeType, IncludeNothing

LEMMA NotReadIsApart == G!NotRead \notin Config
<1> SUFFICES ASSUME G!NotRead \in Config PROVE FALSE
  OBVIOUS
<1>1. G!NotRead = <<[include |-> TRUE, word |-> 1, names |-> <<>>]>>
  BY DEF G!NotRead
<1>2. G!NotRead[1] \in G!Item
  <2>1. Len(G!NotRead) = 1
    BY <1>1
  <2> QED
    BY <2>1, ElementOfSeq DEF Config
<1>3. G!NotRead[1].include = TRUE /\ G!NotRead[1].word = 1
  BY <1>1
<1> DEFINE d == G!NotRead[1]
<1>4. d.include = TRUE /\ d.word = 1
  BY <1>3
<1>5. d \in [include : {TRUE}, word : {0}, names : Seq(Names)]
      \/ d \in [include : {FALSE}, word : Nat, names : {<<>>}]
  BY <1>2 DEF G!Item
<1> HIDE DEF d
<1>6. CASE d \in [include : {TRUE}, word : {0}, names : Seq(Names)]
  BY <1>4, <1>6
<1>7. CASE d \in [include : {FALSE}, word : Nat, names : {<<>>}]
  <2>1. d.include = FALSE
    BY <1>7
  <2> QED
    BY <1>4, <2>1
<1> QED
  BY <1>5, <1>6, <1>7

LEMMA ParsedIs ==
  ASSUME LoadType, NEW f \in Files, parsed[f] # G!NotRead
  PROVE  /\ parsed[f] \in Seq(G!Item)
         /\ Len(parsed[f]) \in Nat /\ DOMAIN parsed[f] = 1..Len(parsed[f])
         /\ \A i \in 1..Len(parsed[f]) : parsed[f][i] \in G!Item
<1>1. parsed[f] \in Seq(G!Item)
  BY DEF LoadType, Config
<1> QED
  BY <1>1, ElementOfSeq, LenProperties

LEMMA FilesIs ==
  ASSUME NEW fs \in Seq(Files)
  PROVE  Len(fs) \in Nat /\ DOMAIN fs = 1..Len(fs) /\ \A i \in 1..Len(fs) : fs[i] \in Files
BY ElementOfSeq, LenProperties

LEMMA StackIs ==
  ASSUME LoadType
  PROVE  /\ Len(stack) \in Nat /\ DOMAIN stack = 1..Len(stack)
         /\ \A k \in 1..Len(stack) :
              /\ stack[k].file \in Files /\ stack[k].rest \in Config /\ stack[k].pending \in Seq(Files)
              /\ Len(stack[k].rest) \in Nat
<1>1. stack \in Seq(Frames)
  BY DEF LoadType
<1>2. /\ Len(stack) \in Nat /\ DOMAIN stack = 1..Len(stack)
      /\ \A k \in 1..Len(stack) : stack[k] \in Frames
  BY <1>1, ElementOfSeq, LenProperties
<1>3. \A k \in 1..Len(stack) :
              /\ stack[k].file \in Files /\ stack[k].rest \in Config /\ stack[k].pending \in Seq(Files)
  BY <1>2 DEF Frames
<1>4. \A k \in 1..Len(stack) : Len(stack[k].rest) \in Nat
  BY <1>3, LenProperties DEF Config
<1> QED
  BY <1>2, <1>3, <1>4

\* Where a frame is.
LEMMA FrameIs ==
  ASSUME LoadType, FramesFit, NEW k \in 1..Len(stack)
  PROVE  /\ stack[k].file \in Files
         /\ Taken(k) \in 0..Len(parsed[stack[k].file])
         /\ Len(stack[k].rest) = Len(parsed[stack[k].file]) - Taken(k)
         /\ Taken(k) # 0 => At(k) \in G!Item
<1> DEFINE f == stack[k].file
<1>1. f \in Files /\ Len(stack[k].rest) \in Nat /\ parsed[f] # G!NotRead /\ Taken(k) \in Nat
  BY StackIs DEF FramesFit
<1>2. Len(parsed[f]) \in Nat /\ \A i \in 1..Len(parsed[f]) : parsed[f][i] \in G!Item
  BY <1>1, ParsedIs
<1>3. Taken(k) = Len(parsed[f]) - Len(stack[k].rest)
  BY DEF Taken
<1>4. Taken(k) \in 0..Len(parsed[f]) /\ Len(stack[k].rest) = Len(parsed[f]) - Taken(k)
  <2> DEFINE l == Len(parsed[f])
             r == Len(stack[k].rest)
             t == Taken(k)
  <2>1. l \in Nat /\ r \in Nat /\ t \in Nat /\ t = l - r
    BY <1>1, <1>2, <1>3
  <2> HIDE DEF l, r, t
  <2>2. t \in 0..l /\ r = l - t
    BY <2>1
  <2> QED
    BY <2>2 DEF l, r, t
<1> QED
  BY <1>1, <1>2, <1>4 DEF At

LEMMA LevelIs ==
  ASSUME LoadType, FramesFit, NEW k \in 0..Len(stack)
  PROVE  /\ List(k) \in Seq(Files) /\ Left(k) \in Seq(Files)
         /\ Len(List(k)) \in Nat /\ Len(Left(k)) \in Nat
         /\ \A j \in 1..Len(List(k)) : List(k)[j] \in Files
         /\ Spliced(k) \in 0..Len(List(k)) /\ Through(k) \in 0..Len(List(k))
         /\ Len(Left(k)) = Len(List(k)) - Spliced(k)
<1>1. List(k) \in Seq(Files) /\ Left(k) \in Seq(Files)
  <2>1. CASE k = 0
    BY <2>1 DEF List, Left, LoadType
  <2>2. CASE k # 0
    <3>1. k \in 1..Len(stack)
      BY <2>2, StackIs
    <3>2. Left(k) \in Seq(Files)
      BY <2>2, <3>1, StackIs DEF Left
    <3>3. CASE Taken(k) = 0
      <4>1. List(k) = <<>>
        BY <2>2, <3>3 DEF List
      <4> QED
        BY <3>2, <4>1, EmptySeq
    <3>4. CASE Taken(k) # 0
      <4>1. At(k) \in G!Item
        BY <3>1, <3>4, FrameIs
      <4>2. List(k) = G!include(At(k).names)
        BY <2>2, <3>4 DEF List
      <4> QED
        BY <3>2, <4>1, <4>2, ItemIs
    <3> QED
      BY <3>3, <3>4
  <2> QED
    BY <2>1, <2>2
<1>2. Len(List(k)) \in Nat /\ Len(Left(k)) \in Nat /\ \A j \in 1..Len(List(k)) : List(k)[j] \in Files
  BY <1>1, FilesIs
<1>3. Spliced(k) = Len(List(k)) - Len(Left(k)) /\ Spliced(k) \in Nat /\ (k # Len(stack) => Spliced(k) # 0)
  BY DEF Spliced, FramesFit
<1>4. Through(k) = IF k = Len(stack) THEN Spliced(k) ELSE Spliced(k) - 1
  BY DEF Through
<1> QED
  BY <1>1, <1>2, <1>3, <1>4

\* What was said is words.
LEMMA SaidIs ==
  ASSUME NEW said \in [Files -> Seq(Words)], NEW fs \in Seq(Files)
  PROVE  /\ Said(said, fs) \in Seq(Seq(Words)) /\ Said(said, fs) = [j \in 1..Len(fs) |-> said[fs[j]]]
         /\ \A j \in 1..Len(fs) : Said(said, fs)[j] \in Seq(Words)
<1> DEFINE X == Seq(Words)
<1>1. Len(fs) \in Nat /\ DOMAIN fs = 1..Len(fs) /\ \A j \in 1..Len(fs) : fs[j] \in Files
  BY FilesIs
<1>2. Said(said, fs) = [j \in 1..Len(fs) |-> said[fs[j]]]
  BY <1>1 DEF Said
<1>3. \A j \in 1..Len(fs) : said[fs[j]] \in X
  BY <1>1
<1> HIDE DEF X
<1>4. Said(said, fs) \in Seq(X)
  BY <1>1, <1>2, <1>3, IsASeq
<1> QED
  BY <1>2, <1>3, <1>4 DEF X

LEMMA TextIs ==
  ASSUME NEW said \in [Files -> Seq(Words)], NEW f \in Files, NEW d \in G!Item
  PROVE  Text(said, f, d) \in Seq(Words)
<1>1. CASE d.include
  <2>1. Said(said, G!include(d.names)) \in Seq(Seq(Words))
    BY ItemIs, SaidIs
  <2>2. G!FlattenSeq(Said(said, G!include(d.names))) \in Seq(Words)
    BY <2>1, FlattenType
  <2> QED
    BY <1>1, <2>2 DEF Text
<1>2. CASE ~d.include
  <2>1. <<f, d.word>> \in Words
    BY ItemIs DEF Words
  <2> QED
    BY <1>2, <2>1 DEF Text
<1> QED
  BY <1>1, <1>2

LEMMA TextsIs ==
  ASSUME LoadType, NEW said \in [Files -> Seq(Words)], NEW f \in Files, parsed[f] # G!NotRead
  PROVE  /\ Texts(said, f) = [i \in 1..Len(parsed[f]) |-> Text(said, f, parsed[f][i])]
         /\ Texts(said, f) \in Seq(Seq(Words))
         /\ \A i \in 1..Len(parsed[f]) : Texts(said, f)[i] \in Seq(Words)
<1> DEFINE X == Seq(Words)
<1>1. /\ Len(parsed[f]) \in Nat /\ DOMAIN parsed[f] = 1..Len(parsed[f])
      /\ \A i \in 1..Len(parsed[f]) : parsed[f][i] \in G!Item
  BY ParsedIs
<1>2. Texts(said, f) = [i \in 1..Len(parsed[f]) |-> Text(said, f, parsed[f][i])]
  BY <1>1 DEF Texts
<1>3. \A i \in 1..Len(parsed[f]) : Text(said, f, parsed[f][i]) \in X
  BY <1>1, TextIs
<1> HIDE DEF X
<1>4. Texts(said, f) \in Seq(X)
  BY <1>1, <1>2, <1>3, IsASeq
<1> QED
  BY <1>2, <1>3, <1>4 DEF X

LEMMA PieceIs ==
  ASSUME LoadType, FramesFit, NEW said \in [Files -> Seq(Words)], NEW k \in 0..Len(stack)
  PROVE  Piece(said, k) \in Seq(Words)
<1>1. /\ List(k) \in Seq(Files) /\ Through(k) \in Nat /\ Through(k) <= Len(List(k)) /\ Len(List(k)) \in Nat
  BY LevelIs
<1>2. Pre(Said(said, List(k)), Through(k)) \in Seq(Words)
  <2>1. \A j \in 1..Through(k) : Said(said, List(k))[j] \in Seq(Words)
    BY <1>1, SaidIs
  <2> QED
    BY <1>1, <2>1, PreType
<1>3. CASE k = 0
  BY <1>2, <1>3 DEF Piece, List
<1>4. CASE k # 0 /\ Taken(k) = 0
  BY <1>4, EmptySeq DEF Piece
<1>5. CASE k # 0 /\ Taken(k) # 0
  <2> DEFINE f == stack[k].file
             X == Seq(Words)
  <2>1. k \in 1..Len(stack)
    BY <1>5, StackIs
  <2>2. f \in Files /\ parsed[f] # G!NotRead /\ At(k) \in G!Item /\ Taken(k) \in 1..Len(parsed[f])
    BY <1>5, <2>1, FrameIs DEF FramesFit
  <2>3. Pre(Texts(said, f), Taken(k) - 1) \in X
    <3>1. Taken(k) - 1 \in Nat /\ \A i \in 1..(Taken(k) - 1) : i \in 1..Len(parsed[f])
      BY <2>2
    <3>2. \A i \in 1..(Taken(k) - 1) : Texts(said, f)[i] \in Seq(Words)
      BY <2>2, <3>1, TextsIs
    <3> QED
      BY <3>1, <3>2, PreType
  <2>4. <<<<f, At(k).word>>>> \in X
    <3>1. <<f, At(k).word>> \in Words
      BY <2>2, ItemIs DEF Words
    <3> QED
      BY <3>1
  <2>5. (IF At(k).include THEN Pre(Said(said, List(k)), Through(k)) ELSE <<<<f, At(k).word>>>>) \in X
    BY <1>2, <2>4
  <2>6. Piece(said, k) = Pre(Texts(said, f), Taken(k) - 1)
                  \o (IF At(k).include THEN Pre(Said(said, List(k)), Through(k)) ELSE <<<<f, At(k).word>>>>)
    BY <1>5 DEF Piece
  <2> HIDE DEF f
  <2> QED
    BY <2>3, <2>5, <2>6, ConcatProperties
<1> QED
  BY <1>3, <1>4, <1>5

-----------------------------------------------------------------------------
\* What a step leaves as it was.

LEMMA SameLevel ==
  ASSUME NEW k \in Nat, NEW said, entry' = entry,
         k # 0 => /\ stack'[k].file = stack[k].file /\ stack'[k].rest = stack[k].rest
                  /\ parsed'[stack[k].file] = parsed[stack[k].file]
  PROVE  /\ List(k)' = List(k)
         /\ k # 0 => /\ Taken(k)' = Taken(k) /\ At(k)' = At(k)
                     /\ Texts(said, stack[k].file)' = Texts(said, stack[k].file)
         /\ Through(k)' = Through(k) => Piece(said, k)' = Piece(said, k)
<1>1. k # 0 => /\ Taken(k)' = Taken(k) /\ At(k)' = At(k)
  BY DEF Taken, At
<1>2. k # 0 => Texts(said, stack[k].file)' = Texts(said, stack[k].file)
  BY DEF Texts
<1>3. List(k)' = List(k)
  BY <1>1 DEF List
<1>4. ASSUME Through(k)' = Through(k) PROVE Piece(said, k)' = Piece(said, k)
  <2>1. CASE k = 0
    BY <1>4, <2>1 DEF Piece
  <2>2. CASE k # 0
    BY <1>1, <1>2, <1>3, <1>4, <2>2 DEF Piece
  <2> QED
    BY <2>1, <2>2
<1> QED
  BY <1>1, <1>2, <1>3, <1>4

LEMMA CacheKeeps ==
  ASSUME NEW order, NEW said, Ordered(order), Tells(said, order),
         \A f \in Behind(order) : parsed'[f] = parsed[f]
  PROVE  Ordered(order)' /\ Tells(said, order)'
<1>1. \A i \in 1..Len(order) : order[i] \in Behind(order)
  BY DEF Behind
<1>2. Ordered(order)'
  <2>1. ASSUME NEW i \in 1..Len(order), NEW g \in Files
        PROVE  G!Mentions(order[i], g)' = G!Mentions(order[i], g)
    <3>1. parsed'[order[i]] = parsed[order[i]]
      BY <1>1
    <3> QED
      BY <3>1 DEF G!Mentions
  <2>2. \A i \in 1..Len(order) : parsed'[order[i]] # G!NotRead
    BY <1>1 DEF Ordered
  <2> QED
    BY <2>1, <2>2 DEF Ordered
<1>3. Tells(said, order)'
  <2>1. ASSUME NEW f \in Behind(order) PROVE Texts(said, f)' = Texts(said, f)
    BY DEF Texts
  <2> QED
    BY <2>1 DEF Tells
<1> QED
  BY <1>2, <1>3

LEMMA TreeIs ==
  ASSUME LoadType, FramesFit, NEW said \in [Files -> Seq(Words)]
  PROVE  /\ Pieces(said) \in Seq(Seq(Words)) /\ Len(Pieces(said)) = Len(stack) + 1
         /\ \A k \in 0..Len(stack) : Pieces(said)[k + 1] = Piece(said, k)
<1> DEFINE X == Seq(Words)
           m == Len(stack)
<1>1. m \in Nat /\ \A k \in 0..m : Piece(said, k) \in X
  BY StackIs, PieceIs
<1> HIDE DEF X, m
<1>2. Pieces(said) = [k \in 1..(m + 1) |-> Piece(said, k - 1)]
  BY DEF Pieces, m
<1>3. \A k \in 1..(m + 1) : k - 1 \in 0..m
  BY <1>1
<1>4. \A k \in 1..(m + 1) : Piece(said, k - 1) \in X
  BY <1>1, <1>3
<1>5. Pieces(said) \in Seq(X) /\ Len(Pieces(said)) = m + 1
  BY <1>1, <1>2, <1>4, IsASeq
<1>6. ASSUME NEW k \in 0..m PROVE Pieces(said)[k + 1] = Piece(said, k)
  <2>1. k + 1 \in 1..(m + 1) /\ (k + 1) - 1 = k
    BY <1>1
  <2> QED
    BY <1>2, <2>1
<1> QED
  BY <1>5, <1>6 DEF X, m

-----------------------------------------------------------------------------
\* read, expand: a file is entered.

LEMMA Push ==
  ASSUME NEW order, NEW said, LoadInv(order, said), NEW m \in Nat, m = Len(stack), NEW f \in Files,
         Left(m) # <<>>, f = Head(Left(m)), Left(m)' = Tail(Left(m)),
         \A k \in 1..m : stack[k].file # f,
         parsed' \in [Files -> Config \cup {G!NotRead}], parsed'[f] \in Config,
         \A g \in Files : parsed[g] # G!NotRead \/ g # f => parsed'[g] = parsed[g],
         stack' \in Seq(Frames), Len(stack') = m + 1,
         stack'[m + 1] = [file |-> f, rest |-> parsed'[f], pending |-> <<>>],
         \A k \in 1..m : stack'[k].file = stack[k].file /\ stack'[k].rest = stack[k].rest,
         \A k \in 1..m : k # m => stack'[k].pending = stack[k].pending,
         m # 0 => todo' = todo, todo' \in Seq(Files),
         UNCHANGED <<disk, lim, entry, tree>>, includes' \in Nat
  PROVE  LoadInv(order, said)'
<1>1. /\ LoadType /\ FramesFit /\ Ordered(order) /\ AllThrough(order) /\ Tells(said, order)
      /\ tree = G!FlattenSeq(Pieces(said))
  BY DEF LoadInv
<1>2. LoadType'
  BY <1>1 DEF LoadType
<1>3. ASSUME NEW k \in 1..m
      PROVE  /\ stack[k].file \in Files /\ stack[k].file # f /\ parsed'[stack[k].file] = parsed[stack[k].file]
             /\ parsed[stack[k].file] # G!NotRead
  BY <1>1, StackIs DEF FramesFit
<1>4. ASSUME NEW k \in 0..m
      PROVE  /\ List(k)' = List(k)
             /\ k # 0 => Taken(k)' = Taken(k)
             /\ Through(k)' = Through(k) => Piece(said, k)' = Piece(said, k)
  <2>1. k # 0 => k \in 1..m
    OBVIOUS
  <2>2. entry' = entry /\ k \in Nat
    OBVIOUS
  <2> QED
    BY <1>3, <2>1, <2>2, SameLevel
<1>5. ASSUME NEW k \in 0..m, k # m
      PROVE  Left(k)' = Left(k) /\ Spliced(k)' = Spliced(k) /\ Through(k)' = Through(k)
  <2>1. Left(k)' = Left(k)
    BY <1>5 DEF Left
  <2>2. Spliced(k)' = Spliced(k)
    BY <1>4, <2>1 DEF Spliced
  <2>3. k # m + 1
    OBVIOUS
  <2> QED
    BY <1>5, <2>1, <2>2, <2>3 DEF Through
<1>6. /\ List(m) \in Seq(Files) /\ Left(m) \in Seq(Files) /\ Len(List(m)) \in Nat /\ Len(Left(m)) \in Nat
      /\ Spliced(m) \in 0..Len(List(m)) /\ Len(Left(m)) = Len(List(m)) - Spliced(m)
  BY <1>1, LevelIs
<1>7. /\ Len(Left(m)) # 0 /\ f = Left(m)[1] /\ Len(Left(m)') = Len(Left(m)) - 1
      /\ \A j \in 1..(Len(Left(m)) - 1) : Left(m)'[j] = Left(m)[j + 1]
  <2>1. Len(Left(m)) # 0
    BY <1>6, EmptySeq
  <2> QED
    BY <1>6, <2>1, HeadTailProperties
<1>8. Spliced(m)' = Spliced(m) + 1 /\ Through(m)' = Through(m)
  <2>1. Spliced(m)' = Len(List(m)) - (Len(Left(m)) - 1)
    <3>1. List(m)' = List(m)
      BY <1>4
    <3>2. Spliced(m)' = Len(List(m)') - Len(Left(m)')
      BY DEF Spliced
    <3> QED
      BY <1>7, <3>1, <3>2
  <2>2. Spliced(m) = Len(List(m)) - Len(Left(m))
    BY DEF Spliced
  <2>3. Spliced(m)' = Spliced(m) + 1
    BY <1>6, <2>1, <2>2
  <2>4. Through(m) = Spliced(m) /\ Through(m)' = Spliced(m)' - 1
    BY DEF Through
  <2> QED
    BY <1>6, <2>3, <2>4
<1>9. /\ Taken(m + 1)' = 0 /\ List(m + 1)' = <<>> /\ Left(m + 1)' = <<>> /\ Spliced(m + 1)' = 0
      /\ Through(m + 1)' = 0 /\ Piece(said, m + 1)' = <<>> /\ stack'[m + 1].file = f
  <2>1. stack'[m + 1].file = f /\ stack'[m + 1].rest = parsed'[f] /\ stack'[m + 1].pending = <<>>
    OBVIOUS
  <2>2. Len(parsed'[f]) \in Nat
    BY LenProperties DEF Config
  <2>3. Taken(m + 1)' = 0
    BY <2>1, <2>2 DEF Taken
  <2>4. m + 1 # 0
    OBVIOUS
  <2>5. List(m + 1)' = <<>> /\ Left(m + 1)' = <<>> /\ Piece(said, m + 1)' = <<>>
    BY <2>1, <2>3, <2>4 DEF List, Left, Piece
  <2>6. Spliced(m + 1)' = 0
    BY <2>5 DEF Spliced
  <2> QED
    BY <2>1, <2>3, <2>5, <2>6 DEF Through
<1>10. FramesFit'
  <2>1. ASSUME NEW k \in 1..(m + 1)
        PROVE  /\ parsed'[stack'[k].file] # G!NotRead
               /\ Taken(k)' \in Nat
               /\ \A i \in 1..Len(stack'[k].rest) : stack'[k].rest[i] = parsed'[stack'[k].file][Taken(k)' + i]
    <3>1. CASE k = m + 1
      <4>1. parsed'[f] # G!NotRead
        BY NotReadIsApart
      <4>2. stack'[k].rest = parsed'[f] /\ stack'[k].file = f /\ Taken(k)' = 0
        BY <1>9, <3>1
      <4>3. \A i \in 1..Len(parsed'[f]) : 0 + i = i
        OBVIOUS
      <4> QED
        BY <4>1, <4>2, <4>3
    <3>2. CASE k # m + 1
      <4>1. k \in 1..m /\ k \in 0..m /\ k # 0
        BY <3>2
      <4>2. Taken(k)' = Taken(k)
        BY <1>4, <4>1
      <4>3. stack'[k].file = stack[k].file /\ stack'[k].rest = stack[k].rest
        BY <4>1
      <4>4. parsed'[stack[k].file] = parsed[stack[k].file] /\ parsed[stack[k].file] # G!NotRead
        BY <1>3, <4>1
      <4>5. /\ Taken(k) \in Nat
            /\ \A i \in 1..Len(stack[k].rest) : stack[k].rest[i] = parsed[stack[k].file][Taken(k) + i]
        BY <1>1, <4>1 DEF FramesFit
      <4> QED
        BY <4>2, <4>3, <4>4, <4>5
    <3> QED
      BY <3>1, <3>2
  <2>2. ASSUME NEW k \in 0..(m + 1)
        PROVE  /\ Spliced(k)' \in Nat
               /\ \A j \in 1..Len(Left(k)') : Left(k)'[j] = List(k)'[Spliced(k)' + j]
               /\ k # m + 1 => Spliced(k)' # 0 /\ List(k)'[Spliced(k)'] = stack'[k + 1].file
    <3>1. CASE k = m + 1
      <4>1. Spliced(k)' = 0 /\ Len(Left(k)') = 0
        BY <1>9, <3>1
      <4> QED
        BY <3>1, <4>1
    <3>2. CASE k = m
      <4>1. \A j \in 1..Len(Left(m)) : Left(m)[j] = List(m)[Spliced(m) + j]
        BY <1>1, <3>2 DEF FramesFit
      <4>2. Spliced(m)' \in Nat /\ Spliced(m)' # 0 /\ List(m)' = List(m)
        BY <1>4, <1>6, <1>8
      <4>3. ASSUME NEW j \in 1..Len(Left(m)') PROVE Left(m)'[j] = List(m)'[Spliced(m)' + j]
        <5>1. j \in 1..(Len(Left(m)) - 1) /\ j + 1 \in 1..Len(Left(m))
          BY <1>6, <1>7
        <5>2. Left(m)'[j] = List(m)[Spliced(m) + (j + 1)]
          BY <1>7, <4>1, <5>1
        <5>3. Spliced(m) + (j + 1) = Spliced(m)' + j
          BY <1>6, <1>8, <5>1, SMTT(30)
        <5> QED
          BY <4>2, <5>2, <5>3
      <4>4. List(m)'[Spliced(m)'] = f
        <5>1. 1 \in 1..Len(Left(m))
          BY <1>6, <1>7
        <5> QED
          BY <1>7, <1>8, <4>1, <4>2, <5>1
      <4> QED
        BY <1>9, <3>2, <4>2, <4>3, <4>4
    <3>3. CASE k # m + 1 /\ k # m
      <4>1. k \in 0..m /\ k # m /\ k + 1 \in 1..m
        BY <3>3
      <4>2. /\ Spliced(k) \in Nat
            /\ \A j \in 1..Len(Left(k)) : Left(k)[j] = List(k)[Spliced(k) + j]
            /\ Spliced(k) # 0 /\ List(k)[Spliced(k)] = stack[k + 1].file
        BY <1>1, <4>1 DEF FramesFit
      <4>3. Left(k)' = Left(k) /\ Spliced(k)' = Spliced(k) /\ List(k)' = List(k)
        BY <1>4, <1>5, <4>1
      <4>4. stack'[k + 1].file = stack[k + 1].file
        BY <4>1
      <4> QED
        BY <4>2, <4>3, <4>4
    <3> QED
      BY <3>1, <3>2, <3>3
  <2>3. \A i, j \in 1..(m + 1) : stack'[i].file = stack'[j].file => i = j
    <3>1. \A i, j \in 1..m : stack[i].file = stack[j].file => i = j
      BY <1>1 DEF FramesFit
    <3>2. \A i \in 1..(m + 1) : i # m + 1 => i \in 1..m
      OBVIOUS
    <3> QED
      BY <1>9, <3>1, <3>2
  <2> QED
    BY <2>1, <2>2, <2>3 DEF FramesFit
<1>11. \A g \in Behind(order) : g \in Files /\ parsed'[g] = parsed[g]
  <2>1. \A i \in 1..Len(order) : order[i] \in Files /\ parsed[order[i]] # G!NotRead
    BY <1>1, FilesIs DEF Ordered
  <2> QED
    BY <2>1 DEF Behind
<1>12. Ordered(order)' /\ Tells(said, order)'
  BY <1>1, <1>11, CacheKeeps
<1>13. AllThrough(order)'
  <2>1. ASSUME NEW g \in Files, parsed'[g] # G!NotRead
        PROVE  g \in Behind(order) \/ \E k \in 1..(m + 1) : stack'[k].file = g
    <3>1. CASE g = f
      <4>1. m + 1 \in 1..(m + 1)
        OBVIOUS
      <4> QED
        BY <1>9, <3>1, <4>1
    <3>2. CASE g # f
      <4>1. parsed[g] # G!NotRead
        BY <2>1, <3>2
      <4>2. g \in Behind(order) \/ \E k \in 1..m : stack[k].file = g
        BY <1>1, <4>1 DEF AllThrough
      <4>3. \A k \in 1..m : k \in 1..(m + 1)
        OBVIOUS
      <4> QED
        BY <4>2, <4>3
    <3> QED
      BY <3>1, <3>2
  <2>2. ASSUME NEW k \in 1..(m + 1), NEW i \in 1..(Taken(k)' - 1), NEW g \in Files,
               g \in Range(G!include(parsed'[stack'[k].file][i].names))
        PROVE  g \in Behind(order)
    <3>1. k # m + 1
      BY <1>9
    <3>2. k \in 1..m /\ k \in 0..m /\ k # 0
      BY <3>1
    <3>3. Taken(k)' = Taken(k) /\ stack'[k].file = stack[k].file /\ parsed'[stack[k].file] = parsed[stack[k].file]
      BY <1>3, <1>4, <3>2
    <3>4. i \in 1..(Taken(k) - 1) /\ g \in Range(G!include(parsed[stack[k].file][i].names))
      BY <2>2, <3>3
    <3> QED
      BY <1>1, <3>2, <3>4 DEF AllThrough
  <2>3. ASSUME NEW k \in 0..(m + 1), NEW j \in 1..Through(k)' PROVE List(k)'[j] \in Behind(order)
    <3>1. k # m + 1
      BY <1>9
    <3>2. k \in 0..m
      BY <3>1
    <3>3. Through(k)' = Through(k) /\ List(k)' = List(k)
      BY <1>4, <1>5, <1>8, <3>2
    <3> QED
      BY <1>1, <3>2, <3>3 DEF AllThrough
  <2> QED
    BY <2>1, <2>2, <2>3 DEF AllThrough
<1>14. tree' = G!FlattenSeq(Pieces(said)')
  <2> DEFINE X == Seq(Words)
             s == Pieces(said)
             t == Pieces(said)'
  <2>1. said \in [Files -> Seq(Words)]
    BY <1>1 DEF Tells
  <2>2. s \in Seq(X) /\ Len(s) = m + 1 /\ \A k \in 0..m : s[k + 1] = Piece(said, k)
    BY <1>1, <2>1, TreeIs
  <2>3. t = [k \in 1..(m + 2) |-> Piece(said, k - 1)']
    BY DEF Pieces
  <2>4. \A k \in 1..(m + 1) : t[k] = s[k]
    <3> SUFFICES ASSUME NEW k \in 1..(m + 1) PROVE t[k] = s[k]
      OBVIOUS
    <3>1. k \in 1..(m + 2) /\ k - 1 \in 0..m /\ (k - 1) + 1 = k
      OBVIOUS
    <3>2. Through(k - 1)' = Through(k - 1)
      BY <1>5, <1>8, <3>1
    <3>3. Piece(said, k - 1)' = Piece(said, k - 1)
      BY <1>4, <3>1, <3>2
    <3>4. t[k] = Piece(said, k - 1)'
      BY <2>3, <3>1
    <3> QED
      BY <2>2, <3>1, <3>3, <3>4
  <2>5. t[m + 2] = <<>>
    <3>1. m + 2 \in 1..(m + 2) /\ (m + 2) - 1 = m + 1
      OBVIOUS
    <3> QED
      BY <1>9, <2>3, <3>1
  <2>6. t \in Seq(X) /\ Len(t) = m + 2
    <3>1. \A k \in 1..(m + 2) : t[k] \in X
      <4> SUFFICES ASSUME NEW k \in 1..(m + 2) PROVE t[k] \in X
        OBVIOUS
      <4>1. CASE k = m + 2
        BY <2>5, <4>1, EmptySeq
      <4>2. CASE k # m + 2
        <5>1. k \in 1..(m + 1)
          BY <4>2
        <5> QED
          BY <2>2, <2>4, <5>1, ElementOfSeq
      <4> QED
        BY <4>1, <4>2
    <3>2. t = [k \in 1..(m + 2) |-> t[k]]
      BY <2>3
    <3> HIDE DEF t, X
    <3> QED
      BY <3>1, <3>2, IsASeq
  <2>7. G!FlattenSeq(s) \in X
    BY <2>2, FlattenType
  <2> HIDE DEF s, t
  <2>8. G!FlattenSeq(t) = G!FlattenSeq(s) \o t[Len(t)]
    <3>1. Len(t) = Len(s) + 1 /\ \A k \in 1..Len(s) : t[k] = s[k]
      BY <2>2, <2>4, <2>6
    <3>2. s \in Seq(Seq(Words)) /\ t \in Seq(Seq(Words))
      BY <2>2, <2>6
    <3> QED
      BY ONLY <3>1, <3>2, FlattenMore
  <2>9. G!FlattenSeq(t) = G!FlattenSeq(s)
    BY <2>5, <2>6, <2>7, <2>8, ConcatEmptySeq
  <2> QED
    BY <1>1, <2>9 DEF s, t
<1> QED
  BY <1>2, <1>10, <1>12, <1>13, <1>14 DEF LoadInv

-----------------------------------------------------------------------------
\* expand: the next directive.

LEMMA Associative ==
  ASSUME NEW A, NEW a \in Seq(A), NEW b \in Seq(A), NEW c \in Seq(A)
  PROVE  (a \o b) \o c = a \o (b \o c)
BY ConcatAssociative

\* More at the end of the last piece.
LEMMA FlattenLonger ==
  ASSUME NEW A, NEW s \in Seq(Seq(A)), NEW t \in Seq(Seq(A)), NEW n \in Nat, Len(s) = n + 1, Len(t) = n + 1,
         \A i \in 1..n : t[i] = s[i], NEW x \in Seq(A), t[n + 1] = s[n + 1] \o x
  PROVE  G!FlattenSeq(t) = G!FlattenSeq(s) \o x
<1> DEFINE X == Seq(A)
           r == [i \in 1..n |-> s[i]]
<1>1. \A i \in 1..(n + 1) : s[i] \in X
  BY ElementOfSeq
<1>2. \A i \in 1..n : s[i] \in X
  BY <1>1
<1>3. r \in Seq(X) /\ Len(r) = n /\ \A i \in 1..n : r[i] = s[i]
  <2> HIDE DEF X
  <2>1. r \in Seq(X)
    BY ONLY n \in Nat, <1>2, IsASeq
  <2> QED
    BY <2>1
<1>4. s[n + 1] \in X
  BY <1>1
<1> HIDE DEF r
<1>5. G!FlattenSeq(r) \in X
  BY <1>3, FlattenType
<1>6. G!FlattenSeq(s) = G!FlattenSeq(r) \o s[n + 1]
  <2>1. Len(s) = Len(r) + 1 /\ (\A i \in 1..Len(r) : s[i] = r[i]) /\ r \in Seq(Seq(A))
    BY <1>3
  <2> QED
    BY <2>1, FlattenMore
<1>7. G!FlattenSeq(t) = G!FlattenSeq(r) \o t[n + 1]
  <2>1. Len(t) = Len(r) + 1 /\ (\A i \in 1..Len(r) : t[i] = r[i]) /\ r \in Seq(Seq(A))
    BY <1>3
  <2> QED
    BY <2>1, FlattenMore
<1> DEFINE y == G!FlattenSeq(r)
           z == s[n + 1]
<1>8. y \in Seq(A) /\ z \in Seq(A) /\ x \in Seq(A)
  BY <1>4, <1>5
<1>9. G!FlattenSeq(s) = y \o z /\ G!FlattenSeq(t) = y \o (z \o x)
  BY <1>6, <1>7
<1> HIDE DEF y, z
<1>10. PICK a \in Seq(A) : a = y
  BY <1>8
<1>11. PICK b \in Seq(A) : b = z
  BY <1>8
<1>12. (a \o b) \o x = a \o (b \o x)
  BY ONLY a \in Seq(A), b \in Seq(A), x \in Seq(A), Associative
<1> HIDE DEF X
<1> QED
  BY <1>9, <1>10, <1>11, <1>12

LEMMA FrameExcept ==
  ASSUME NEW fr \in Frames, NEW fs
  PROVE  [fr EXCEPT !.rest = Tail(@), !.pending = fs] = [file |-> fr.file, rest |-> Tail(fr.rest), pending |-> fs]
<1> DEFINE r == Tail(fr.rest)
           g == [fr EXCEPT !.rest = r]
<1>1. fr = [file |-> fr.file, rest |-> fr.rest, pending |-> fr.pending]
  BY DEF Frames
<1> HIDE DEF r
<1>2. g = [file |-> fr.file, rest |-> r, pending |-> fr.pending]
  BY <1>1
<1> HIDE DEF g
<1>3. [g EXCEPT !.pending = fs] = [file |-> fr.file, rest |-> r, pending |-> fs]
  BY <1>2
<1> QED
  BY <1>3 DEF g, r

\* The frame on top.
LEMMA TopIs ==
  ASSUME LoadType, stack # <<>>
  PROVE  /\ Len(stack) \in Nat \ {0} /\ Len(stack) \in 1..Len(stack) /\ G!Top = stack[Len(stack)]
         /\ G!Front(stack) \in Seq(Frames) /\ Len(G!Front(stack)) = Len(stack) - 1
         /\ \A k \in 1..(Len(stack) - 1) : G!Front(stack)[k] = stack[k]
         /\ \A fr \in Frames :
              /\ G!WithTop(fr) \in Seq(Frames) /\ Len(G!WithTop(fr)) = Len(stack)
              /\ G!WithTop(fr)[Len(stack)] = fr
              /\ \A k \in 1..Len(stack) : k # Len(stack) => G!WithTop(fr)[k] = stack[k]
<1> DEFINE m == Len(stack)
           front == G!Front(stack)
<1>1. stack \in Seq(Frames) /\ m \in Nat /\ m # 0 /\ \A k \in 1..m : stack[k] \in Frames
  BY EmptySeq, LenProperties, ElementOfSeq DEF LoadType
<1>2. G!Top = stack[m]
  BY DEF G!Top, G!Last
<1>3. front \in Seq(Frames) /\ Len(front) = m - 1 /\ \A k \in 1..(m - 1) : front[k] = stack[k]
  <2> HIDE DEF m
  <2>1. front = SubSeq(stack, 1, m - 1)
    BY DEF G!Front, m
  <2>2. \A k \in 1..(m - 1) : stack[k] \in Frames
    BY <1>1
  <2>3. /\ front \in Seq(Frames) /\ Len(front) = (IF 1 <= m - 1 THEN (m - 1) - 1 + 1 ELSE 0)
        /\ \A i \in 1..((m - 1) - 1 + 1) : front[i] = stack[1 + i - 1]
    <3>1. 1 \in Int /\ m - 1 \in Int
      BY <1>1
    <3> QED
      BY <2>1, <2>2, <3>1, SubSeqProperties
  <2>4. (m - 1) - 1 + 1 = m - 1 /\ \A i \in 1..(m - 1) : 1 + i - 1 = i
    BY <1>1
  <2>5. Len(front) = m - 1
    BY <1>1, <2>3
  <2> HIDE DEF front
  <2> QED
    BY <2>3, <2>4, <2>5
<1>4. ASSUME NEW fr \in Frames
      PROVE  /\ G!WithTop(fr) \in Seq(Frames) /\ Len(G!WithTop(fr)) = m
             /\ G!WithTop(fr)[m] = fr
             /\ \A k \in 1..m : k # m => G!WithTop(fr)[k] = stack[k]
  <2>1. G!WithTop(fr) = Append(front, fr)
    BY DEF G!WithTop
  <2> HIDE DEF front, m
  <2>2. /\ Append(front, fr) \in Seq(Frames) /\ Len(Append(front, fr)) = (m - 1) + 1
        /\ \A k \in 1..(m - 1) : Append(front, fr)[k] = front[k]
        /\ Append(front, fr)[(m - 1) + 1] = fr
    BY <1>3, AppendProperties
  <2>3. (m - 1) + 1 = m /\ \A k \in 1..m : k # m => k \in 1..(m - 1)
    BY <1>1
  <2> QED
    BY <1>3, <2>1, <2>2, <2>3
<1> QED
  BY <1>1, <1>2, <1>3, <1>4

\* A directive whose files all had their turn has brought its text.
LEMMA WholeIs ==
  ASSUME LoadType, FramesFit, NEW said \in [Files -> Seq(Words)], NEW m \in Nat \ {0}, m = Len(stack),
         stack[m].pending = <<>>
  PROVE  /\ Piece(said, m) = Pre(Texts(said, stack[m].file), Taken(m))
         /\ Taken(m) # 0 =>
              \A g \in Range(G!include(At(m).names)) : \E j \in 1..Through(m) : List(m)[j] = g
<1> DEFINE f == stack[m].file
           p == Taken(m)
           d == At(m)
<1>1. m \in 1..Len(stack) /\ m \in 0..Len(stack) /\ m # 0
  OBVIOUS
<1>2. f \in Files /\ parsed[f] # G!NotRead /\ p \in 0..Len(parsed[f]) /\ (p # 0 => d \in G!Item)
  BY <1>1, FrameIs DEF FramesFit
<1>3. Through(m) = Len(List(m)) /\ List(m) \in Seq(Files) /\ Len(List(m)) \in Nat
  <2>1. Left(m) = <<>>
    BY <1>1 DEF Left
  <2>2. Len(Left(m)) = 0
    BY <2>1
  <2>3. Spliced(m) = Len(List(m))
    BY <1>1, <2>2, LevelIs
  <2> QED
    BY <1>1, <2>3, LevelIs DEF Through
<1>4. CASE p = 0
  <2>1. Piece(said, m) = <<>>
    BY <1>1, <1>4 DEF Piece
  <2> QED
    BY <1>4, <2>1, PreStart
<1>5. CASE p # 0
  <2>1. List(m) = G!include(d.names)
    BY <1>1, <1>5 DEF List
  <2>2. Piece(said, m) = Pre(Texts(said, f), p - 1)
                  \o (IF d.include THEN Pre(Said(said, List(m)), Through(m)) ELSE <<<<f, d.word>>>>)
    BY <1>1, <1>5 DEF Piece
  <2>3. Pre(Said(said, List(m)), Through(m)) = G!FlattenSeq(Said(said, List(m)))
    <3>1. Said(said, List(m)) = [j \in 1..Len(List(m)) |-> said[List(m)[j]]]
      BY <1>3, SaidIs
    <3>2. Said(said, List(m)) = [j \in 1..Len(List(m)) |-> Said(said, List(m))[j]]
      BY <3>1
    <3> QED
      BY <1>3, <3>2, PreAll
  <2>4. Piece(said, m) = Pre(Texts(said, f), p - 1) \o Text(said, f, d)
    BY <2>1, <2>2, <2>3 DEF Text
  <2>5. /\ Texts(said, f) = [i \in 1..Len(parsed[f]) |-> Text(said, f, parsed[f][i])]
        /\ \A i \in 1..Len(parsed[f]) : Texts(said, f)[i] \in Seq(Words)
        /\ Len(parsed[f]) \in Nat
    BY <1>2, TextsIs, ParsedIs
  <2>6. p - 1 \in Nat /\ (p - 1) + 1 = p /\ p \in 1..Len(parsed[f])
        /\ \A i \in 1..((p - 1) + 1) : i \in 1..Len(parsed[f])
    BY <1>2, <1>5, <2>5
  <2>7. Texts(said, f)[p] = Text(said, f, d)
    BY <2>5, <2>6 DEF At
  <2>8. Pre(Texts(said, f), (p - 1) + 1) = Pre(Texts(said, f), p - 1) \o Texts(said, f)[(p - 1) + 1]
    <3>1. \A i \in 1..((p - 1) + 1) : Texts(said, f)[i] \in Seq(Words)
      BY <2>5, <2>6
    <3> HIDE DEF p, f
    <3> QED
      BY <2>6, <3>1, PreMore
  <2>9. ASSUME NEW g \in Range(G!include(d.names)) PROVE \E j \in 1..Through(m) : List(m)[j] = g
    <3>1. g \in Range(List(m)) /\ DOMAIN List(m) = 1..Len(List(m))
      BY <1>3, <2>1, <2>9, FilesIs
    <3> QED
      BY <1>3, <3>1 DEF Range
  <2> QED
    BY <2>4, <2>6, <2>7, <2>8, <2>9
<1> QED
  BY <1>4, <1>5

LEMMA Advance ==
  ASSUME NEW order, NEW said, LoadInv(order, said), G!Expand
  PROVE  LoadInv(order, said)'
<1> DEFINE m == Len(stack)
           f == stack[m].file
           p == Taken(m)
           d == Head(stack[m].rest)
           fs == G!include(d.names)
<1>1. /\ LoadType /\ FramesFit /\ Ordered(order) /\ AllThrough(order) /\ Tells(said, order)
      /\ tree = G!FlattenSeq(Pieces(said)) /\ said \in [Files -> Seq(Words)]
  BY DEF LoadInv, Tells
<1>2. stack # <<>> /\ UNCHANGED <<disk, rewrites, lim, entry, todo, parsed, includes, status>>
  BY DEF G!Expand
<1>3. m \in Nat \ {0} /\ m \in 1..Len(stack) /\ G!Top = stack[m] /\ stack \in Seq(Frames) /\ stack[m] \in Frames
  <2>1. stack \in Seq(Frames)
    BY <1>1 DEF LoadType
  <2> QED
    BY <1>1, <1>2, <2>1, TopIs, ElementOfSeq
<1>4. /\ stack[m].pending = <<>> /\ stack[m].rest # <<>>
      /\ stack' = G!WithTop([stack[m] EXCEPT !.rest = Tail(@), !.pending = fs])
      /\ tree' = IF d.include THEN tree ELSE Append(tree, <<f, d.word>>)
  BY <1>3 DEF G!Expand
<1>5. /\ f \in Files /\ parsed[f] # G!NotRead /\ p \in 0..Len(parsed[f])
      /\ Len(stack[m].rest) = Len(parsed[f]) - p /\ Len(parsed[f]) \in Nat
      /\ \A i \in 1..Len(stack[m].rest) : stack[m].rest[i] = parsed[f][p + i]
      /\ \A i \in 1..Len(parsed[f]) : parsed[f][i] \in G!Item
  BY <1>1, <1>3, FrameIs, ParsedIs DEF FramesFit
<1>6. /\ stack[m].rest \in Seq(G!Item) /\ Tail(stack[m].rest) \in Config
      /\ Len(Tail(stack[m].rest)) = Len(stack[m].rest) - 1 /\ Len(stack[m].rest) \in Nat \ {0}
      /\ \A i \in 1..(Len(stack[m].rest) - 1) : Tail(stack[m].rest)[i] = stack[m].rest[i + 1]
      /\ d = stack[m].rest[1]
  <2>1. stack[m].rest \in Seq(G!Item)
    BY <1>3 DEF Frames, Config
  <2>2. Len(stack[m].rest) \in Nat \ {0}
    BY <1>4, <2>1, EmptySeq, LenProperties
  <2> QED
    BY <1>4, <2>1, <2>2, HeadTailProperties DEF Config
<1>7. p + 1 \in 1..Len(parsed[f]) /\ d = parsed[f][p + 1] /\ d \in G!Item
  <2> DEFINE l == Len(parsed[f])
             r == Len(stack[m].rest)
  <2>1. p \in 0..l /\ r = l - p /\ l \in Nat /\ r \in Nat \ {0}
    BY <1>5, <1>6
  <2>2. p + 1 \in 1..l /\ 1 \in 1..r
    <3> HIDE DEF p, l, r
    <3> QED
      BY <2>1
  <2> QED
    BY <1>5, <1>6, <2>2
<1>8. fs \in Seq(Files) /\ Len(fs) \in Nat /\ (~d.include => fs = <<>>)
  BY <1>7, ItemIs, FilesIs
<1>9. /\ stack' \in Seq(Frames) /\ Len(stack') = m
      /\ stack'[m] = [file |-> f, rest |-> Tail(stack[m].rest), pending |-> fs]
      /\ \A k \in 1..m : k # m => stack'[k] = stack[k]
  <2>1. [stack[m] EXCEPT !.rest = Tail(@), !.pending = fs]
          = [file |-> f, rest |-> Tail(stack[m].rest), pending |-> fs]
    <3> HIDE DEF fs
    <3> QED
      BY <1>3, FrameExcept
  <2>2. [file |-> f, rest |-> Tail(stack[m].rest), pending |-> fs] \in Frames
    BY <1>5, <1>6, <1>8 DEF Frames
  <2> HIDE DEF m, fs
  <2> QED
    BY <1>1, <1>2, <1>4, <2>1, <2>2, TopIs DEF m
<1>10. ASSUME NEW k \in 0..m, k # m
       PROVE  /\ List(k)' = List(k) /\ Left(k)' = Left(k) /\ Spliced(k)' = Spliced(k)
              /\ Through(k)' = Through(k) /\ Piece(said, k)' = Piece(said, k)
              /\ k # 0 => Taken(k)' = Taken(k) /\ stack'[k] = stack[k]
  <2>1. k # 0 => stack'[k] = stack[k]
    BY <1>3, <1>9, <1>10
  <2>2. /\ List(k)' = List(k) /\ (Through(k)' = Through(k) => Piece(said, k)' = Piece(said, k))
        /\ k # 0 => Taken(k)' = Taken(k)
    <3>1. k \in Nat /\ entry' = entry /\ parsed' = parsed
      BY <1>2, <1>3
    <3> QED
      BY <2>1, <3>1, SameLevel
  <2>3. Left(k)' = Left(k)
    BY <1>2, <2>1 DEF Left
  <2>4. Spliced(k)' = Spliced(k)
    BY <2>2, <2>3 DEF Spliced
  <2>5. Through(k)' = Through(k)
    BY <1>9, <1>10, <2>4 DEF Through
  <2> QED
    BY <2>1, <2>2, <2>3, <2>4, <2>5
<1>11. PICK q \in Nat : q = m
  BY <1>3
<1>12. /\ Taken(q)' = p + 1 /\ At(q)' = d /\ List(q)' = fs /\ Left(q)' = fs /\ Spliced(q)' = 0 /\ Through(q)' = 0
  <2>1. stack'[q].file = f /\ stack'[q].rest = Tail(stack[m].rest) /\ stack'[q].pending = fs /\ q # 0
    <3>1. stack'[q] = [file |-> f, rest |-> Tail(stack[m].rest), pending |-> fs]
      BY <1>9, <1>11
    <3>2. q # 0
      BY <1>3, <1>11
    <3> HIDE DEF f, fs
    <3> QED
      BY <3>1, <3>2
  <2>2. Taken(q)' = Len(parsed[f]) - (Len(stack[m].rest) - 1)
    BY <1>2, <1>6, <2>1 DEF Taken
  <2>3. Taken(q)' = p + 1
    <3> DEFINE l == Len(parsed[f])
               r == Len(stack[m].rest)
    <3>1. p \in 0..l /\ r = l - p /\ l \in Nat /\ r \in Nat \ {0}
      BY <1>5, <1>6
    <3> HIDE DEF p, l, r
    <3>2. l - (r - 1) = p + 1
      BY <3>1
    <3> QED
      BY <2>2, <3>2 DEF l, r
  <2>4. At(q)' = d
    BY <1>2, <1>7, <2>1, <2>3 DEF At
  <2>5. p + 1 # 0
    BY <1>7
  <2>6. List(q)' = fs /\ Left(q)' = fs
    BY <2>1, <2>3, <2>4, <2>5 DEF List, Left
  <2>7. Spliced(q)' = 0
    BY <1>8, <2>6 DEF Spliced
  <2> QED
    BY <1>9, <1>11, <2>3, <2>4, <2>6, <2>7 DEF Through
<1> HIDE DEF m
<1>13. LoadType'
  <2>1. tree' \in Seq(Words)
    <3>1. tree \in Seq(Words) /\ <<f, d.word>> \in Words
      BY <1>1, <1>5, <1>7, ItemIs DEF LoadType, Words
    <3> QED
      BY <1>4, <3>1, AppendProperties
  <2> QED
    BY <1>1, <1>2, <1>9, <2>1 DEF LoadType
<1>14. FramesFit'
  <2>1. ASSUME NEW k \in 1..m
        PROVE  /\ parsed'[stack'[k].file] # G!NotRead
               /\ Taken(k)' \in Nat
               /\ \A i \in 1..Len(stack'[k].rest) : stack'[k].rest[i] = parsed'[stack'[k].file][Taken(k)' + i]
    <3>1. CASE k = m
      <4>1. stack'[k].file = f /\ stack'[k].rest = Tail(stack[m].rest) /\ Taken(k)' = p + 1 /\ parsed' = parsed
        BY <1>2, <1>9, <1>11, <1>12, <3>1
      <4>2. p + 1 \in Nat
        BY <1>7
      <4>3. ASSUME NEW i \in 1..(Len(stack[m].rest) - 1) PROVE Tail(stack[m].rest)[i] = parsed[f][(p + 1) + i]
        <5>1. i + 1 \in 1..Len(stack[m].rest) /\ p + (i + 1) = (p + 1) + i
          <6> DEFINE n == Len(stack[m].rest)
          <6>1. n \in Nat /\ p \in Nat /\ i \in 1..(n - 1)
            BY <1>5, <1>6
          <6> HIDE DEF n, p
          <6>2. i + 1 \in 1..n /\ p + (i + 1) = (p + 1) + i
            BY <6>1
          <6> QED
            BY <6>2 DEF n
        <5> QED
          BY <1>5, <1>6, <5>1
      <4> QED
        BY <1>5, <1>6, <4>1, <4>2, <4>3
    <3>2. CASE k # m
      <4>1. k \in 0..m /\ k # 0
        BY <3>2
      <4>2. Taken(k)' = Taken(k) /\ stack'[k] = stack[k] /\ parsed' = parsed
        BY <1>2, <1>10, <3>2, <4>1
      <4>3. /\ parsed[stack[k].file] # G!NotRead /\ Taken(k) \in Nat
            /\ \A i \in 1..Len(stack[k].rest) : stack[k].rest[i] = parsed[stack[k].file][Taken(k) + i]
        BY <1>1 DEF FramesFit, m
      <4> QED
        BY <4>2, <4>3
    <3> QED
      BY <3>1, <3>2
  <2>2. ASSUME NEW k \in 0..m
        PROVE  /\ Spliced(k)' \in Nat
               /\ \A j \in 1..Len(Left(k)') : Left(k)'[j] = List(k)'[Spliced(k)' + j]
               /\ k # m => Spliced(k)' # 0 /\ List(k)'[Spliced(k)'] = stack'[k + 1].file
    <3>1. CASE k = m
      <4>1. Spliced(k)' = 0 /\ Left(k)' = fs /\ List(k)' = fs
        BY <1>11, <1>12, <3>1
      <4>2. \A j \in 1..Len(fs) : 0 + j = j
        OBVIOUS
      <4> QED
        BY <3>1, <4>1, <4>2
    <3>2. CASE k # m
      <4>1. k + 1 \in 1..m
        BY <1>3, <3>2
      <4>2. stack'[k + 1].file = stack[k + 1].file
        BY <1>9, <4>1
      <4>3. /\ Spliced(k) \in Nat
            /\ \A j \in 1..Len(Left(k)) : Left(k)[j] = List(k)[Spliced(k) + j]
            /\ Spliced(k) # 0 /\ List(k)[Spliced(k)] = stack[k + 1].file
        BY <1>1, <3>2 DEF FramesFit, m
      <4> QED
        BY <1>10, <3>2, <4>2, <4>3
    <3> QED
      BY <3>1, <3>2
  <2>3. \A i \in 1..m : stack'[i].file = stack[i].file
    BY <1>9
  <2>4. \A i, j \in 1..m : stack'[i].file = stack'[j].file => i = j
    BY <1>1, <2>3 DEF FramesFit, m
  <2> QED
    BY <1>9, <2>1, <2>2, <2>4 DEF FramesFit
<1>15. Ordered(order)' /\ Tells(said, order)'
  BY <1>1, <1>2, CacheKeeps
<1>16. /\ Piece(said, m) = Pre(Texts(said, f), p)
       /\ p # 0 => \A g \in Range(G!include(At(m).names)) : \E j \in 1..Through(m) : List(m)[j] = g
  BY <1>1, <1>3, <1>4, WholeIs DEF m
<1>17. AllThrough(order)'
  <2>1. \A k \in 1..m : stack'[k].file = stack[k].file
    BY <1>9
  <2>2. ASSUME NEW g \in Files, parsed'[g] # G!NotRead
        PROVE  g \in Behind(order) \/ \E k \in 1..m : stack'[k].file = g
    BY <1>1, <1>2, <2>1, <2>2 DEF AllThrough, m
  <2>3. ASSUME NEW k \in 1..m, NEW i \in 1..(Taken(k)' - 1), NEW g \in Files,
               g \in Range(G!include(parsed'[stack'[k].file][i].names))
        PROVE  g \in Behind(order)
    <3>1. g \in Range(G!include(parsed[stack[k].file][i].names))
      BY <1>2, <2>1, <2>3
    <3>2. CASE k # m
      <4>1. k \in 0..m /\ k # 0
        BY <3>2
      <4>2. i \in 1..(Taken(k) - 1)
        BY <1>10, <3>2, <4>1
      <4> QED
        BY <1>1, <3>1, <4>2 DEF AllThrough, m
    <3>3. CASE k = m /\ i # p
      <4>1. i \in 1..(p - 1)
        BY <1>5, <1>11, <1>12, <3>3
      <4> QED
        BY <1>1, <3>1, <3>3, <4>1 DEF AllThrough, m
    <3>4. CASE k = m /\ i = p
      <4>1. p # 0 /\ At(m) = parsed[f][p]
        BY <3>4 DEF At
      <4>2. PICK j \in 1..Through(m) : List(m)[j] = g
        BY <1>16, <3>1, <3>4, <4>1
      <4>3. m \in 0..m
        BY <1>3
      <4> QED
        BY <1>1, <4>2, <4>3 DEF AllThrough, m
    <3> QED
      BY <3>2, <3>3, <3>4
  <2>4. ASSUME NEW k \in 0..m, NEW j \in 1..Through(k)' PROVE List(k)'[j] \in Behind(order)
    <3>1. k # m
      BY <1>11, <1>12
    <3>2. j \in 1..Through(k) /\ List(k)' = List(k)
      BY <1>10, <3>1
    <3> QED
      BY <1>1, <3>2 DEF AllThrough, m
  <2> QED
    BY <1>9, <2>2, <2>3, <2>4 DEF AllThrough
<1>18. tree' = G!FlattenSeq(Pieces(said)')
  <2> DEFINE X == Seq(Words)
             s == Pieces(said)
             t == Pieces(said)'
             x == IF d.include THEN <<>> ELSE <<<<f, d.word>>>>
  <2>1. s \in Seq(X) /\ Len(s) = m + 1 /\ \A k \in 0..m : s[k + 1] = Piece(said, k)
    BY <1>1, TreeIs DEF m
  <2>2. t = [k \in 1..(m + 1) |-> Piece(said, k - 1)']
    BY <1>9 DEF Pieces
  <2>3. \A k \in 1..m : t[k] = s[k]
    <3> SUFFICES ASSUME NEW k \in 1..m PROVE t[k] = s[k]
      OBVIOUS
    <3>1. k \in 1..(m + 1) /\ k - 1 \in 0..m /\ (k - 1) + 1 = k /\ k - 1 # m
      BY <1>3
    <3>2. Piece(said, k - 1)' = Piece(said, k - 1)
      BY <1>10, <3>1
    <3>3. t[k] = Piece(said, k - 1)'
      BY <2>2, <3>1
    <3> QED
      BY <2>1, <3>1, <3>2, <3>3
  <2>4. x \in X
    <3>1. <<f, d.word>> \in Words
      BY <1>5, <1>7, ItemIs DEF Words
    <3> QED
      BY <3>1, EmptySeq
  <2>5. s[m + 1] = Pre(Texts(said, f), p) /\ s[m + 1] \in X
    <3>1. m \in 0..m /\ m + 1 \in 1..(m + 1)
      BY <1>3
    <3> QED
      BY <1>16, <2>1, <3>1, ElementOfSeq
  <2>6. t[m + 1] = s[m + 1] \o x
    <3>1. t[m + 1] = Piece(said, q)'
      <4>1. m + 1 \in 1..(m + 1) /\ (m + 1) - 1 = q
        BY <1>3, <1>11
      <4> QED
        BY <2>2, <4>1
    <3>2. Piece(said, q)' = Pre(Texts(said, f), (p + 1) - 1)
             \o (IF d.include THEN Pre(Said(said, fs), 0) ELSE <<<<f, d.word>>>>)
      <4>1. Texts(said, stack[q].file)' = Texts(said, f)
        <5>1. stack'[q].file = f
          BY <1>9, <1>11
        <5> QED
          BY <1>2, <5>1 DEF Texts
      <4>2. stack'[q].file = f /\ q # 0 /\ p + 1 # 0
        BY <1>3, <1>7, <1>9, <1>11
      <4> QED
        BY <1>12, <4>1, <4>2 DEF Piece
    <3>3. (p + 1) - 1 = p
      BY <1>5
    <3> QED
      BY <2>5, <3>1, <3>2, <3>3, PreStart
  <2>7. t \in Seq(X) /\ Len(t) = m + 1
    <3>1. \A k \in 1..(m + 1) : t[k] \in X
      <4> SUFFICES ASSUME NEW k \in 1..(m + 1) PROVE t[k] \in X
        OBVIOUS
      <4> HIDE DEF t, s, x
      <4>1. CASE k = m + 1
        BY <2>4, <2>5, <2>6, <4>1, ConcatProperties
      <4>2. CASE k # m + 1
        <5>1. k \in 1..m
          BY <1>3, <4>2
        <5> QED
          BY <2>1, <2>3, <5>1, ElementOfSeq
      <4> QED
        BY <4>1, <4>2
    <3>2. t = [k \in 1..(m + 1) |-> t[k]]
      BY <2>2
    <3>3. Len(t) = m + 1
      BY <1>3, <2>2
    <3>4. m + 1 \in Nat
      BY <1>3
    <3> HIDE DEF t, X
    <3> QED
      BY <3>1, <3>2, <3>3, <3>4, IsASeq
  <2>8. s \in Seq(Seq(Words)) /\ t \in Seq(Seq(Words)) /\ x \in Seq(Words) /\ m \in Nat
    BY <1>3, <2>1, <2>4, <2>7
  <2> HIDE DEF s, t, x
  <2>9. G!FlattenSeq(t) = G!FlattenSeq(s) \o x
    BY <2>1, <2>3, <2>6, <2>7, <2>8, FlattenLonger
  <2>10. tree' = tree \o x
    <3>1. tree \in Seq(Words) /\ <<f, d.word>> \in Words
      BY <1>1, <1>5, <1>7, ItemIs DEF LoadType, Words
    <3>2. CASE d.include
      BY <1>4, <3>1, <3>2, ConcatEmptySeq DEF x
    <3>3. CASE ~d.include
      BY <1>4, <3>1, <3>3, AppendIsConcat DEF x
    <3> QED
      BY <3>2, <3>3
  <2> QED
    BY <1>1, <2>9, <2>10 DEF s, t
<1> QED
  BY <1>13, <1>14, <1>15, <1>17, <1>18 DEF LoadInv

-----------------------------------------------------------------------------
\* expand: a file is through.

LEMMA SameRange == ASSUME NEW s PROVE G!Range(s) = Range(s)
BY DEF G!Range, Range

LEMMA TextAgrees ==
  ASSUME NEW said, NEW s, NEW f, NEW d \in G!Item,
         \A g \in Range(G!include(d.names)) : s[g] = said[g]
  PROVE  Text(s, f, d) = Text(said, f, d)
<1> DEFINE fs == G!include(d.names)
<1>1. \A j \in DOMAIN fs : fs[j] \in Range(fs)
  BY DEF Range
<1>2. \A j \in DOMAIN fs : s[fs[j]] = said[fs[j]]
  BY <1>1
<1> HIDE DEF fs
<1>3. Said(s, fs) = Said(said, fs)
  BY <1>2 DEF Said
<1> QED
  BY <1>3 DEF Text, fs

LEMMA TextsAgree ==
  ASSUME LoadType, NEW said, NEW s, NEW f \in Files, parsed[f] # G!NotRead,
         \A g \in Files : G!Mentions(f, g) => s[g] = said[g]
  PROVE  Texts(s, f) = Texts(said, f)
<1>1. DOMAIN parsed[f] = 1..Len(parsed[f]) /\ \A i \in 1..Len(parsed[f]) : parsed[f][i] \in G!Item
  BY ParsedIs
<1>2. ASSUME NEW i \in DOMAIN parsed[f] PROVE Text(s, f, parsed[f][i]) = Text(said, f, parsed[f][i])
  <2> DEFINE d == parsed[f][i]
  <2>1. d \in G!Item
    BY <1>1
  <2>2. ASSUME NEW g \in Range(G!include(d.names)) PROVE s[g] = said[g]
    <3>1. g \in Files
      <4>1. G!include(d.names) \in Seq(Files)
        BY <2>1, ItemIs
      <4> QED
        BY <2>2, <4>1, FilesIs DEF Range
    <3>2. G!Mentions(f, g)
      BY <1>2, <2>2, SameRange DEF G!Mentions
    <3> QED
      BY <3>1, <3>2
  <2> QED
    BY <2>1, <2>2, TextAgrees
<1> QED
  BY <1>2 DEF Texts

\* A piece is told by the files behind.
LEMMA PieceAgrees ==
  ASSUME LoadType, FramesFit, NEW order, AllThrough(order), NEW said, NEW s,
         \A g \in Behind(order) : s[g] = said[g], NEW k \in 0..Len(stack)
  PROVE  Piece(s, k) = Piece(said, k)
<1>1. /\ List(k) \in Seq(Files) /\ Through(k) \in Nat /\ Through(k) <= Len(List(k)) /\ Len(List(k)) \in Nat
  BY LevelIs
<1>2. Pre(Said(s, List(k)), Through(k)) = Pre(Said(said, List(k)), Through(k))
  <2>1. ASSUME NEW j \in 1..Through(k) PROVE Said(s, List(k))[j] = Said(said, List(k))[j]
    <3>1. List(k)[j] \in Behind(order)
      BY DEF AllThrough
    <3>2. j \in DOMAIN List(k)
      BY <1>1, FilesIs
    <3> QED
      BY <3>1, <3>2 DEF Said
  <2> QED
    BY <1>1, <2>1, PreAgrees
<1>3. CASE k = 0
  BY <1>2, <1>3 DEF Piece, List
<1>4. CASE k # 0 /\ Taken(k) = 0
  BY <1>4 DEF Piece
<1>5. CASE k # 0 /\ Taken(k) # 0
  <2> DEFINE f == stack[k].file
             p == Taken(k)
  <2>1. k \in 1..Len(stack)
    BY <1>5, StackIs
  <2>2. f \in Files /\ parsed[f] # G!NotRead /\ p \in 1..Len(parsed[f])
    <3>1. f \in Files /\ p \in 0..Len(parsed[f])
      BY <2>1, FrameIs
    <3>2. parsed[f] # G!NotRead
      BY <2>1 DEF FramesFit
    <3>3. Len(parsed[f]) \in Nat
      BY <3>1, <3>2, ParsedIs
    <3> HIDE DEF p, f
    <3>4. p \in 1..Len(parsed[f])
      BY <1>5, <3>1, <3>3 DEF p
    <3> QED
      BY <3>1, <3>2, <3>4
  <2>3. /\ Len(parsed[f]) \in Nat /\ DOMAIN parsed[f] = 1..Len(parsed[f])
        /\ \A i \in 1..Len(parsed[f]) : parsed[f][i] \in G!Item
    BY <2>2, ParsedIs
  <2>4. ASSUME NEW i \in 1..(p - 1) PROVE Texts(s, f)[i] = Texts(said, f)[i]
    <3>1. i \in DOMAIN parsed[f] /\ i \in 1..Len(parsed[f])
      BY <2>2, <2>3
    <3>2. parsed[f][i] \in G!Item
      BY <2>3, <3>1
    <3>3. ASSUME NEW g \in Range(G!include(parsed[f][i].names)) PROVE s[g] = said[g]
      <4>1. g \in Files
        <5>1. G!include(parsed[f][i].names) \in Seq(Files)
          BY <3>2, ItemIs
        <5> QED
          BY <3>3, <5>1, FilesIs DEF Range
      <4>2. g \in Behind(order)
        BY <2>1, <2>4, <3>3, <4>1 DEF AllThrough
      <4> QED
        BY <4>2
    <3>4. Text(s, f, parsed[f][i]) = Text(said, f, parsed[f][i])
      BY <3>2, <3>3, TextAgrees
    <3> QED
      BY <3>1, <3>4 DEF Texts
  <2>5. Pre(Texts(s, f), p - 1) = Pre(Texts(said, f), p - 1)
    <3>1. p - 1 \in Nat
      BY <2>2
    <3> HIDE DEF p, f
    <3> QED
      BY <2>4, <3>1, PreAgrees
  <2> QED
    BY <1>2, <1>5, <2>5 DEF Piece
<1> QED
  BY <1>3, <1>4, <1>5

\* One more file of a directive is through.
LEMMA PieceGrows ==
  ASSUME LoadType, FramesFit, NEW said \in [Files -> Seq(Words)], NEW k \in Nat, k < Len(stack), entry' = entry,
         k # 0 => stack'[k] = stack[k], parsed' = parsed, Through(k)' = Through(k) + 1
  PROVE  Piece(said, k)' = Piece(said, k) \o said[stack[k + 1].file]
<1> DEFINE l == List(k)
           n == Through(k)
           x == said[stack[k + 1].file]
<1>1. k \in 0..Len(stack) /\ k # Len(stack) /\ Len(stack) \in Nat
  <2>1. PICK m \in Nat : m = Len(stack)
    BY StackIs
  <2> QED
    BY ONLY <2>1, k \in Nat, k < Len(stack)
<1>2. /\ l \in Seq(Files) /\ Len(l) \in Nat /\ Spliced(k) \in 1..Len(l) /\ n = Spliced(k) - 1
      /\ l[Spliced(k)] = stack[k + 1].file
  <2>1. Spliced(k) \in 0..Len(l) /\ l \in Seq(Files) /\ Len(l) \in Nat
    BY <1>1, LevelIs
  <2>2. Spliced(k) # 0 /\ l[Spliced(k)] = stack[k + 1].file
    BY <1>1 DEF FramesFit
  <2> QED
    BY <1>1, <2>1, <2>2 DEF Through
<1>3. n \in Nat /\ n + 1 \in 1..Len(l) /\ l[n + 1] = stack[k + 1].file
  <2> HIDE DEF n, l
  <2>1. n + 1 = Spliced(k) /\ n \in Nat
    BY <1>2
  <2> QED
    BY <1>2, <2>1
<1>4. Pre(Said(said, l), n + 1) = Pre(Said(said, l), n) \o x /\ Pre(Said(said, l), n) \in Seq(Words) /\ x \in Seq(Words)
  <2>1. Said(said, l) = [j \in 1..Len(l) |-> said[l[j]]] /\ \A j \in 1..Len(l) : Said(said, l)[j] \in Seq(Words)
    BY <1>2, SaidIs
  <2>2. \A j \in 1..(n + 1) : j \in 1..Len(l)
    BY <1>2, <1>3
  <2>3. Said(said, l)[n + 1] = x
    BY <1>3, <2>1
  <2>4. \A j \in 1..(n + 1) : Said(said, l)[j] \in Seq(Words)
    BY <2>1, <2>2
  <2>5. x \in Seq(Words) /\ \A j \in 1..n : Said(said, l)[j] \in Seq(Words)
    BY <1>3, <2>1, <2>3, <2>4
  <2> HIDE DEF n, l, x
  <2> QED
    BY <1>3, <2>3, <2>4, <2>5, PreMore, PreType
<1>5. /\ List(k)' = l /\ Through(k)' = n + 1
      /\ k # 0 => /\ Taken(k)' = Taken(k) /\ At(k)' = At(k)
                  /\ Texts(said, stack[k].file)' = Texts(said, stack[k].file)
  BY SameLevel
<1>6. CASE k = 0
  <2>1. l = entry
    BY <1>6 DEF List
  <2>2. Piece(said, k)' = Pre(Said(said, entry), n + 1) /\ Piece(said, k) = Pre(Said(said, entry), n)
    BY <1>5, <1>6 DEF Piece
  <2> QED
    BY <1>4, <2>1, <2>2
<1>7. CASE k # 0
  <2> DEFINE f == stack[k].file
             y == Pre(Texts(said, f), Taken(k) - 1)
             z == Pre(Said(said, l), n)
  <2>1. k \in 1..Len(stack)
    BY <1>1, <1>7
  <2>2. Taken(k) # 0
    <3> SUFFICES ASSUME Taken(k) = 0 PROVE FALSE
      OBVIOUS
    <3>1. l = <<>>
      BY <1>7 DEF List
    <3>2. Len(l) = 0
      BY <3>1
    <3> QED
      BY <1>2, <3>2
  <2>3. l = G!include(At(k).names)
    BY <1>7, <2>2 DEF List
  <2>4. At(k) \in G!Item
    BY <2>1, <2>2, FrameIs
  <2>5. At(k).include
    <3> SUFFICES ASSUME ~At(k).include PROVE FALSE
      OBVIOUS
    <3>1. l = <<>>
      BY <2>3, <2>4, ItemIs
    <3>2. Len(l) = 0
      BY <3>1
    <3> QED
      BY <1>2, <3>2
  <2>6. Piece(said, k) = y \o z
    BY <1>7, <2>2, <2>5 DEF Piece
  <2>7. Piece(said, k)' = y \o Pre(Said(said, l), n + 1)
    <3>1. stack'[k].file = f
      BY <1>7
    <3>2. Texts(said, f)' = Texts(said, f)
      BY <3>1 DEF Texts
    <3> QED
      BY <1>5, <1>7, <2>2, <2>5, <3>1 DEF Piece
  <2>8. y \in Seq(Words)
    <3>1. f \in Files /\ parsed[f] # G!NotRead /\ Taken(k) \in 1..Len(parsed[f])
      BY <2>1, <2>2, FrameIs DEF FramesFit
    <3>2. \A i \in 1..Len(parsed[f]) : Texts(said, f)[i] \in Seq(Words)
      BY <3>1, TextsIs
    <3>3. Taken(k) - 1 \in Nat /\ \A i \in 1..(Taken(k) - 1) : i \in 1..Len(parsed[f])
      BY <3>1
    <3>4. \A i \in 1..(Taken(k) - 1) : Texts(said, f)[i] \in Seq(Words)
      BY <3>2, <3>3
    <3> QED
      BY <3>3, <3>4, PreType
  <2> HIDE DEF y, z
  <2>9. PICK a \in Seq(Words) : a = y
    BY <2>8
  <2>10. PICK b \in Seq(Words) : b = z
    BY <1>4 DEF z
  <2>11. PICK c \in Seq(Words) : c = x
    BY <1>4
  <2>12. (a \o b) \o c = a \o (b \o c)
    BY ONLY a \in Seq(Words), b \in Seq(Words), c \in Seq(Words), Associative
  <2>13. Pre(Said(said, l), n + 1) = z \o x
    BY <1>4 DEF z
  <2> HIDE DEF x, l, n
  <2>14. Piece(said, k)' = a \o (b \o c) /\ Piece(said, k) = a \o b
    BY <2>6, <2>7, <2>9, <2>10, <2>11, <2>13
  <2> QED
    BY <2>11, <2>12, <2>14 DEF x
<1> QED
  BY <1>6, <1>7

\* What the file on top says, when it is through, is what its piece is.
LEMMA TopIsThrough ==
  ASSUME NEW order, NEW said, LoadInv(order, said), NEW m \in Nat \ {0}, m = Len(stack),
         stack[m].pending = <<>>, stack[m].rest = <<>>
  PROVE  /\ Piece(said, m) = G!FlattenSeq(Texts(said, stack[m].file))
         /\ G!FlattenSeq(Texts(said, stack[m].file)) \in Seq(Words)
         /\ \A g \in Files : G!Mentions(stack[m].file, g) => g \in Behind(order)
<1> DEFINE f == stack[m].file
           p == Taken(m)
<1>1. /\ LoadType /\ FramesFit /\ AllThrough(order) /\ said \in [Files -> Seq(Words)]
      /\ m \in 1..Len(stack) /\ m \in 0..Len(stack)
  BY DEF LoadInv, Tells
<1>2. f \in Files /\ parsed[f] # G!NotRead /\ Len(parsed[f]) \in Nat /\ DOMAIN parsed[f] = 1..Len(parsed[f])
      /\ \A i \in 1..Len(parsed[f]) : parsed[f][i] \in G!Item
  BY <1>1, FrameIs, ParsedIs DEF FramesFit
<1>3. p = Len(parsed[f])
  <2>1. p \in 0..Len(parsed[f]) /\ Len(stack[m].rest) = Len(parsed[f]) - p /\ Len(stack[m].rest) = 0
    BY <1>1, FrameIs
  <2> HIDE DEF p, f
  <2> QED
    BY <1>2, <2>1
<1>4. /\ Texts(said, f) = [i \in 1..Len(parsed[f]) |-> Text(said, f, parsed[f][i])]
      /\ Texts(said, f) \in Seq(Seq(Words))
  BY <1>1, <1>2, TextsIs
<1>5. Pre(Texts(said, f), p) = G!FlattenSeq(Texts(said, f))
  <2>1. Texts(said, f) = [i \in 1..p |-> Texts(said, f)[i]]
    BY <1>3, <1>4
  <2> HIDE DEF p, f
  <2> QED
    BY <1>2, <1>3, <2>1, PreAll
<1>6. /\ Piece(said, m) = Pre(Texts(said, f), p)
      /\ p # 0 => \A g \in Range(G!include(At(m).names)) : \E j \in 1..Through(m) : List(m)[j] = g
  BY <1>1, WholeIs
<1>7. ASSUME NEW g \in Files, G!Mentions(f, g) PROVE g \in Behind(order)
  <2>1. PICK i \in DOMAIN parsed[f] : g \in Range(G!include(parsed[f][i].names))
    BY <1>7, SameRange DEF G!Mentions
  <2>2. i \in 1..p
    BY <1>2, <1>3, <2>1
  <2>3. CASE i # p
    <3>1. i \in 1..(p - 1)
      <4> HIDE DEF p
      <4>1. p \in Nat
        BY <1>2, <1>3
      <4> QED
        BY <2>2, <2>3, <4>1
    <3> QED
      BY <1>1, <2>1, <3>1 DEF AllThrough
  <2>4. CASE i = p
    <3>1. p # 0 /\ At(m) = parsed[f][p]
      BY <2>2, <2>4 DEF At
    <3>2. PICK j \in 1..Through(m) : List(m)[j] = g
      BY <1>6, <2>1, <2>4, <3>1
    <3> QED
      BY <1>1, <3>2 DEF AllThrough
  <2> QED
    BY <2>3, <2>4
<1> QED
  BY <1>4, <1>5, <1>6, <1>7, FlattenType

LEMMA Pop ==
  ASSUME NEW order, NEW said, LoadInv(order, said), G!Return, NEW m \in Nat \ {0}, m = Len(stack),
         NEW o, NEW s, Ordered(o), Tells(s, o), Behind(o) = Behind(order) \cup {stack[m].file},
         \A g \in Behind(order) : s[g] = said[g],
         s[stack[m].file] = G!FlattenSeq(Texts(said, stack[m].file))
  PROVE  LoadInv(o, s)'
<1> DEFINE f == stack[m].file
<1>1. /\ LoadType /\ FramesFit /\ AllThrough(order) /\ tree = G!FlattenSeq(Pieces(said))
      /\ said \in [Files -> Seq(Words)] /\ s \in [Files -> Seq(Words)]
  BY DEF LoadInv, Tells
<1>2. UNCHANGED <<disk, rewrites, lim, entry, todo, parsed, includes, tree, status>> /\ stack # <<>>
  BY DEF G!Return
<1>3. /\ stack' \in Seq(Frames) /\ Len(stack') = m - 1 /\ \A k \in 1..(m - 1) : stack'[k] = stack[k]
      /\ stack[m].pending = <<>> /\ stack[m].rest = <<>>
  BY <1>1, <1>2, TopIs DEF G!Return
<1>4. f \in Files /\ parsed[f] # G!NotRead
  <2>1. m \in 1..Len(stack)
    OBVIOUS
  <2> QED
    BY <1>1, <2>1, FrameIs DEF FramesFit
<1>5. /\ Piece(said, m) = G!FlattenSeq(Texts(said, f)) /\ G!FlattenSeq(Texts(said, f)) \in Seq(Words)
      /\ \A g \in Files : G!Mentions(f, g) => g \in Behind(order)
  BY <1>3, TopIsThrough
<1>6. PICK q \in Nat : q = m - 1
  OBVIOUS
<1>7. ASSUME NEW k \in 0..q
      PROVE  /\ List(k)' = List(k) /\ Left(k)' = Left(k) /\ Spliced(k)' = Spliced(k)
             /\ k # 0 => Taken(k)' = Taken(k) /\ stack'[k] = stack[k]
             /\ Through(k)' = IF k = q THEN Through(k) + 1 ELSE Through(k)
             /\ Through(k)' = Through(k) => Piece(s, k)' = Piece(s, k)
  <2>1. k # 0 => stack'[k] = stack[k]
    BY <1>3, <1>6
  <2>2. /\ List(k)' = List(k) /\ (Through(k)' = Through(k) => Piece(s, k)' = Piece(s, k))
        /\ k # 0 => Taken(k)' = Taken(k)
    <3>1. k \in Nat /\ entry' = entry /\ parsed' = parsed
      BY <1>2
    <3> QED
      BY <2>1, <3>1, SameLevel
  <2>3. Left(k)' = Left(k)
    BY <1>2, <2>1 DEF Left
  <2>4. Spliced(k)' = Spliced(k)
    BY <2>2, <2>3 DEF Spliced
  <2>5. Through(k) = Spliced(k) - 1 /\ Spliced(k) \in Nat
    <3>1. k \in 0..Len(stack) /\ k # Len(stack)
      BY <1>6
    <3> QED
      BY <1>1, <3>1 DEF Through, FramesFit
  <2>6. Through(k)' = IF k = q THEN Spliced(k) ELSE Spliced(k) - 1
    BY <1>3, <1>6, <2>4 DEF Through
  <2>7. Through(k)' = IF k = q THEN Through(k) + 1 ELSE Through(k)
    BY <2>5, <2>6
  <2> QED
    BY <2>1, <2>2, <2>3, <2>4, <2>7
<1>8. Spliced(q) \in Nat /\ Spliced(q) # 0 /\ List(q)[Spliced(q)] = f /\ Through(q) = Spliced(q) - 1
  <2>1. q \in 0..Len(stack) /\ q # Len(stack) /\ q + 1 = m
    BY <1>6
  <2> QED
    BY <1>1, <2>1 DEF FramesFit, Through
<1>9. LoadType'
  BY <1>1, <1>2, <1>3 DEF LoadType
<1>10. FramesFit'
  <2>1. ASSUME NEW k \in 1..q
        PROVE  /\ parsed'[stack'[k].file] # G!NotRead
               /\ Taken(k)' \in Nat
               /\ \A i \in 1..Len(stack'[k].rest) : stack'[k].rest[i] = parsed'[stack'[k].file][Taken(k)' + i]
    <3>1. k \in 0..q /\ k # 0 /\ k \in 1..Len(stack)
      BY <1>6
    <3>2. Taken(k)' = Taken(k) /\ stack'[k] = stack[k] /\ parsed' = parsed
      BY <1>2, <1>7, <3>1
    <3>3. /\ parsed[stack[k].file] # G!NotRead /\ Taken(k) \in Nat
          /\ \A i \in 1..Len(stack[k].rest) : stack[k].rest[i] = parsed[stack[k].file][Taken(k) + i]
      BY <1>1, <3>1 DEF FramesFit
    <3> QED
      BY <3>2, <3>3
  <2>2. ASSUME NEW k \in 0..q
        PROVE  /\ Spliced(k)' \in Nat
               /\ \A j \in 1..Len(Left(k)') : Left(k)'[j] = List(k)'[Spliced(k)' + j]
               /\ k # q => Spliced(k)' # 0 /\ List(k)'[Spliced(k)'] = stack'[k + 1].file
    <3>1. k \in 0..Len(stack) /\ k # Len(stack)
      BY <1>6
    <3>2. /\ Spliced(k) \in Nat
          /\ \A j \in 1..Len(Left(k)) : Left(k)[j] = List(k)[Spliced(k) + j]
          /\ Spliced(k) # 0 /\ List(k)[Spliced(k)] = stack[k + 1].file
      BY <1>1, <3>1 DEF FramesFit
    <3>3. Spliced(k)' = Spliced(k) /\ Left(k)' = Left(k) /\ List(k)' = List(k)
      BY <1>7
    <3>4. k # q => stack'[k + 1] = stack[k + 1]
      <4>1. k # q => k + 1 \in 1..(m - 1)
        BY <1>6
      <4> QED
        BY <1>3, <4>1
    <3> QED
      BY <3>2, <3>3, <3>4
  <2>3. \A i, j \in 1..q : stack'[i].file = stack'[j].file => i = j
    <3>1. \A i \in 1..q : i \in 1..Len(stack) /\ stack'[i].file = stack[i].file
      BY <1>3, <1>6
    <3> QED
      BY <1>1, <3>1 DEF FramesFit
  <2>4. Len(stack') = q
    BY <1>3, <1>6
  <2> QED
    BY <2>1, <2>2, <2>3, <2>4 DEF FramesFit
<1>11. Ordered(o)' /\ Tells(s, o)'
  BY <1>2, CacheKeeps
<1>12. AllThrough(o)'
  <2>1. ASSUME NEW g \in Files, parsed'[g] # G!NotRead
        PROVE  g \in Behind(o) \/ \E k \in 1..q : stack'[k].file = g
    <3>1. g \in Behind(order) \/ \E k \in 1..Len(stack) : stack[k].file = g
      BY <1>1, <1>2, <2>1 DEF AllThrough
    <3>2. ASSUME NEW k \in 1..Len(stack), stack[k].file = g, k # m PROVE k \in 1..q /\ stack'[k].file = g
      <4>1. k \in 1..(m - 1) /\ k \in 1..q
        BY <1>6, <3>2
      <4> QED
        BY <1>3, <3>2, <4>1
    <3> QED
      BY <3>1, <3>2
  <2>2. ASSUME NEW k \in 1..q, NEW i \in 1..(Taken(k)' - 1), NEW g \in Files,
               g \in Range(G!include(parsed'[stack'[k].file][i].names))
        PROVE  g \in Behind(o)
    <3>1. k \in 0..q /\ k # 0 /\ k \in 1..Len(stack)
      BY <1>6
    <3>2. Taken(k)' = Taken(k) /\ stack'[k] = stack[k] /\ parsed' = parsed
      BY <1>2, <1>7, <3>1
    <3>3. i \in 1..(Taken(k) - 1) /\ g \in Range(G!include(parsed[stack[k].file][i].names))
      BY <2>2, <3>2
    <3> QED
      BY <1>1, <3>1, <3>3 DEF AllThrough
  <2>3. ASSUME NEW k \in 0..q, NEW j \in 1..Through(k)' PROVE List(k)'[j] \in Behind(o)
    <3>1. List(k)' = List(k) /\ Through(k)' = IF k = q THEN Through(k) + 1 ELSE Through(k)
      BY <1>7
    <3>2. CASE j \in 1..Through(k)
      <4>1. k \in 0..Len(stack)
        BY <1>6
      <4> QED
        BY <1>1, <3>1, <3>2, <4>1 DEF AllThrough
    <3>3. CASE j \notin 1..Through(k)
      <4>1. k = q
        BY <3>1, <3>3
      <4>2. j = Spliced(q)
        BY <1>8, <3>1, <3>3, <4>1
      <4> QED
        BY <1>8, <3>1, <4>1, <4>2
    <3> QED
      BY <3>2, <3>3
  <2>4. Len(stack') = q
    BY <1>3, <1>6
  <2> QED
    BY <2>1, <2>2, <2>3, <2>4 DEF AllThrough
<1>13. tree' = G!FlattenSeq(Pieces(s)')
  <2> DEFINE X == Seq(Words)
             p == Pieces(said)
             r == [k \in 1..m |-> p[k]]
             t == Pieces(s)'
             x == G!FlattenSeq(Texts(said, f))
  <2>1. p \in Seq(X) /\ Len(p) = m + 1 /\ \A k \in 0..m : p[k + 1] = Piece(said, k)
    BY <1>1, TreeIs
  <2>2. \A k \in 1..(m + 1) : p[k] \in X
    BY <2>1, ElementOfSeq
  <2>3. t = [k \in 1..m |-> Piece(s, k - 1)']
    <3>1. Len(stack') + 1 = m
      BY <1>3
    <3> QED
      BY <3>1 DEF Pieces
  <2>4. r \in Seq(X) /\ Len(r) = m /\ \A k \in 1..m : r[k] = p[k]
    <3>1. \A k \in 1..m : p[k] \in X
      BY <2>2
    <3>2. m \in Nat /\ r = [k \in 1..m |-> p[k]]
      OBVIOUS
    <3> HIDE DEF X, p, r
    <3> QED
      BY <3>1, <3>2, IsASeq
  <2>5. p[m + 1] = x /\ x \in X
    <3>1. m \in 0..m
      OBVIOUS
    <3> QED
      BY <1>5, <2>1, <3>1
  <2>6. ASSUME NEW k \in 1..q PROVE t[k] = r[k]
    <3>1. k \in 1..m /\ k - 1 \in 0..q /\ k - 1 # q /\ k - 1 \in 0..Len(stack) /\ (k - 1) + 1 = k
      BY <1>6
    <3>2. Through(k - 1)' = Through(k - 1)
      BY <1>7, <3>1
    <3>3. Piece(s, k - 1)' = Piece(s, k - 1)
      BY <1>7, <3>1, <3>2
    <3>4. Piece(s, k - 1) = Piece(said, k - 1)
      BY <1>1, <3>1, PieceAgrees
    <3>5. r[k] = Piece(said, k - 1)
      <4>1. p[(k - 1) + 1] = Piece(said, k - 1)
        BY <2>1, <3>1
      <4> QED
        BY <2>4, <3>1, <4>1
    <3> QED
      BY <2>3, <3>1, <3>3, <3>4, <3>5
  <2>7. t[m] = r[m] \o x
    <3>1. q \in 0..q /\ q \in 0..Len(stack) /\ q < Len(stack) /\ q + 1 = m /\ m - 1 = q /\ m \in 1..m
      BY <1>6
    <3>2. Piece(s, q)' = Piece(s, q) \o s[stack[q + 1].file]
      <4>1. Through(q)' = Through(q) + 1 /\ (q # 0 => stack'[q] = stack[q])
        BY <1>7, <3>1
      <4> QED
        BY <1>1, <1>2, <3>1, <4>1, PieceGrows
    <3>3. Piece(s, q) = Piece(said, q)
      BY <1>1, <3>1, PieceAgrees
    <3>4. r[m] = Piece(said, q)
      <4>1. p[q + 1] = Piece(said, q)
        BY <2>1, <3>1
      <4> QED
        BY <2>4, <3>1, <4>1
    <3>5. t[m] = Piece(s, m - 1)'
      BY <2>3, <3>1
    <3>6. Piece(s, m - 1)' = Piece(s, q)'
      BY <3>1 
    <3>7. s[stack[q + 1].file] = x
      BY <3>1
    <3> QED
      BY <3>2, <3>3, <3>4, <3>5, <3>6, <3>7
  <2>8. t \in Seq(X) /\ Len(t) = m
    <3>1. \A k \in 1..m : t[k] \in X
      <4> SUFFICES ASSUME NEW k \in 1..m PROVE t[k] \in X
        OBVIOUS
      <4>1. r[k] \in X
        BY <2>2, <2>4
      <4> HIDE DEF t, r, x, p
      <4>2. CASE k = m
        <5>1. r[m] \in Seq(Words) /\ x \in Seq(Words)
          BY <2>5, <4>1, <4>2
        <5>2. r[m] \o x \in Seq(Words)
          BY ONLY <5>1, ConcatProperties
        <5> QED
          BY <2>7, <4>2, <5>2
      <4>3. CASE k # m
        <5>1. k \in 1..q
          BY <1>6, <4>3
        <5> QED
          BY <2>6, <4>1, <5>1
      <4> QED
        BY <4>2, <4>3
    <3>2. t = [k \in 1..m |-> t[k]]
      BY <2>3
    <3>3. m \in Nat
      OBVIOUS
    <3> HIDE DEF t, X
    <3> QED
      BY <3>1, <3>2, <3>3, IsASeq
  <2>9. r \in Seq(Seq(Words)) /\ t \in Seq(Seq(Words)) /\ p \in Seq(Seq(Words)) /\ x \in Seq(Words)
    BY <2>1, <2>4, <2>5, <2>8
  <2> HIDE DEF r, t, p, x
  <2>10. G!FlattenSeq(p) = G!FlattenSeq(r) \o x
    <3>1. Len(p) = Len(r) + 1 /\ \A k \in 1..Len(r) : p[k] = r[k]
      BY <2>1, <2>4
    <3>2. p[Len(p)] = x
      BY <2>1, <2>5
    <3> QED
      BY <2>9, <3>1, <3>2, FlattenMore
  <2>11. G!FlattenSeq(t) = G!FlattenSeq(r) \o x
    <3>1. Len(r) = q + 1 /\ Len(t) = q + 1 /\ q + 1 = m
      BY <1>6, <2>4, <2>8
    <3>2. t[q + 1] = r[q + 1] \o x
      BY <2>7, <3>1
    <3>3. \A k \in 1..q : t[k] = r[k]
      BY <2>6
    <3> QED
      BY ONLY q \in Nat, <2>9, <3>1, <3>2, <3>3, FlattenLonger, ZenonT(60)
  <2> QED
    BY <1>1, <1>2, <2>10, <2>11 DEF p, t
<1> QED
  BY <1>9, <1>10, <1>11, <1>12, <1>13 DEF LoadInv

LEMMA Back ==
  ASSUME NEW order, NEW said, LoadInv(order, said), G!Return
  PROVE  \E o, s : LoadInv(o, s)'
<1>1. LoadType /\ FramesFit /\ Ordered(order) /\ Tells(said, order) /\ stack # <<>>
  BY DEF LoadInv, G!Return
<1>2. PICK m \in Nat \ {0} : m = Len(stack)
  BY <1>1, TopIs
<1>3. stack[m].pending = <<>> /\ stack[m].rest = <<>>
  BY <1>1, <1>2, TopIs DEF G!Return
<1>4. PICK f \in Files : f = stack[m].file /\ parsed[f] # G!NotRead
  <2>1. m \in 1..Len(stack)
    BY <1>2
  <2> QED
    BY <1>1, <2>1, FrameIs DEF FramesFit
<1>5. PICK b \in Seq(Words) :
        b = G!FlattenSeq(Texts(said, f)) /\ \A g \in Files : G!Mentions(f, g) => g \in Behind(order)
  BY <1>2, <1>3, <1>4, TopIsThrough
<1>6. CASE f \in Behind(order)
  <2>1. Behind(order) = Behind(order) \cup {f} /\ said[f] = b
    BY <1>1, <1>5, <1>6 DEF Tells
  <2>2. LoadInv(order, said)'
    BY <1>1, <1>2, <1>4, <1>5, <2>1, Pop
  <2> QED
    BY <2>2
<1>7. CASE f \notin Behind(order)
  <2> PICK o : o = Append(order, f)
    OBVIOUS
  <2> PICK s : s = [said EXCEPT ![f] = b]
    OBVIOUS
  <2>1. order \in Seq(Files) /\ Len(order) \in Nat /\ \A i \in 1..Len(order) : order[i] \in Files
    BY <1>1, FilesIs DEF Ordered
  <2>2. PICK n \in Nat : n = Len(order)
    BY <2>1
  <2>3. o \in Seq(Files) /\ Len(o) = n + 1 /\ o[n + 1] = f /\ \A i \in 1..n : o[i] = order[i]
    BY <1>4, <2>1, <2>2, AppendProperties
  <2>4. \A i \in 1..(n + 1) : i # n + 1 => i \in 1..n
    OBVIOUS
  <2>5. \A i \in 1..n : order[i] \in Behind(order)
    BY <2>2 DEF Behind
  <2>6. Behind(o) = Behind(order) \cup {f}
    BY <2>2, <2>3, <2>4 DEF Behind
  <2>7. Ordered(o)
    <3>1. ASSUME NEW i \in 1..(n + 1), NEW j \in 1..(n + 1), o[i] = o[j] PROVE i = j
      <4>1. \A k \in 1..n : o[k] # f
        BY <1>7, <2>3, <2>5
      <4>2. \A k, l \in 1..n : order[k] = order[l] => k = l
        BY <1>1, <2>2 DEF Ordered
      <4> QED
        BY <2>3, <2>4, <3>1, <4>1, <4>2
    <3>2. ASSUME NEW i \in 1..(n + 1)
          PROVE  /\ parsed[o[i]] # G!NotRead
                 /\ \A g \in Files : G!Mentions(o[i], g) => \E j \in 1..(i - 1) : o[j] = g
      <4>1. CASE i = n + 1
        <5>1. ASSUME NEW g \in Files, G!Mentions(f, g) PROVE \E j \in 1..n : o[j] = g
          <6>1. g \in Behind(order)
            BY <1>5, <5>1
          <6> QED
            BY <2>2, <2>3, <6>1 DEF Behind
        <5>2. i - 1 = n
          BY <4>1
        <5> QED
          BY <1>4, <2>3, <4>1, <5>1, <5>2
      <4>2. CASE i # n + 1
        <5>1. i \in 1..n /\ \A j \in 1..(i - 1) : j \in 1..n
          BY <4>2
        <5>2. /\ parsed[order[i]] # G!NotRead
              /\ \A g \in Files : G!Mentions(order[i], g) => \E j \in 1..(i - 1) : order[j] = g
          BY <1>1, <2>2, <5>1 DEF Ordered
        <5> QED
          BY <2>3, <5>1, <5>2
      <4> QED
        BY <4>1, <4>2
    <3> QED
      BY <2>3, <3>1, <3>2 DEF Ordered
  <2>8. said \in [Files -> Seq(Words)] /\ s \in [Files -> Seq(Words)] /\ s[f] = b /\ \A g \in Files : g # f => s[g] = said[g]
    <3>1. said \in [Files -> Seq(Words)]
      BY <1>1 DEF Tells
    <3> QED
      BY <3>1
  <2>9. \A g \in Behind(order) : g \in Files /\ g # f /\ s[g] = said[g] /\ parsed[g] # G!NotRead
    <3>1. ASSUME NEW i \in 1..n PROVE order[i] \in Files /\ order[i] # f /\ parsed[order[i]] # G!NotRead
      BY <1>1, <1>7, <2>1, <2>2, <2>5 DEF Ordered
    <3>2. \A g \in Behind(order) : \E i \in 1..n : order[i] = g
      BY <2>2 DEF Behind
    <3> QED
      BY <2>8, <3>1, <3>2
  <2>10. Tells(s, o)
    <3> SUFFICES ASSUME NEW g \in Behind(o) PROVE s[g] = G!FlattenSeq(Texts(s, g))
      BY <2>8 DEF Tells
    <3>1. g \in Files /\ parsed[g] # G!NotRead
      BY <1>4, <2>6, <2>9
    <3>2. ASSUME NEW h \in Files, G!Mentions(g, h) PROVE s[h] = said[h]
      <4>1. h \in Behind(order)
        <5>1. CASE g = f
          BY <1>5, <3>2, <5>1
        <5>2. CASE g # f
          <6>1. g \in Behind(order)
            BY <2>6, <5>2
          <6>2. PICK i \in 1..n : order[i] = g
            BY <2>2, <6>1 DEF Behind
          <6>3. PICK j \in 1..(i - 1) : order[j] = h
            BY <1>1, <2>2, <3>2, <6>2 DEF Ordered
          <6>4. j \in 1..n
            OBVIOUS
          <6> QED
            BY <2>5, <6>3, <6>4
        <5> QED
          BY <5>1, <5>2
      <4> QED
        BY <2>9, <4>1
    <3>3. Texts(s, g) = Texts(said, g)
      BY <1>1, <3>1, <3>2, TextsAgree
    <3>4. CASE g = f
      BY <1>5, <2>8, <3>3, <3>4
    <3>5. CASE g # f
      <4>1. g \in Behind(order) /\ s[g] = said[g]
        BY <2>6, <2>9, <3>5
      <4>2. said[g] = G!FlattenSeq(Texts(said, g))
        BY <1>1, <4>1 DEF Tells
      <4> QED
        BY <3>3, <4>1, <4>2
    <3> QED
      BY <3>4, <3>5
  <2>11. LoadInv(o, s)'
    <3>1. \A g \in Behind(order) : s[g] = said[g]
      BY <2>9
    <3>2. s[stack[m].file] = G!FlattenSeq(Texts(said, stack[m].file))
      BY <1>4, <1>5, <2>8
    <3>3. Behind(o) = Behind(order) \cup {stack[m].file}
      BY <1>4, <2>6
    <3> QED
      BY ONLY LoadInv(order, said), G!Return, m \in Nat \ {0}, <1>2, <2>7, <2>10, <3>1, <3>2, <3>3, Pop
  <2> QED
    BY <2>11
<1> QED
  BY <1>6, <1>7

-----------------------------------------------------------------------------
\* read: what is pushed.

LEMMA ReadIs ==
  ASSUME LoadType, NEW f \in Files, NEW below \in Seq(Frames), G!Read(f, below),
         status = "loading", status' = "loading"
  PROVE  /\ parsed' \in [Files -> Config \cup {G!NotRead}] /\ parsed'[f] \in Config
         /\ \A g \in Files : parsed[g] # G!NotRead \/ g # f => parsed'[g] = parsed[g]
         /\ stack' \in Seq(Frames) /\ Len(stack') = Len(below) + 1
         /\ stack'[Len(below) + 1] = [file |-> f, rest |-> parsed'[f], pending |-> <<>>]
         /\ \A k \in 1..Len(below) : stack'[k] = below[k]
<1>1. parsed \in [Files -> Config \cup {G!NotRead}] /\ disk \in [Files -> Config]
  BY DEF LoadType
<1>2. /\ parsed' \in [Files -> Config \cup {G!NotRead}] /\ parsed'[f] \in Config
      /\ \A g \in Files : parsed[g] # G!NotRead \/ g # f => parsed'[g] = parsed[g]
      /\ stack' = Append(below, G!Frame(f, parsed'[f]))
  <2>1. CASE G!IsCached(f)
    <3>1. stack' = Append(below, G!Frame(f, parsed[f])) /\ parsed' = parsed
      BY <2>1 DEF G!Read
    <3>2. parsed[f] # G!NotRead
      BY <2>1 DEF G!IsCached
    <3> QED
      BY <1>1, <3>1, <3>2
  <2>2. CASE ~G!IsCached(f) /\ disk[f] # G!Bad /\ G!FilesRead < lim.files
    <3>1. stack' = Append(below, G!Frame(f, disk[f])) /\ parsed' = [parsed EXCEPT ![f] = disk[f]]
      BY <2>2 DEF G!Read
    <3>2. parsed[f] = G!NotRead /\ disk[f] \in Config
      BY <1>1, <2>2 DEF G!IsCached
    <3>3. parsed'[f] = disk[f] /\ \A g \in Files : g # f => parsed'[g] = parsed[g]
      BY <1>1, <3>1
    <3>4. parsed' \in [Files -> Config \cup {G!NotRead}]
      BY <1>1, <3>1, <3>2
    <3> QED
      BY <3>1, <3>2, <3>3, <3>4
  <2>3. CASE ~G!IsCached(f) /\ ~(disk[f] # G!Bad /\ G!FilesRead < lim.files)
    <3>1. status' = IF disk[f] = G!Bad THEN "unreadable" ELSE "files"
      BY <2>3 DEF G!Read
    <3> QED
      BY <3>1
  <2> QED
    BY <2>1, <2>2, <2>3
<1>3. G!Frame(f, parsed'[f]) = [file |-> f, rest |-> parsed'[f], pending |-> <<>>]
  BY DEF G!Frame
<1>4. G!Frame(f, parsed'[f]) \in Frames
  <2>1. <<>> \in Seq(Files)
    BY EmptySeq
  <2> QED
    BY <1>2, <1>3, <2>1 DEF Frames
<1> DEFINE fr == G!Frame(f, parsed'[f])
<1>5. /\ Append(below, fr) \in Seq(Frames) /\ Len(Append(below, fr)) = Len(below) + 1
      /\ \A k \in 1..Len(below) : Append(below, fr)[k] = below[k]
      /\ Append(below, fr)[Len(below) + 1] = fr
  <2> HIDE DEF fr
  <2> QED
    BY <1>4, AppendProperties DEF fr
<1> QED
  BY <1>2, <1>3, <1>5

LEMMA EnterKeeps ==
  ASSUME NEW order, NEW said, LoadInv(order, said), G!Enter, status' = "loading"
  PROVE  LoadInv(order, said)'
<1>1. LoadType /\ FramesFit /\ status = "loading" /\ stack = <<>> /\ todo # <<>> /\ todo' = Tail(todo)
      /\ G!Read(Head(todo), <<>>) /\ UNCHANGED <<disk, rewrites, lim, entry, includes, tree>>
  BY DEF G!Enter, LoadInv
<1>2. PICK m \in Nat : m = 0
  OBVIOUS
<1>3. m = Len(stack) /\ Left(m) = todo /\ Left(m)' = todo'
  BY <1>1, <1>2 DEF Left
<1>4. todo \in Seq(Files) /\ Head(todo) \in Files /\ todo' \in Seq(Files)
  <2>1. todo \in Seq(Files)
    BY <1>1 DEF LoadType
  <2> QED
    BY <1>1, <2>1, HeadTailProperties
<1>5. PICK f \in Files : f = Head(todo)
  BY <1>4
<1>6. <<>> \in Seq(Frames) /\ Len(<<>>) = 0
  BY EmptySeq
<1>7. /\ parsed' \in [Files -> Config \cup {G!NotRead}] /\ parsed'[f] \in Config
      /\ \A g \in Files : parsed[g] # G!NotRead \/ g # f => parsed'[g] = parsed[g]
      /\ stack' \in Seq(Frames) /\ Len(stack') = m + 1
      /\ stack'[m + 1] = [file |-> f, rest |-> parsed'[f], pending |-> <<>>]
  BY <1>1, <1>2, <1>5, <1>6, ReadIs
<1>8. (\A k \in 1..m : FALSE) /\ includes' \in Nat
  BY <1>1, <1>2 DEF LoadType
<1> QED
  BY <1>1, <1>2, <1>3, <1>4, <1>5, <1>7, <1>8, Push

LEMMA SpliceKeeps ==
  ASSUME NEW order, NEW said, LoadInv(order, said), G!Splice, status' = "loading"
  PROVE  LoadInv(order, said)'
<1>1. LoadType /\ FramesFit /\ status = "loading" /\ stack # <<>> /\ G!Top.pending # <<>>
      /\ UNCHANGED <<disk, rewrites, lim, entry>>
  BY DEF G!Splice, LoadInv
<1>2. PICK m \in Nat \ {0} : m = Len(stack)
  BY <1>1, TopIs
<1>3. m \in 1..m /\ G!Top = stack[m] /\ stack[m] \in Frames
  <2>1. stack \in Seq(Frames)
    BY <1>1 DEF LoadType
  <2> QED
    BY <1>1, <1>2, <2>1, TopIs, ElementOfSeq
<1> DEFINE fr == stack[m]
           below == G!WithTop([fr EXCEPT !.pending = Tail(@)])
<1>4. fr.pending \in Seq(Files) /\ fr.pending # <<>> /\ Head(fr.pending) \in Files /\ Tail(fr.pending) \in Seq(Files)
  <2>1. fr.pending \in Seq(Files) /\ fr.pending # <<>>
    BY <1>1, <1>3 DEF Frames
  <2> QED
    BY <2>1, HeadTailProperties
<1>5. PICK f \in Files : f = Head(fr.pending)
  BY <1>4
<1>6. ~G!OnStack(f) /\ G!Read(f, below) /\ UNCHANGED <<todo, tree>> /\ includes' = includes + 1
  <2>1. G!Top.pending = fr.pending /\ [G!Top EXCEPT !.pending = Tail(@)] = [fr EXCEPT !.pending = Tail(@)]
    BY <1>3
  <2>2. CASE includes + 1 > lim.includes
    BY <2>2, <1>1 DEF G!Splice, G!Fail
  <2>3. CASE includes + 1 <= lim.includes /\ G!OnStack(f)
    BY <1>1, <1>3, <1>5, <2>3 DEF G!Splice, G!Fail
  <2>4. CASE includes + 1 <= lim.includes /\ ~G!OnStack(f) /\ G!TooDeep
    BY <1>1, <1>3, <1>5, <2>4 DEF G!Splice, G!Fail
  <2>5. CASE ~(includes + 1 > lim.includes) /\ ~(includes + 1 <= lim.includes /\ G!OnStack(f))
             /\ ~(includes + 1 <= lim.includes /\ ~G!OnStack(f) /\ G!TooDeep)
    <3>1. /\ G!Read(Head(G!Top.pending), G!WithTop([G!Top EXCEPT !.pending = Tail(@)])) /\ UNCHANGED <<todo, tree>>
          /\ includes' = includes + 1 /\ ~G!OnStack(Head(G!Top.pending))
      <4>1. f = Head(G!Top.pending)
        BY <1>5, <2>1
      <4>2. includes \in Nat /\ lim.includes \in Nat
        BY <1>1, ContentsAssumption DEF LoadType
      <4>3. includes + 1 <= lim.includes
        BY <2>5, <4>2
      <4>4. ~G!OnStack(f)
        BY <2>5, <4>3
      <4> QED
        BY <2>5, <4>1, <4>4 DEF G!Splice
    <3> QED
      BY <1>3, <1>5, <3>1
  <2> QED
    BY <2>2, <2>3, <2>4, <2>5
<1>7. /\ [fr EXCEPT !.pending = Tail(@)] = [file |-> fr.file, rest |-> fr.rest, pending |-> Tail(fr.pending)]
      /\ [fr EXCEPT !.pending = Tail(@)] \in Frames
  <2>1. fr = [file |-> fr.file, rest |-> fr.rest, pending |-> fr.pending] /\ fr.file \in Files /\ fr.rest \in Config
    BY <1>3 DEF Frames
  <2> DEFINE t == Tail(fr.pending)
  <2>2. t \in Seq(Files)
    BY <1>4
  <2> HIDE DEF fr, t
  <2>3. [fr EXCEPT !.pending = t] = [file |-> fr.file, rest |-> fr.rest, pending |-> t]
    BY <2>1
  <2>4. [fr EXCEPT !.pending = t] \in Frames
    BY <2>1, <2>2, <2>3 DEF Frames
  <2> QED
    BY <2>3, <2>4 DEF t
<1>8. /\ below \in Seq(Frames) /\ Len(below) = m /\ below[m] = [fr EXCEPT !.pending = Tail(@)]
      /\ \A k \in 1..m : k # m => below[k] = stack[k]
  BY <1>1, <1>2, <1>7, TopIs
<1> HIDE DEF below
<1>9. /\ parsed' \in [Files -> Config \cup {G!NotRead}] /\ parsed'[f] \in Config
      /\ \A g \in Files : parsed[g] # G!NotRead \/ g # f => parsed'[g] = parsed[g]
      /\ stack' \in Seq(Frames) /\ Len(stack') = m + 1
      /\ stack'[m + 1] = [file |-> f, rest |-> parsed'[f], pending |-> <<>>]
      /\ \A k \in 1..m : stack'[k] = below[k]
  BY <1>1, <1>6, <1>8, ReadIs
<1>10. /\ \A k \in 1..m : k # m => stack'[k] = stack[k]
       /\ stack'[m] = [file |-> fr.file, rest |-> fr.rest, pending |-> Tail(fr.pending)]
  BY <1>3, <1>7, <1>8, <1>9
<1>11. stack'[m].file = fr.file /\ stack'[m].rest = fr.rest /\ stack'[m].pending = Tail(fr.pending)
  <2> HIDE DEF fr
  <2> QED
    BY <1>10
<1>12. Left(m) = fr.pending /\ Left(m)' = Tail(fr.pending)
  <2>1. Left(m)' = stack'[m].pending
    BY DEF Left
  <2>2. Left(m) = fr.pending
    BY DEF Left
  <2> QED
    BY <1>11, <2>1, <2>2
<1>13. \A k \in 1..m : stack[k].file # f
  <2>1. DOMAIN stack = 1..m
    BY <1>1, <1>2, StackIs
  <2> QED
    BY <1>6, <2>1 DEF G!OnStack
<1>14. \A k \in 1..m : stack'[k].file = stack[k].file /\ stack'[k].rest = stack[k].rest
  BY <1>10, <1>11
<1>15. todo' \in Seq(Files)
  BY <1>1, <1>6 DEF LoadType
<1>16. Left(m) # <<>> /\ f = Head(Left(m)) /\ Left(m)' = Tail(Left(m))
  BY <1>4, <1>5, <1>12
<1>17. \A k \in 1..m : k # m => stack'[k].pending = stack[k].pending
  BY <1>10
<1>18. UNCHANGED <<disk, lim, entry, tree>> /\ todo' = todo /\ includes' \in Nat
  BY <1>1, <1>6 DEF LoadType
<1> HIDE DEF fr
<1> QED
  BY <1>2, <1>9, <1>13, <1>14, <1>15, <1>16, <1>17, <1>18, Push

-----------------------------------------------------------------------------
\* expand: why what is refused deserves it.

LEMMA CountOfFiles == \A S : G!Cardinality(S) = Cardinality(S)
BY DEF G!Cardinality, Cardinality

\* A file includes the files of its directives.
LEMMA MentionsIs ==
  ASSUME LoadType, FramesFit, NEW k \in 1..Len(stack), NEW j \in 1..Len(List(k))
  PROVE  G!Mentions(stack[k].file, List(k)[j])
<1> DEFINE f == stack[k].file
<1>1. k \in 0..Len(stack) /\ k # 0
  BY StackIs
<1>2. Taken(k) # 0
  <2> SUFFICES ASSUME Taken(k) = 0 PROVE FALSE
    OBVIOUS
  <2>1. List(k) = <<>>
    BY <1>1 DEF List
  <2>2. Len(List(k)) = 0
    BY <2>1
  <2> QED
    BY <2>2
<1>3. List(k) = G!include(parsed[f][Taken(k)].names)
  BY <1>1, <1>2 DEF List, At
<1>4. Taken(k) \in DOMAIN parsed[f]
  <2>1. f \in Files /\ parsed[f] # G!NotRead /\ Taken(k) \in 1..Len(parsed[f])
    BY <1>2, FrameIs DEF FramesFit
  <2> QED
    BY <2>1, ParsedIs
<1>5. j \in DOMAIN List(k)
  BY <1>1, LevelIs, FilesIs
<1>6. List(k)[j] \in G!Range(List(k))
  BY <1>5 DEF G!Range
<1> QED
  BY <1>3, <1>4, <1>6 DEF G!Mentions

\* The frames are a chain.
LEMMA Chain ==
  ASSUME LoadType, FramesFit, NEW m \in Nat, m = Len(stack)
  PROVE  /\ \A k \in 1..m : stack[k].file \in Files
         /\ \A k \in 1..m : k # m => G!Mentions(stack[k].file, stack[k + 1].file)
         /\ m # 0 /\ Left(m) # <<>> => G!Mentions(stack[m].file, Head(Left(m)))
         /\ m <= Cardinality(Files)
<1>1. \A k \in 1..m : stack[k].file \in Files
  BY StackIs
<1>2. ASSUME NEW k \in 1..m, k # m PROVE G!Mentions(stack[k].file, stack[k + 1].file)
  <2>1. k \in 0..Len(stack) /\ k # Len(stack) /\ k \in 1..Len(stack)
    BY <1>2
  <2>2. Spliced(k) \in 0..Len(List(k)) /\ Spliced(k) # 0 /\ List(k)[Spliced(k)] = stack[k + 1].file
        /\ Len(List(k)) \in Nat
    BY <2>1, LevelIs DEF FramesFit
  <2>3. Spliced(k) \in 1..Len(List(k))
    BY <2>2
  <2> QED
    BY <2>1, <2>2, <2>3, MentionsIs
<1>3. ASSUME m # 0, Left(m) # <<>> PROVE G!Mentions(stack[m].file, Head(Left(m)))
  <2>1. m \in 0..Len(stack) /\ m \in 1..Len(stack)
    BY <1>3
  <2>2. /\ Left(m) \in Seq(Files) /\ Len(List(m)) \in Nat /\ Len(Left(m)) \in Nat
        /\ Spliced(m) \in 0..Len(List(m)) /\ Len(Left(m)) = Len(List(m)) - Spliced(m)
    BY <2>1, LevelIs
  <2>3. Len(Left(m)) # 0
    BY <1>3, <2>2, EmptySeq
  <2>4. 1 \in 1..Len(Left(m)) /\ Spliced(m) + 1 \in 1..Len(List(m))
    BY <2>2, <2>3
  <2>5. Left(m)[1] = List(m)[Spliced(m) + 1]
    BY <2>1, <2>4 DEF FramesFit
  <2>6. Head(Left(m)) = Left(m)[1]
    BY <1>3, <2>2, HeadTailProperties
  <2> QED
    BY <2>1, <2>4, <2>5, <2>6, MentionsIs
<1>4. m <= Cardinality(Files)
  <2> DEFINE h == [k \in 1..m |-> stack[k].file]
  <2>1. h \in Injection(1..m, Files)
    BY <1>1 DEF Injection, IsInjective, FramesFit
  <2>2. IsFiniteSet(Files)
    BY DirectoryAssumption
  <2>3. IsFiniteSet(1..m) /\ Cardinality(1..m) = m
    <3>1. 1 \in Int /\ m \in Int
      OBVIOUS
    <3>2. IsFiniteSet(1..m) /\ Cardinality(1..m) = IF 1 > m THEN 0 ELSE m - 1 + 1
      BY ONLY <3>1, FS_Interval
    <3>3. (IF 1 > m THEN 0 ELSE m - 1 + 1) = m
      OBVIOUS
    <3> QED
      BY <3>2, <3>3
  <2> HIDE DEF h
  <2>4. Cardinality(1..m) <= Cardinality(Files)
    BY <2>1, <2>2, <2>3, FS_Injection
  <2> QED
    BY <2>3, <2>4
<1> QED
  BY <1>1, <1>2, <1>3, <1>4

LEMMA CircleIs ==
  ASSUME LoadType, FramesFit, NEW m \in Nat \ {0}, m = Len(stack), Left(m) # <<>>,
         NEW i \in 1..m, stack[i].file = Head(Left(m))
  PROVE  G!Circle
<1> DEFINE n == m - i + 1
           fs == [k \in 1..n |-> stack[i + k - 1].file]
<1>1. /\ \A k \in 1..m : stack[k].file \in Files
      /\ \A k \in 1..m : k # m => G!Mentions(stack[k].file, stack[k + 1].file)
      /\ G!Mentions(stack[m].file, Head(Left(m))) /\ m <= Cardinality(Files)
  BY Chain
<1>2. n \in 1..m /\ n \in Nat /\ \A k \in 1..n : i + k - 1 \in 1..m
  OBVIOUS
<1>3. n \in 1..G!Cardinality(Files)
  <2>1. Cardinality(Files) \in Nat
    BY DirectoryAssumption, FS_CardinalityType
  <2> HIDE DEF n
  <2> QED
    BY <1>1, <1>2, <2>1, CountOfFiles
<1>4. fs \in [1..n -> Files]
  BY <1>1, <1>2
<1>5. ASSUME NEW k \in 1..n PROVE G!Mentions(fs[k], fs[IF k = n THEN 1 ELSE k + 1])
  <2>1. CASE k = n
    <3>1. i + n - 1 = m /\ i + 1 - 1 = i /\ 1 \in 1..n
      BY <1>2
    <3>2. fs[k] = stack[m].file /\ fs[1] = stack[i].file
      BY <2>1, <3>1
    <3> QED
      BY <1>1, <2>1, <3>2
  <2>2. CASE k # n
    <3>1. k + 1 \in 1..n /\ i + k - 1 \in 1..m /\ i + k - 1 # m /\ i + (k + 1) - 1 = (i + k - 1) + 1
      BY <1>2, <2>2
    <3>2. fs[k] = stack[i + k - 1].file /\ fs[k + 1] = stack[(i + k - 1) + 1].file
      BY <3>1
    <3> QED
      BY <1>1, <2>2, <3>1, <3>2
  <2> QED
    BY <2>1, <2>2
<1> HIDE DEF n, fs
<1> QED
  BY <1>3, <1>4, <1>5 DEF G!Circle

LEMMA DepthIs ==
  ASSUME LoadType, FramesFit, NEW m \in Nat \ {0}, m = Len(stack), Left(m) # <<>>, m >= lim.includeDepth,
         NEW f \in Files, f = Head(Left(m)), \A k \in 1..m : stack[k].file # f
  PROVE  \E fs \in [1..(lim.includeDepth + 1) -> Files] :
           /\ \A i \in 1..lim.includeDepth : G!Mentions(fs[i], fs[i + 1])
           /\ \A i, j \in DOMAIN fs : fs[i] = fs[j] => i = j
<1>1. PICK d \in Nat : d = lim.includeDepth
  BY ContentsAssumption DEF LoadType
<1> DEFINE fs == [k \in 1..(d + 1) |-> IF k = d + 1 THEN f ELSE stack[m - d + k].file]
<1>2. /\ \A k \in 1..m : stack[k].file \in Files
      /\ \A k \in 1..m : k # m => G!Mentions(stack[k].file, stack[k + 1].file)
      /\ G!Mentions(stack[m].file, f)
  BY Chain
<1>3. d <= m /\ \A k \in 1..d : m - d + k \in 1..m
  BY <1>1
<1>4. \A k \in 1..(d + 1) : k # d + 1 => k \in 1..d
  OBVIOUS
<1>5. fs \in [1..(d + 1) -> Files] /\ DOMAIN fs = 1..(d + 1)
  BY <1>2, <1>3, <1>4
<1>6. ASSUME NEW k \in 1..d PROVE G!Mentions(fs[k], fs[k + 1])
  <2>1. k \in 1..(d + 1) /\ k # d + 1 /\ k + 1 \in 1..(d + 1) /\ m - d + k \in 1..m
    BY <1>3
  <2>2. fs[k] = stack[m - d + k].file
    BY <2>1
  <2>3. CASE k = d
    <3>1. m - d + k = m /\ k + 1 = d + 1
      BY <2>3
    <3> QED
      BY <1>2, <2>1, <2>2, <3>1
  <2>4. CASE k # d
    <3>1. m - d + k # m /\ m - d + (k + 1) = (m - d + k) + 1 /\ k + 1 # d + 1
      BY <2>4
    <3>2. fs[k + 1] = stack[(m - d + k) + 1].file
      BY <2>1, <3>1
    <3> QED
      BY <1>2, <2>1, <2>2, <3>1, <3>2
  <2> QED
    BY <2>3, <2>4
<1>7. ASSUME NEW k \in 1..(d + 1), NEW j \in 1..(d + 1), fs[k] = fs[j] PROVE k = j
  <2>1. \A l \in 1..d : fs[l] = stack[m - d + l].file /\ fs[l] # f
    BY <1>3
  <2>2. fs[d + 1] = f
    OBVIOUS
  <2> HIDE DEF fs
  <2>3. CASE k = d + 1 \/ j = d + 1
    BY <1>4, <1>7, <2>1, <2>2, <2>3
  <2>4. CASE k # d + 1 /\ j # d + 1
    <3>1. k \in 1..d /\ j \in 1..d /\ m - d + k \in 1..m /\ m - d + j \in 1..m
      BY <1>3, <1>4, <2>4
    <3>2. stack[m - d + k].file = stack[m - d + j].file
      BY <1>7, <2>1, <3>1
    <3>3. m - d + k = m - d + j
      BY <3>1, <3>2 DEF FramesFit
    <3> QED
      BY <3>3
  <2> QED
    BY <2>3, <2>4
<1> HIDE DEF fs
<1> QED
  BY <1>1, <1>5, <1>6, <1>7

-----------------------------------------------------------------------------
\* expand: why what is loaded is what was there.

LEMMA AllBehind ==
  ASSUME NEW order, NEW said, LoadInv(order, said), stack = <<>>
  PROVE  \A f \in Files : parsed[f] # G!NotRead => f \in Behind(order)
<1>1. \A k \in 1..Len(stack) : FALSE
  OBVIOUS
<1> QED
  BY <1>1 DEF LoadInv, AllThrough

LEMMA NoCircle ==
  ASSUME NEW order, NEW said, LoadInv(order, said), stack = <<>>
  PROVE  ~G!Circle
<1> SUFFICES ASSUME G!Circle PROVE FALSE
  OBVIOUS
<1>1. LoadType /\ Ordered(order) /\ order \in Seq(Files) /\ Len(order) \in Nat
  BY FilesIs DEF LoadInv, Ordered
<1>2. PICK n \in 1..G!Cardinality(Files) : \E fs \in [1..n -> Files] :
        \A i \in 1..n : G!Mentions(fs[i], fs[IF i = n THEN 1 ELSE i + 1])
  BY DEF G!Circle
<1>3. PICK fs \in [1..n -> Files] : \A i \in 1..n : G!Mentions(fs[i], fs[IF i = n THEN 1 ELSE i + 1])
  BY <1>2
<1>4. n \in Nat \ {0}
  <2>1. Cardinality(Files) \in Nat
    BY DirectoryAssumption, FS_CardinalityType
  <2> QED
    BY <2>1, CountOfFiles
<1> DEFINE next(i) == IF i = n THEN 1 ELSE i + 1
<1>5. ASSUME NEW i \in 1..n PROVE next(i) \in 1..n /\ G!Mentions(fs[i], fs[next(i)]) /\ fs[i] \in Behind(order)
  <2>1. next(i) \in 1..n
    BY <1>4
  <2>2. G!Mentions(fs[i], fs[next(i)])
    BY <1>3
  <2>3. parsed[fs[i]] # G!NotRead
    <3> SUFFICES ASSUME parsed[fs[i]] = G!NotRead PROVE FALSE
      OBVIOUS
    <3> DEFINE r == G!NotRead
    <3>1. r = <<[include |-> TRUE, word |-> 1, names |-> <<>>]>>
      BY DEF G!NotRead
    <3>2. DOMAIN r = {1} /\ r[1].names = <<>>
      BY <3>1
    <3>3. PICK j \in DOMAIN r : fs[next(i)] \in G!Range(G!include(r[j].names))
      BY <2>2 DEF G!Mentions
    <3>4. G!include(r[j].names) = <<>>
      BY <3>2, <3>3, IncludeNothing
    <3>5. G!Range(<<>>) = {}
      BY DEF G!Range
    <3> QED
      BY <3>3, <3>4, <3>5
  <2> QED
    BY <2>1, <2>2, <2>3, AllBehind
<1> DEFINE S == {p \in 1..Len(order) : \E i \in 1..n : order[p] = fs[i]}
<1>6. S # {} /\ S \subseteq Nat
  <2>1. 1 \in 1..n
    BY <1>4
  <2>2. PICK p \in 1..Len(order) : order[p] = fs[1]
    BY <1>5, <2>1 DEF Behind
  <2> QED
    BY <2>1, <2>2
<1>7. PICK p \in S : \A q \in S : p <= q
  <2> HIDE DEF S
  <2> QED
    BY <1>6, LeastNumber
<1>8. PICK i \in 1..n : order[p] = fs[i]
  OBVIOUS
<1>9. PICK q \in 1..(p - 1) : order[q] = fs[next(i)]
  <2>1. p \in 1..Len(order) /\ fs[next(i)] \in Files
    BY <1>5
  <2>2. G!Mentions(order[p], fs[next(i)])
    BY <1>5, <1>8
  <2> HIDE DEF next
  <2> QED
    BY <1>1, <2>1, <2>2 DEF Ordered
<1>10. q \in S /\ ~(p <= q)
  <2>1. q \in 1..Len(order) /\ ~(p <= q)
    BY <1>1
  <2> QED
    BY <1>5, <1>9, <2>1
<1> QED
  BY <1>7, <1>10

\* Every file that is through says, unfolded far enough, what it was found to say.
LEMMA UnfoldedIs ==
  ASSUME NEW order, NEW said, LoadType, Ordered(order), Tells(said, order)
  PROVE  \A f \in Behind(order) : G!Unfolded[f] = said[f]
<1> DEFINE n == Cardinality(Files)
           X == [Files -> Seq(Words)]
           Over(y) == [f \in Files |-> IF parsed[f] = G!NotRead THEN <<>> ELSE G!FlattenSeq(Texts(y, f))]
           x == [f \in Files |-> <<>>]
           step == [i \in 1..n |-> [y \in X |-> Over(y)]]
<1>1. n \in Nat /\ G!Cardinality(Files) = n
  BY DirectoryAssumption, FS_CardinalityType, CountOfFiles
<1>2. ASSUME NEW y \in X PROVE Over(y) \in X
  <2>1. ASSUME NEW f \in Files
        PROVE  (IF parsed[f] = G!NotRead THEN <<>> ELSE G!FlattenSeq(Texts(y, f))) \in Seq(Words)
    <3>1. CASE parsed[f] = G!NotRead
      BY <3>1, EmptySeq
    <3>2. CASE parsed[f] # G!NotRead
      <4>1. Texts(y, f) \in Seq(Seq(Words))
        BY <3>2, TextsIs
      <4> QED
        BY <3>2, <4>1, FlattenType
    <3> QED
      BY <3>1, <3>2
  <2> QED
    BY <2>1
<1>3. x \in X
  BY EmptySeq
<1>4. step \in [1..n -> [X -> X]]
  <2> HIDE DEF X, Over
  <2> QED
    BY <1>2
<1>5. PICK h \in [0..n -> X] : Steps(h, n, x, step)
  <2> HIDE DEF X, x, step, n
  <2> QED
    BY <1>1, <1>3, <1>4, Recursion
<1> HIDE DEF x, step, n
<1>6. h[0] = x /\ \A d \in 1..n : h[d] = Over(h[d - 1]) /\ h[d - 1] \in X
  <2> SUFFICES ASSUME NEW d \in 1..n PROVE h[d] = Over(h[d - 1]) /\ h[d - 1] \in X
    BY <1>5 DEF Steps
  <2>1. d - 1 \in 0..n
    BY <1>1
  <2>2. h[d - 1] \in X
    BY <2>1
  <2>3. h[d] = step[d][h[d - 1]]
    BY <1>5 DEF Steps
  <2> HIDE DEF X, Over
  <2> QED
    BY <2>2, <2>3 DEF step
<1> DEFINE Unfolds(u) ==
             u = [depth \in 0..n |->
                   [f \in Files |->
                     IF depth = 0 \/ parsed[f] = G!NotRead THEN <<>>
                     ELSE G!FlattenSeq([i \in DOMAIN parsed[f] |->
                            IF parsed[f][i].include
                            THEN G!FlattenSeq([j \in DOMAIN G!include(parsed[f][i].names) |->
                                                 u[depth - 1][G!include(parsed[f][i].names)[j]]])
                            ELSE <<<<f, parsed[f][i].word>>>>])]]
           unfold == CHOOSE u : Unfolds(u)
<1>7. ASSUME NEW y, NEW f
      PROVE  Texts(y, f) = [i \in DOMAIN parsed[f] |->
                            IF parsed[f][i].include
                            THEN G!FlattenSeq([j \in DOMAIN G!include(parsed[f][i].names) |->
                                                 y[G!include(parsed[f][i].names)[j]]])
                            ELSE <<<<f, parsed[f][i].word>>>>]
  BY DEF Texts, Text, Said
<1>8. Unfolds(h)
  <2>1. ASSUME NEW depth \in 0..n
        PROVE  h[depth] = [f \in Files |->
                     IF depth = 0 \/ parsed[f] = G!NotRead THEN <<>>
                     ELSE G!FlattenSeq(Texts(h[depth - 1], f))]
    <3>1. CASE depth = 0
      BY <1>6, <3>1 DEF x
    <3>2. CASE depth # 0
      <4>1. depth \in 1..n
        BY <1>1, <3>2
      <4> QED
        BY <1>6, <3>2, <4>1
    <3> QED
      BY <3>1, <3>2
  <2>2. h = [depth \in 0..n |-> [f \in Files |->
                     IF depth = 0 \/ parsed[f] = G!NotRead THEN <<>>
                     ELSE G!FlattenSeq(Texts(h[depth - 1], f))]]
    BY <2>1
  <2> QED
    BY <1>7, <2>2
<1>9. Unfolds(unfold)
  BY <1>8
<1>10. G!Unfolded = unfold[n]
  BY <1>1 DEF G!Unfolded, n
<1> HIDE DEF unfold
<1>11. \A d \in 1..n, f \in Files :
         unfold[d][f] = IF parsed[f] = G!NotRead THEN <<>> ELSE G!FlattenSeq(Texts(unfold[d - 1], f))
  <2> SUFFICES ASSUME NEW d \in 1..n, NEW f \in Files
               PROVE  unfold[d][f] = IF parsed[f] = G!NotRead THEN <<>> ELSE G!FlattenSeq(Texts(unfold[d - 1], f))
    OBVIOUS
  <2>1. d \in 0..n /\ d # 0
    BY <1>1
  <2>2. unfold = [depth \in 0..n |-> [g \in Files |->
                     IF depth = 0 \/ parsed[g] = G!NotRead THEN <<>>
                     ELSE G!FlattenSeq(Texts(unfold[depth - 1], g))]]
    BY <1>7, <1>9
  <2>3. unfold[d] = [g \in Files |->
                     IF d = 0 \/ parsed[g] = G!NotRead THEN <<>>
                     ELSE G!FlattenSeq(Texts(unfold[d - 1], g))]
    BY ONLY <2>1, <2>2
  <2> QED
    BY ONLY <2>1, <2>3, f \in Files
<1>12. order \in Seq(Files) /\ Len(order) \in Nat /\ \A i \in 1..Len(order) : order[i] \in Files
  BY FilesIs DEF Ordered
<1> DEFINE Wrong == {i \in 1..Len(order) : \E d \in i..n : unfold[d][order[i]] # said[order[i]]}
<1>13. Wrong = {}
  <2> SUFFICES ASSUME Wrong # {} PROVE FALSE
    OBVIOUS
  <2>1. PICK i \in Wrong : \A j \in Wrong : i <= j
    <3>1. Wrong \subseteq Nat
      BY <1>12
    <3> HIDE DEF Wrong
    <3> QED
      BY <3>1, LeastNumber
  <2>2. PICK d \in i..n : unfold[d][order[i]] # said[order[i]]
    OBVIOUS
  <2>3. PICK f \in Files : f = order[i]
    BY <1>12
  <2>4. d \in 1..n /\ d - 1 \in Nat /\ parsed[f] # G!NotRead
    BY <1>1, <1>12, <2>3 DEF Ordered
  <2>5. ASSUME NEW g \in Files, G!Mentions(f, g) PROVE unfold[d - 1][g] = said[g]
    <3>1. PICK j \in 1..(i - 1) : order[j] = g
      BY <2>3, <2>5 DEF Ordered
    <3>2. j \in 1..Len(order) /\ ~(i <= j) /\ d - 1 \in j..n
      <4>1. PICK l \in Nat : l = Len(order)
        BY <1>12
      <4>2. i \in 1..l
        BY <4>1
      <4>3. n \in Nat /\ j \in 1..(i - 1) /\ d \in i..n
        BY <1>1
      <4> QED
        BY ONLY <4>1, <4>2, <4>3
    <3>3. j \notin Wrong
      BY <2>1, <3>2
    <3> QED
      BY <3>1, <3>2, <3>3
  <2>6. Texts(unfold[d - 1], f) = Texts(said, f)
    BY <2>4, <2>5, TextsAgree
  <2>7. f \in Behind(order)
    BY <2>3 DEF Behind
  <2>8. said[f] = G!FlattenSeq(Texts(said, f))
    BY <2>7 DEF Tells
  <2>9. unfold[d][f] = G!FlattenSeq(Texts(unfold[d - 1], f))
    BY <1>11, <2>4
  <2> QED
    BY <2>2, <2>3, <2>6, <2>8, <2>9
<1>14. Len(order) <= n
  <2> DEFINE e == [i \in 1..Len(order) |-> order[i]]
             m == Len(order)
  <2>1. e \in Injection(1..m, Files)
    BY <1>12 DEF Injection, IsInjective, Ordered
  <2>2. IsFiniteSet(Files)
    BY DirectoryAssumption
  <2>3. Cardinality(1..m) = m
    <3>1. 1 \in Int /\ m \in Int /\ m \in Nat
      BY <1>12
    <3> HIDE DEF m
    <3>2. Cardinality(1..m) = IF 1 > m THEN 0 ELSE m - 1 + 1
      BY ONLY <3>1, FS_Interval
    <3> QED
      BY <3>1, <3>2
  <2> HIDE DEF e, m
  <2>4. Cardinality(1..m) <= Cardinality(Files)
    BY <2>1, <2>2, FS_Injection
  <2> QED
    BY <2>3, <2>4 DEF m, n
<1>15. ASSUME NEW f \in Behind(order) PROVE unfold[n][f] = said[f]
  <2>1. PICK i \in 1..Len(order) : order[i] = f
    BY DEF Behind
  <2>2. i \notin Wrong
    BY <1>13
  <2>3. n \in i..n
    BY <1>1, <1>12, <1>14
  <2> QED
    BY <2>1, <2>2, <2>3
<1> QED
  BY <1>10, <1>15

LEMMA LoadedIs ==
  ASSUME NEW order, NEW said, LoadInv(order, said), stack = <<>>, todo = <<>>
  PROVE  tree = G!FlattenSeq([i \in DOMAIN entry |-> G!Unfolded[entry[i]]])
<1>1. /\ LoadType /\ FramesFit /\ Ordered(order) /\ AllThrough(order) /\ Tells(said, order)
      /\ tree = G!FlattenSeq(Pieces(said)) /\ said \in [Files -> Seq(Words)]
  BY DEF LoadInv, Tells
<1>2. Len(stack) = 0 /\ List(0) = entry /\ Left(0) = todo
  BY DEF List, Left
<1>3. Through(0) = Len(entry) /\ entry \in Seq(Files) /\ Len(entry) \in Nat /\ DOMAIN entry = 1..Len(entry)
  <2>1. Len(todo) = 0 /\ 0 \in 0..Len(stack)
    BY <1>2
  <2>2. entry \in Seq(Files) /\ Len(entry) \in Nat /\ DOMAIN entry = 1..Len(entry)
    BY <1>1, FilesIs DEF LoadType
  <2>3. Through(0) = Spliced(0) /\ Spliced(0) = Len(entry) - 0
    BY <1>2, <2>1 DEF Through, Spliced
  <2> QED
    BY <2>2, <2>3
<1> DEFINE t == Said(said, entry)
<1>4. t = [i \in 1..Len(entry) |-> said[entry[i]]] /\ t \in Seq(Seq(Words)) /\ Len(t) = Len(entry)
  BY <1>1, <1>3, SaidIs
<1>5. Piece(said, 0) = G!FlattenSeq(t)
  <2>1. Piece(said, 0) = Pre(t, Len(entry))
    BY <1>3 DEF Piece
  <2>2. t = [i \in 1..Len(entry) |-> t[i]]
    BY <1>4
  <2> HIDE DEF t
  <2> QED
    BY <1>3, <2>1, <2>2, PreAll
<1>6. Pieces(said) \in Seq(Seq(Words)) /\ Len(Pieces(said)) = 1 /\ Pieces(said)[1] = Piece(said, 0)
  <2>1. 0 \in 0..Len(stack) /\ Len(stack) + 1 = 1 /\ 0 + 1 = 1
    BY <1>2
  <2> QED
    BY <1>1, <2>1, TreeIs
<1>7. tree = G!FlattenSeq(t)
  <2>1. <<>> \in Seq(Seq(Words)) /\ Len(<<>>) = 0
    BY EmptySeq
  <2> DEFINE p == Pieces(said)
             e == <<>>
  <2>2. e \in Seq(Seq(Words)) /\ p \in Seq(Seq(Words)) /\ Len(p) = Len(e) + 1 /\ \A i \in 1..Len(e) : p[i] = e[i]
    BY <1>6, <2>1
  <2> HIDE DEF e, p
  <2>3. G!FlattenSeq(p) = G!FlattenSeq(e) \o p[Len(p)]
    BY ONLY <2>2, FlattenMore
  <2>4. G!FlattenSeq(e) = <<>>
    BY FlattenEmpty DEF e
  <2>5. p[Len(p)] \in Seq(Words) /\ p[Len(p)] = G!FlattenSeq(t)
    <3>1. G!FlattenSeq(t) \in Seq(Words)
      BY <1>4, FlattenType
    <3> QED
      BY <1>5, <1>6, <3>1 DEF p
  <2>6. <<>> \o p[Len(p)] = p[Len(p)]
    BY ONLY <2>5, ConcatEmptySeq
  <2> QED
    BY <1>1, <2>3, <2>4, <2>5, <2>6 DEF p
<1>8. ASSUME NEW i \in DOMAIN entry PROVE G!Unfolded[entry[i]] = said[entry[i]]
  <2>1. 0 \in 0..Len(stack) /\ i \in 1..Through(0)
    BY <1>2, <1>3
  <2>2. entry[i] \in Behind(order)
    BY <1>1, <1>2, <2>1 DEF AllThrough
  <2> QED
    BY <1>1, <2>2, UnfoldedIs
<1>9. [i \in DOMAIN entry |-> G!Unfolded[entry[i]]] = t
  BY <1>3, <1>4, <1>8
<1> QED
  BY <1>7, <1>9

-----------------------------------------------------------------------------
\* The steps.

NginxInv ==
  /\ status \in {"loading", "ok"} => \E order, said : LoadInv(order, said)
  /\ status = "ok" => stack = <<>> /\ todo = <<>>
  /\ status = "cycle" => G!Circle
  /\ G!DepthIsReal

LEMMA NginxInitKeeps == G!Init => NginxInv
<1> SUFFICES ASSUME G!Init PROVE NginxInv
  OBVIOUS
<1>1. status \in {"unusable", "loading"}
  BY DEF G!Init
<1>2. lim \in Limits /\ todo = entry /\ stack = <<>> /\ parsed = [f \in Files |-> G!NotRead] /\ includes = 0 /\ tree = <<>>
  BY DEF G!Init
<1>3. disk \in [Files -> Config]
  <2>1. disk \in [Files -> UNION G!Range(Contents)] /\ \A f \in Files : disk[f] \in Contents[f]
    BY DEF G!Init
  <2>2. \A f \in Files : disk[f] \in Config
    BY <2>1, ContentsAssumption DEF Config
  <2> QED
    BY <2>1, <2>2
<1>4. entry \in Seq(Files)
  <2>1. PICK mount \in Mounts : entry = G!entries(mount)
    BY DEF G!Init
  <2>2. G!listed(mount) \in Seq(Names)
    BY ContentsAssumption DEF G!listed
  <2> QED
    BY <2>1, <2>2, IncludeType DEF G!entries
<1> DEFINE order == <<>>
           said == [f \in Files |-> <<>>]
<1>5. said \in [Files -> Seq(Words)]
  BY EmptySeq
<1>6. order \in Seq(Files) /\ Len(order) = 0 /\ Behind(order) = {} /\ Len(stack) = 0
  BY <1>2, EmptySeq DEF Behind
<1>7. LoadType
  <2>1. stack \in Seq(Frames) /\ tree \in Seq(Words) /\ parsed \in [Files -> Config \cup {G!NotRead}]
    BY <1>2, EmptySeq
  <2> QED
    BY <1>2, <1>3, <1>4, <2>1 DEF LoadType
<1>8. List(0) = entry /\ Left(0) = entry /\ Len(entry) \in Nat /\ Spliced(0) = 0 /\ Through(0) = 0
  <2>1. List(0) = entry /\ Left(0) = entry /\ Len(entry) \in Nat
    BY <1>2, <1>4, FilesIs DEF List, Left
  <2> QED
    BY <1>6, <2>1 DEF Spliced, Through
<1>9. FramesFit
  <2>1. \A k \in 0..Len(stack) : k = 0 /\ k = Len(stack)
    BY <1>6
  <2>2. \A k \in 1..Len(stack) : FALSE
    BY <1>6
  <2>3. \A j \in 1..Len(Left(0)) : Left(0)[j] = List(0)[Spliced(0) + j]
    BY <1>8
  <2> QED
    BY <1>8, <2>1, <2>2, <2>3 DEF FramesFit
<1>10. Ordered(order) /\ Tells(said, order)
  BY <1>5, <1>6 DEF Ordered, Tells
<1>11. AllThrough(order)
  <2>1. \A k \in 0..Len(stack) : k = 0
    BY <1>6
  <2>2. \A k \in 1..Len(stack) : FALSE
    BY <1>6
  <2> QED
    BY <1>2, <1>8, <2>1, <2>2 DEF AllThrough
<1>12. tree = G!FlattenSeq(Pieces(said))
  <2> DEFINE p == Pieces(said)
             e == <<>>
  <2>1. Piece(said, 0) = <<>>
    <3>1. Piece(said, 0) = Pre(Said(said, entry), 0)
      BY <1>8 DEF Piece
    <3> QED
      BY <3>1, PreStart
  <2>2. p \in Seq(Seq(Words)) /\ Len(p) = 1 /\ p[1] = <<>>
    <3>1. 0 \in 0..Len(stack) /\ Len(stack) + 1 = 1 /\ 0 + 1 = 1
      BY <1>6
    <3> QED
      BY <1>5, <1>7, <1>9, <2>1, <3>1, TreeIs
  <2>3. e \in Seq(Seq(Words)) /\ Len(p) = Len(e) + 1 /\ \A i \in 1..Len(e) : p[i] = e[i]
    BY <2>2, EmptySeq
  <2> HIDE DEF e, p
  <2>4. G!FlattenSeq(p) = G!FlattenSeq(e) \o p[Len(p)]
    BY ONLY <2>2, <2>3, FlattenMore
  <2>5. G!FlattenSeq(e) = <<>> /\ p[Len(p)] = <<>>
    BY <2>2, FlattenEmpty DEF e
  <2>6. <<>> \o <<>> = <<>>
    OBVIOUS
  <2> QED
    BY <1>2, <2>4, <2>5, <2>6 DEF p
<1>13. LoadInv(order, said)
  BY <1>7, <1>9, <1>10, <1>11, <1>12 DEF LoadInv
<1>14. \E o, s : LoadInv(o, s)
  BY <1>13
<1> QED
  BY <1>1, <1>14 DEF NginxInv, G!DepthIsReal

\* Only somebody writes to the disk: nothing of it was read.
LEMMA LoadRests ==
  ASSUME NEW order, NEW said, LoadInv(order, said), disk' \in [Files -> Config],
         UNCHANGED <<lim, entry, todo, stack, parsed, includes, tree>>
  PROVE  LoadInv(order, said)'
<1>1. LoadType /\ FramesFit /\ Ordered(order) /\ AllThrough(order) /\ Tells(said, order)
      /\ tree = G!FlattenSeq(Pieces(said))
  BY DEF LoadInv
<1>2. LoadType'
  BY <1>1 DEF LoadType
<1>3. \A k : Taken(k)' = Taken(k) /\ At(k)' = At(k)
  BY DEF Taken, At
<1>4. \A k : List(k)' = List(k) /\ Left(k)' = Left(k)
  BY <1>3 DEF List, Left
<1>5. \A k : Spliced(k)' = Spliced(k)
  BY <1>4 DEF Spliced
<1>6. \A k : Through(k)' = Through(k)
  BY <1>5 DEF Through
<1>7. FramesFit'
  BY <1>1, <1>3, <1>4, <1>5 DEF FramesFit
<1>8. AllThrough(order)'
  BY <1>1, <1>3, <1>4, <1>6 DEF AllThrough
<1>9. Ordered(order)' /\ Tells(said, order)'
  BY <1>1, CacheKeeps
<1>10. \A k : Piece(said, k)' = Piece(said, k)
  <2>1. \A g : Texts(said, g)' = Texts(said, g)
    BY DEF Texts
  <2> QED
    BY <1>3, <1>4, <1>6, <2>1 DEF Piece
<1>11. tree' = G!FlattenSeq(Pieces(said)')
  <2>1. Pieces(said)' = Pieces(said)
    BY <1>10 DEF Pieces
  <2> QED
    BY <1>1, <2>1
<1> QED
  BY <1>2, <1>7, <1>8, <1>9, <1>11 DEF LoadInv

LEMMA GoesOn == ASSUME NEW order, NEW said, LoadInv(order, said)', status' = "loading" PROVE NginxInv'
BY DEF NginxInv, G!DepthIsReal

LEMMA Stops == ASSUME status' \in {"includes", "unreadable", "files"} PROVE NginxInv'
BY DEF NginxInv, G!DepthIsReal

LEMMA RefusedWith ==
  ASSUME NEW f, NEW below, G!Read(f, below), status = "loading"
  PROVE  status' \in {"loading", "unreadable", "files"}
<1>1. CASE G!IsCached(f)
  BY <1>1 DEF G!Read
<1>2. CASE ~G!IsCached(f) /\ disk[f] # G!Bad /\ G!FilesRead < lim.files
  BY <1>2 DEF G!Read
<1>3. CASE ~G!IsCached(f) /\ ~(disk[f] # G!Bad /\ G!FilesRead < lim.files)
  BY <1>3 DEF G!Read
<1> QED
  BY <1>1, <1>2, <1>3

LEMMA SpliceStep == ASSUME NginxInv, G!Splice PROVE NginxInv'
<1>1. status = "loading" /\ stack # <<>> /\ G!Top.pending # <<>> /\ UNCHANGED <<disk, rewrites, lim, entry>>
  BY DEF G!Splice
<1>2. PICK order, said : LoadInv(order, said)
  BY <1>1 DEF NginxInv
<1>3. LoadType /\ FramesFit
  BY <1>2 DEF LoadInv
<1>4. PICK m \in Nat \ {0} : m = Len(stack)
  BY <1>1, <1>3, TopIs
<1>5. m \in 1..m /\ G!Top = stack[m] /\ stack[m].pending \in Seq(Files) /\ Left(m) = G!Top.pending
  <2>1. m \in 1..Len(stack) /\ m # 0
    BY <1>4
  <2> QED
    BY <1>1, <1>3, <1>4, <2>1, TopIs, StackIs DEF Left
<1>6. PICK f \in Files : f = Head(G!Top.pending)
  BY <1>1, <1>5, HeadTailProperties
<1>7. includes \in Nat /\ lim.includes \in Nat /\ Len(stack) \in Nat /\ DOMAIN stack = 1..m
  BY <1>3, <1>4, ContentsAssumption, StackIs DEF LoadType
<1>8. CASE includes + 1 > lim.includes
  <2>1. status' = "includes"
    BY <1>7, <1>8 DEF G!Splice, G!Fail
  <2> QED
    BY <2>1, Stops
<1>9. CASE includes + 1 <= lim.includes /\ G!OnStack(f)
  <2>1. status' = "cycle" /\ UNCHANGED <<todo, stack, parsed, includes, tree>>
    BY <1>6, <1>7, <1>9 DEF G!Splice, G!Fail
  <2>2. PICK i \in 1..m : stack[i].file = f
    BY <1>7, <1>9 DEF G!OnStack
  <2>3. G!Circle
    BY <1>1, <1>3, <1>4, <1>5, <1>6, <2>2, CircleIs
  <2>4. G!Circle'
    BY <2>1, <2>3 DEF G!Circle, G!Mentions
  <2> QED
    BY <2>1, <2>4 DEF NginxInv, G!DepthIsReal
<1>10. CASE includes + 1 <= lim.includes /\ ~G!OnStack(f) /\ G!TooDeep
  <2>1. status' = "depth" /\ UNCHANGED <<todo, stack, parsed, includes, tree>>
    BY <1>6, <1>7, <1>10 DEF G!Splice, G!Fail
  <2>2. \A k \in 1..m : stack[k].file # f
    BY <1>7, <1>10 DEF G!OnStack
  <2>3. m >= lim.includeDepth
    BY <1>4, <1>10 DEF G!TooDeep
  <2>4. \E fs \in [1..(lim.includeDepth + 1) -> Files] :
          /\ \A i \in 1..lim.includeDepth : G!Mentions(fs[i], fs[i + 1])
          /\ \A i, j \in DOMAIN fs : fs[i] = fs[j] => i = j
    BY <1>1, <1>3, <1>4, <1>5, <1>6, <2>2, <2>3, DepthIs
  <2>5. G!DepthIsReal'
    BY <1>1, <2>1, <2>4 DEF G!DepthIsReal, G!Mentions
  <2> QED
    BY <2>1, <2>5 DEF NginxInv
<1>11. CASE includes + 1 <= lim.includes /\ ~G!OnStack(f) /\ ~G!TooDeep
  <2>1. G!Read(f, G!WithTop([G!Top EXCEPT !.pending = Tail(@)]))
    BY <1>6, <1>7, <1>11 DEF G!Splice
  <2>2. status' \in {"loading", "unreadable", "files"}
    BY <1>1, <2>1, RefusedWith
  <2>3. CASE status' = "loading"
    <3>1. LoadInv(order, said)'
      BY <1>2, <2>3, SpliceKeeps
    <3> QED
      BY <2>3, <3>1, GoesOn
  <2> QED
    BY <2>2, <2>3, Stops
<1>12. includes + 1 > lim.includes \/ includes + 1 <= lim.includes
  BY <1>7
<1> QED
  BY <1>8, <1>9, <1>10, <1>11, <1>12

LEMMA NginxStepKeeps == NginxInv /\ [G!Next]_nginx => NginxInv'
<1> SUFFICES ASSUME NginxInv, [G!Next]_nginx PROVE NginxInv'
  OBVIOUS
<1>1. ASSUME status = "loading" PROVE \E order, said : LoadInv(order, said)
  BY <1>1 DEF NginxInv
<1>2. ASSUME NEW f \in Files, G!Rewrite(f) PROVE NginxInv'
  <2>1. /\ status = "loading" /\ UNCHANGED <<lim, entry, todo, stack, parsed, includes, tree, status>>
        /\ \E c \in Rewritten : disk' = [disk EXCEPT ![f] = c]
    BY <1>2 DEF G!Rewrite
  <2>2. PICK order, said : LoadInv(order, said)
    BY <1>1, <2>1
  <2>3. disk' \in [Files -> Config]
    BY <2>1, <2>2, ContentsAssumption DEF LoadInv, LoadType, Config
  <2>4. LoadInv(order, said)'
    BY <2>1, <2>2, <2>3, LoadRests
  <2> QED
    BY <2>1, <2>4, GoesOn
<1>3. CASE G!Enter
  <2>1. status = "loading" /\ G!Read(Head(todo), <<>>)
    BY <1>3 DEF G!Enter
  <2>2. PICK order, said : LoadInv(order, said)
    BY <1>1, <2>1
  <2>3. status' \in {"loading", "unreadable", "files"}
    BY <2>1, RefusedWith
  <2>4. CASE status' = "loading"
    <3>1. LoadInv(order, said)'
      BY <1>3, <2>2, <2>4, EnterKeeps
    <3> QED
      BY <2>4, <3>1, GoesOn
  <2> QED
    BY <2>3, <2>4, Stops
<1>4. CASE G!Expand
  <2>1. status = "loading" /\ status' = "loading"
    BY <1>4 DEF G!Expand
  <2>2. PICK order, said : LoadInv(order, said)
    BY <1>1, <2>1
  <2>3. LoadInv(order, said)'
    BY <1>4, <2>2, Advance
  <2> QED
    BY <2>1, <2>3, GoesOn
<1>5. CASE G!Return
  <2>1. status = "loading" /\ status' = "loading"
    BY <1>5 DEF G!Return
  <2>2. PICK order, said : LoadInv(order, said)
    BY <1>1, <2>1
  <2>3. PICK o, s : LoadInv(o, s)'
    BY <1>5, <2>2, Back
  <2> QED
    BY <2>1, <2>3, GoesOn
<1>6. CASE G!Finish
  <2>1. status = "loading" /\ status' = "ok" /\ stack = <<>> /\ todo = <<>>
        /\ UNCHANGED <<disk, lim, entry, todo, stack, parsed, includes, tree>>
    BY <1>6 DEF G!Finish
  <2>2. PICK order, said : LoadInv(order, said)
    BY <1>1, <2>1
  <2>3. disk' \in [Files -> Config]
    BY <2>1, <2>2 DEF LoadInv, LoadType
  <2>4. LoadInv(order, said)'
    BY <2>1, <2>2, <2>3, LoadRests
  <2> QED
    BY <2>1, <2>4 DEF NginxInv, G!DepthIsReal
<1>7. CASE UNCHANGED nginx
  <2>1. UNCHANGED <<disk, lim, entry, todo, stack, parsed, includes, tree, status>>
    BY <1>7 DEF nginx
  <2>2. status' \in {"loading", "ok"} => \E order, said : LoadInv(order, said)'
    <3> SUFFICES ASSUME status' \in {"loading", "ok"} PROVE \E order, said : LoadInv(order, said)'
      OBVIOUS
    <3>1. PICK order, said : LoadInv(order, said)
      BY <2>1 DEF NginxInv
    <3>2. disk' \in [Files -> Config]
      BY <2>1, <3>1 DEF LoadInv, LoadType
    <3> QED
      BY <2>1, <3>1, <3>2, LoadRests
  <2>3. (status' = "ok" => stack' = <<>> /\ todo' = <<>>) /\ (status' = "cycle" => G!Circle')
    BY <2>1 DEF NginxInv, G!Circle, G!Mentions
  <2>4. G!DepthIsReal'
    BY <2>1 DEF NginxInv, G!DepthIsReal, G!Mentions
  <2> QED
    BY <2>2, <2>3, <2>4 DEF NginxInv
<1> QED
  BY <1>2, <1>3, <1>4, <1>5, <1>6, <1>7, SpliceStep DEF G!Next

LEMMA PartsMoveNginx ==
  /\ PartsInit => (part = "nginx" => NginxInv)
  /\ (part = "nginx" => NginxInv) /\ [PartsNext]_Parts => (part = "nginx" => NginxInv)'
<1>1. ASSUME PartsInit, part = "nginx" PROVE NginxInv
  BY <1>1, NginxInitKeeps DEF PartsInit
<1>2. ASSUME part = "nginx" => NginxInv, [PartsNext]_Parts, part' = "nginx" PROVE NginxInv'
  <2>1. part = "nginx" /\ NginxInv
    BY <1>2 DEF PartsNext, Parts
  <2>2. [G!Next]_nginx
    BY <1>2, <2>1 DEF PartsNext, Parts, Rest
  <2> QED
    BY <2>1, <2>2, NginxStepKeeps
<1> QED
  BY <1>1, <1>2

\* LoadIsFaithful: what the loader of nginx makes of any files, however they include each
\* other and whoever rewrites them meanwhile, is what each said when it was read, unfolded; it
\* reports a cycle when and only when there is one, and refuses a depth that is real.
THEOREM LoadsFaithful == PartsSpec => []LoadIsFaithful
<1>1. ASSUME NginxInv PROVE G!LoadedIsUnfolded /\ G!CycleIsReal /\ G!DepthIsReal
  <2>1. G!DepthIsReal /\ (status = "cycle" => G!Circle)
    BY <1>1 DEF NginxInv
  <2>2. ASSUME status = "ok"
        PROVE  tree = G!FlattenSeq([i \in DOMAIN entry |-> G!Unfolded[entry[i]]]) /\ ~G!Circle
    <3>1. stack = <<>> /\ todo = <<>>
      BY <1>1, <2>2 DEF NginxInv
    <3>2. PICK order, said : LoadInv(order, said)
      BY <1>1, <2>2 DEF NginxInv
    <3> QED
      BY <3>1, <3>2, LoadedIs, NoCircle
  <2> QED
    BY <2>1, <2>2 DEF G!LoadedIsUnfolded, G!CycleIsReal
<1>2. (part = "nginx" => NginxInv) => LoadIsFaithful
  BY <1>1 DEF LoadIsFaithful
<1> QED
  BY <1>2, PartsMoveNginx, PTL DEF PartsSpec, Parts
=============================================================================

---------------------------- MODULE StartupProofs ----------------------------
(***************************************************************************)
(* Proofs about Startup for any number of processes, requests, keys,       *)
(* passwords, rules and versions.                                          *)
(***************************************************************************)
EXTENDS Startup, TLAPS

Process == [at : Stages, key : Keys \cup {None}, next : Versions \cup {None},
            seen : [Rules -> Keys \cup {None, Legacy}] \cup {None}]

\* p is the only process that moves.
MovesTo(p, s, k, n, l) ==
  /\ proc' \in [Procs -> Process]
  /\ proc'[p] = [at |-> s, key |-> k, next |-> n, seen |-> l]
  /\ \A q \in Procs \ {p} : proc'[q] = proc[q]

\* Shapes of the variables TypeOK leaves open, and the lock of setup.
Shape ==
  /\ TypeOK
  /\ bodies \in [Versions -> Nat]
  /\ proc \in [Procs -> Process]
  /\ mu \in [Procs -> Requests \cup {None}]
  /\ req \in [Requests -> [at : {"idle", "counted", "stored"}, on : Procs \cup {None},
                           pw : Passwords \cup {Short, None}]]
  /\ \A r \in Requests :
       /\ req[r].at = "idle" => req[r] = Idle
       /\ req[r].at # "idle" => req[r].on \in Procs
       /\ req[r].at = "stored" => req[r].pw \in Passwords
       /\ req[r].at = "counted" => req[r].pw \in Passwords \cup {Short}

\* A setup that stored its password, and a start that is past BootstrapAdmin.
AdminInv ==
  /\ AdminIsOwn
  /\ \A p \in Procs :
       /\ proc[p].at = "insert" => EnvPassword[p] \in Passwords
       /\ proc[p].at \in {"secrets", "seal", "compact"} /\ EnvPassword[p] # None => hash # None
  /\ \A r \in Requests : req[r].at = "stored" => hash = req[r].pw

SchemaInv ==
  /\ MigratedOnce
  /\ \A p \in Procs : proc[p].at = "apply" => proc[p].next \in Versions

\* While one process writes the key file it is partial, so nobody is past reading it.
KeyInv ==
  /\ OneKey
  /\ \A p \in Procs :
       /\ proc[p].at \in {"create", "write"} => env = None
       /\ proc[p].at = "write" => keyfile = Partial
       /\ proc[p].at \notin {"down", "key", "create"} => proc[p].key \in Keys
       /\ \A q \in Procs : proc[p].at = "write" /\ proc[q].at = "write" => p = q

\* Past the sealing, and in what the sealing read.
RulesInv ==
  \A p \in Procs, r \in Rules :
    /\ proc[p].at = "seal" => proc[p].seen[r] \in {None, Legacy, proc[p].key}
    /\ proc[p].at \in {"compact", "serve"} => rules[r] \in {None, proc[p].key}

IInv == Shape /\ AdminInv /\ SchemaInv /\ KeyInv /\ RulesInv

-----------------------------------------------------------------------------
\* What a start leaves in proc.

LEMMA GotoMoves ==
  ASSUME Shape, NEW p \in Procs, NEW s \in Stages, Goto(p, s)
  PROVE  MovesTo(p, s, proc[p].key, proc[p].next, proc[p].seen)
  BY DEF Shape, Goto, MovesTo, Process

LEMMA TakeKeyMoves ==
  ASSUME Shape, NEW p \in Procs, NEW s \in Stages, NEW k \in Keys, TakeKey(p, s, k)
  PROVE  MovesTo(p, s, k, proc[p].next, proc[p].seen)
<1>1. proc[p] \in Process /\ [proc[p] EXCEPT !.at = s, !.key = k] \in Process
  BY ZenonT(60) DEF Shape, Process
<1>2. proc' = [proc EXCEPT ![p] = [proc[p] EXCEPT !.at = s, !.key = k]]
  BY DEF Shape, TakeKey
<1> QED
  BY <1>1, <1>2 DEF Shape, MovesTo, Process

LEMMA ExitMoves ==
  ASSUME Shape, NEW p \in Procs, Exit(p)
  PROVE  MovesTo(p, "down", None, None, None)
  BY DEF Shape, Exit, Down, MovesTo, Process, Stages

\* The states of a process that a step can leave.
LEMMA StartMoves ==
  ASSUME Shape, NEW p \in Procs, Start(p)
  PROVE  proc[p].at = "down" /\ MovesTo(p, "key", proc[p].key, proc[p].next, proc[p].seen)
  BY GotoMoves DEF Start, Stages

LEMMA LoadKeyMoves ==
  ASSUME Shape, NEW p \in Procs, LoadKey(p)
  PROVE  /\ proc[p].at = "key"
         /\ \/ \E k \in Keys : /\ k = IF env # None THEN env ELSE keyfile
                               /\ MovesTo(p, "migrate", k, proc[p].next, proc[p].seen)
            \/ /\ env = None /\ keyfile = None
               /\ MovesTo(p, "create", proc[p].key, proc[p].next, proc[p].seen)
            \/ MovesTo(p, "down", None, None, None)
<1> "migrate" \in Stages /\ "create" \in Stages
  BY DEF Stages
<1>1. CASE env # None
  BY <1>1, TakeKeyMoves DEF LoadKey, WithKey, Shape, TypeOK
<1>2. CASE env = None /\ keyfile = None
  BY <1>2, GotoMoves, NamesAssumption DEF LoadKey, Partial
<1>3. CASE env = None /\ keyfile = Partial
  BY <1>3, ExitMoves, NamesAssumption DEF LoadKey, Partial
<1>4. CASE env = None /\ keyfile \notin {None, Partial}
  <2>1. keyfile \in Keys /\ WithKey(p, keyfile)
    BY <1>4 DEF LoadKey, Shape, TypeOK
  <2> QED
    BY <1>4, <2>1, TakeKeyMoves DEF LoadKey, WithKey
<1> QED
  BY <1>1, <1>2, <1>3, <1>4 DEF LoadKey

LEMMA CreateKeyMoves ==
  ASSUME Shape, NEW p \in Procs, CreateKey(p)
  PROVE  /\ proc[p].at = "create"
         /\ \/ /\ keyfile = None /\ keyfile' = Partial
               /\ \E k \in Keys : MovesTo(p, "write", k, proc[p].next, proc[p].seen)
            \/ keyfile' = keyfile /\ MovesTo(p, "down", None, None, None)
            \/ /\ keyfile' = keyfile /\ keyfile \in Keys
               /\ MovesTo(p, "migrate", keyfile, proc[p].next, proc[p].seen)
<1> "migrate" \in Stages /\ "write" \in Stages
  BY DEF Stages
<1>1. CASE keyfile = None
  BY <1>1, TakeKeyMoves, NamesAssumption DEF CreateKey, Partial
<1>2. CASE keyfile = Partial
  BY <1>2, ExitMoves, NamesAssumption DEF CreateKey, Partial
<1>3. CASE keyfile \notin {None, Partial}
  <2>1. keyfile \in Keys /\ WithKey(p, keyfile) /\ keyfile' = keyfile
    BY <1>3 DEF CreateKey, Shape, TypeOK
  <2> QED
    BY <1>3, <2>1, TakeKeyMoves DEF CreateKey, WithKey
<1> QED
  BY <1>1, <1>2, <1>3 DEF CreateKey

LEMMA WriteKeyMoves ==
  ASSUME Shape, NEW p \in Procs, WriteKey(p)
  PROVE  /\ proc[p].at = "write" /\ keyfile' = proc[p].key
         /\ MovesTo(p, "migrate", proc[p].key, proc[p].next, proc[p].seen)
  BY GotoMoves DEF WriteKey, Stages

LEMMA FindMoves ==
  ASSUME Shape, NEW p \in Procs, FindMigration(p)
  PROVE  /\ proc[p].at = "migrate"
         /\ \/ /\ schema = Versions
               /\ MovesTo(p, "bootstrap", proc[p].key, proc[p].next, proc[p].seen)
            \/ \E v \in Versions : MovesTo(p, "apply", proc[p].key, v, proc[p].seen)
<1> "bootstrap" \in Stages /\ "apply" \in Stages
  BY DEF Stages
<1>1. CASE Versions \subseteq schema
  BY <1>1, GotoMoves DEF FindMigration, Shape, TypeOK
<1>2. CASE ~(Versions \subseteq schema)
  <2>1. PICK v \in Versions : proc' = [proc EXCEPT ![p].at = "apply", ![p].next = v]
    BY <1>2 DEF FindMigration, Earliest
  <2>2. MovesTo(p, "apply", proc[p].key, v, proc[p].seen)
    BY <2>1, ZenonT(60) DEF Shape, MovesTo, Process
  <2> QED
    BY <2>2 DEF FindMigration
<1> QED
  BY <1>1, <1>2

LEMMA ApplyMoves ==
  ASSUME Shape, NEW p \in Procs, ApplyMigration(p)
  PROVE  /\ proc[p].at = "apply"
         /\ \/ MovesTo(p, "down", None, None, None) /\ UNCHANGED <<schema, bodies>>
            \/ /\ MovesTo(p, "migrate", proc[p].key, proc[p].next, proc[p].seen)
               /\ proc[p].next \notin schema
               /\ schema' = schema \cup {proc[p].next}
               /\ bodies' = [bodies EXCEPT ![proc[p].next] = @ + 1]
  BY GotoMoves, ExitMoves DEF ApplyMigration, Stages

LEMMA CountMoves ==
  ASSUME Shape, NEW p \in Procs, CountAdmin(p)
  PROVE  /\ proc[p].at = "bootstrap"
         /\ \/ /\ EnvPassword[p] = None \/ hash # None
               /\ MovesTo(p, "secrets", proc[p].key, proc[p].next, proc[p].seen)
            \/ MovesTo(p, "down", None, None, None)
            \/ /\ EnvPassword[p] \in Passwords
               /\ MovesTo(p, "insert", proc[p].key, proc[p].next, proc[p].seen)
<1> "secrets" \in Stages /\ "insert" \in Stages
  BY DEF Stages
<1>1. CASE EnvPassword[p] = None \/ hash # None
  BY <1>1, GotoMoves DEF CountAdmin
<1>2. CASE hash = None /\ EnvPassword[p] = Short
  BY <1>2, ExitMoves, NamesAssumption DEF CountAdmin, Accepted
<1>3. CASE hash = None /\ EnvPassword[p] \in Passwords
  <2>1. Goto(p, "insert")
    BY <1>3, NamesAssumption DEF CountAdmin, Accepted
  <2> QED
    BY <1>3, <2>1, GotoMoves DEF CountAdmin
<1> QED
  BY <1>1, <1>2, <1>3, NamesAssumption

LEMMA InsertMoves ==
  ASSUME Shape, NEW p \in Procs, InsertAdmin(p)
  PROVE  /\ proc[p].at = "insert"
         /\ hash' = IF hash = None THEN EnvPassword[p] ELSE hash
         /\ MovesTo(p, "secrets", proc[p].key, proc[p].next, proc[p].seen)
  BY GotoMoves DEF InsertAdmin, Stages

LEMMA ReadMoves ==
  ASSUME Shape, NEW p \in Procs, ReadSecrets(p)
  PROVE  /\ proc[p].at = "secrets"
         /\ \/ MovesTo(p, "down", None, None, None)
            \/ /\ \A r \in Rules : rules[r] \in {None, Legacy, proc[p].key}
               /\ MovesTo(p, "seal", proc[p].key, proc[p].next, rules)
            \/ /\ \A r \in Rules : rules[r] \in {None, proc[p].key}
               /\ MovesTo(p, "serve", proc[p].key, proc[p].next, proc[p].seen)
<1> "seal" \in Stages /\ "serve" \in Stages
  BY DEF Stages
<1> DEFINE Alien == \E r \in Rules : rules[r] \in Keys \ {proc[p].key}
           Old == /\ \A r \in Rules : rules[r] \in {None, Legacy, proc[p].key}
                  /\ Legacy \in {rules[r] : r \in Rules}
<1>1. CASE Alien
  <2>1. ~Old
    BY <1>1, NamesAssumption DEF Legacy
  <2> QED
    BY <1>1, <2>1, ExitMoves DEF ReadSecrets
<1>2. CASE ~Alien /\ Old
  <2>1. proc' = [proc EXCEPT ![p].at = "seal", ![p].seen = rules]
    BY <1>2 DEF ReadSecrets
  <2>2. [proc[p] EXCEPT !.at = "seal", !.seen = rules] \in Process
    <3>1. proc[p] \in Process /\ rules \in [Rules -> Keys \cup {None, Legacy}]
      BY DEF Shape, TypeOK
    <3> QED
      BY <3>1 DEF Process
  <2>3. MovesTo(p, "seal", proc[p].key, proc[p].next, rules)
    BY <2>1, <2>2 DEF Shape, MovesTo, Process
  <2> QED
    BY <1>2, <2>3 DEF ReadSecrets
<1>3. CASE ~Alien /\ ~Old
  <2>1. Goto(p, "serve")
    BY <1>3 DEF ReadSecrets
  <2>2. \A r \in Rules : rules[r] \in {None, proc[p].key}
    BY <1>3 DEF Shape, TypeOK
  <2> QED
    BY <2>1, <2>2, GotoMoves DEF ReadSecrets
<1> QED
  BY <1>1, <1>2, <1>3

LEMMA SealMoves ==
  ASSUME Shape, NEW p \in Procs, SealSecrets(p)
  PROVE  /\ proc[p].at = "seal"
         /\ \/ MovesTo(p, "down", None, None, None) /\ UNCHANGED <<rules, residue>>
            \/ /\ rules = proc[p].seen
               /\ rules' = [r \in Rules |-> IF rules[r] = Legacy THEN proc[p].key ELSE rules[r]]
               /\ residue' = TRUE
               /\ MovesTo(p, "compact", proc[p].key, proc[p].next, None)
<1>1. CASE rules # proc[p].seen
  BY <1>1, ExitMoves DEF SealSecrets
<1>2. CASE rules = proc[p].seen
  <2>1. MovesTo(p, "compact", proc[p].key, proc[p].next, None)
    BY <1>2 DEF SealSecrets, Shape, MovesTo, Process, Stages
  <2> QED
    BY <1>2, <2>1 DEF SealSecrets
<1> QED
  BY <1>1, <1>2

LEMMA CompactMoves ==
  ASSUME Shape, NEW p \in Procs, CompactSecrets(p)
  PROVE  /\ proc[p].at = "compact"
         /\ MovesTo(p, "serve", proc[p].key, proc[p].next, proc[p].seen)
  BY GotoMoves DEF CompactSecrets, Stages

\* A password is stored or not; whoever is answered leaves setupMu.
LEMMA StoreMoves ==
  ASSUME Shape, NEW r \in Requests, StoreAdmin(r)
  PROVE  /\ req[r].at = "counted" /\ req[r].on \in Procs
         /\ \/ Answer(r) /\ hash' = hash
            \/ /\ hash = None /\ hash' = req[r].pw /\ req[r].pw \in Passwords
               /\ req' = [req EXCEPT ![r].at = "stored"] /\ mu' = mu
<1>1. req[r].at = "counted"
  BY DEF StoreAdmin
<1>2. req[r].on \in Procs /\ req[r].pw \in Passwords \cup {Short}
  BY <1>1 DEF Shape
<1> QED
  BY <1>1, <1>2 DEF StoreAdmin, Accepted

LEMMA AnswerShape ==
  ASSUME Shape, NEW r \in Requests, req[r].at # "idle", Answer(r)
  PROVE  /\ mu' \in [Procs -> Requests \cup {None}]
         /\ req' \in [Requests -> [at : {"idle", "counted", "stored"}, on : Procs \cup {None},
                                   pw : Passwords \cup {Short, None}]]
         /\ req'[r] = Idle
         /\ \A s \in Requests \ {r} : req'[s] = req[s]
         /\ mu'[req[r].on] = None
         /\ \A p \in Procs \ {req[r].on} : mu'[p] = mu[p]
  BY DEF Shape, Answer, Idle

\* Shape speaks of requests and locks in four conjuncts.
LEMMA SetupShape ==
  ASSUME Shape
  PROVE  /\ \A r \in Requests : req[r].at # "idle" => req[r].on \in Procs /\ mu[req[r].on] = r
         /\ \A p \in Procs : mu[p] # None => mu[p] \in Requests /\ req[mu[p]].on = p
  BY DEF Shape, TypeOK

LEMMA ShapeInit == Init => Shape
<1> SUFFICES ASSUME Init PROVE Shape
  OBVIOUS
<1>1. Down \in Process /\ Down.at \in Stages /\ Down.key = None
  BY DEF Down, Process, Stages
<1>2. TypeOK
  BY <1>1 DEF Init, TypeOK, Earliest, Idle
<1> QED
  BY <1>1, <1>2 DEF Init, Shape, Idle

\* The steps of a start leave requests alone.
LEMMA StartShape ==
  ASSUME Shape, NEW p \in Procs, NEW s, NEW k, NEW n, NEW l, MovesTo(p, s, k, n, l),
         UNCHANGED <<mu, req>>,
         keyfile' \in Keys \cup {None, Partial}, env' \in Keys \cup {None},
         schema' \subseteq Versions, bodies' \in [Versions -> Nat],
         rules' \in [Rules -> Keys \cup {None, Legacy}], residue' \in BOOLEAN,
         hash' \in Passwords \cup {None}, sessions' \subseteq Passwords
  PROVE  Shape'
<1>1. \A q \in Procs : proc'[q].at \in Stages /\ proc'[q].key \in Keys \cup {None}
  BY DEF MovesTo, Process
<1> QED
  BY <1>1 DEF Shape, TypeOK, MovesTo

LEMMA DataTypes ==
  ASSUME Shape
  PROVE  /\ keyfile \in Keys \cup {None, Partial} /\ env \in Keys \cup {None}
         /\ schema \subseteq Versions /\ bodies \in [Versions -> Nat]
         /\ rules \in [Rules -> Keys \cup {None, Legacy}] /\ residue \in BOOLEAN
         /\ hash \in Passwords \cup {None} /\ sessions \subseteq Passwords
         /\ \A p \in Procs : proc[p] \in Process
  BY DEF Shape, TypeOK

LEMMA ShapeStep == ASSUME Shape, SchemaInv, KeyInv, AdminInv, [Next]_vars PROVE Shape'
<1> USE DataTypes
<1>1. ASSUME NEW p \in Procs, Start(p) PROVE Shape'
  BY <1>1, StartMoves, StartShape DEF Start, data, serving
<1>2. ASSUME NEW p \in Procs, LoadKey(p) PROVE Shape'
  BY <1>2, LoadKeyMoves, StartShape DEF LoadKey, data, serving
<1>3. ASSUME NEW p \in Procs, CreateKey(p) PROVE Shape'
  BY <1>3, CreateKeyMoves, StartShape DEF CreateKey, serving
<1>4. ASSUME NEW p \in Procs, WriteKey(p) PROVE Shape'
  <2>1. proc[p].key \in Keys
    BY <1>4, WriteKeyMoves DEF KeyInv
  <2> QED
    BY <1>4, <2>1, WriteKeyMoves, StartShape DEF WriteKey, serving
<1>5. ASSUME NEW p \in Procs, FindMigration(p) PROVE Shape'
  BY <1>5, FindMoves, StartShape DEF FindMigration, data, serving
<1>6. ASSUME NEW p \in Procs, ApplyMigration(p) PROVE Shape'
  <2>1. proc[p].next \in Versions
    BY <1>6, ApplyMoves DEF SchemaInv
  <2>2. schema' \subseteq Versions /\ bodies' \in [Versions -> Nat]
    BY <1>6, <2>1, ApplyMoves
  <2> QED
    BY <1>6, <2>2, ApplyMoves, StartShape DEF ApplyMigration, serving
<1>7. ASSUME NEW p \in Procs, CountAdmin(p) PROVE Shape'
  BY <1>7, CountMoves, StartShape DEF CountAdmin, data, serving
<1>8. ASSUME NEW p \in Procs, InsertAdmin(p) PROVE Shape'
  <2>1. EnvPassword[p] \in Passwords
    BY <1>8, InsertMoves DEF AdminInv
  <2> QED
    BY <1>8, <2>1, InsertMoves, StartShape DEF InsertAdmin, serving
<1>9. ASSUME NEW p \in Procs, ReadSecrets(p) PROVE Shape'
  BY <1>9, ReadMoves, StartShape DEF ReadSecrets, data, serving
<1>10. ASSUME NEW p \in Procs, SealSecrets(p) PROVE Shape'
  <2>1. rules' \in [Rules -> Keys \cup {None, Legacy}] /\ residue' \in BOOLEAN
    BY <1>10, SealMoves DEF Process
  <2> QED
    BY <1>10, <2>1, SealMoves, StartShape DEF SealSecrets, serving
<1>11. ASSUME NEW p \in Procs, CompactSecrets(p) PROVE Shape'
  BY <1>11, CompactMoves, StartShape DEF CompactSecrets, serving
<1>12. ASSUME NEW p \in Procs, NEW r \in Rules, WriteRule(p, r) PROVE Shape'
  BY <1>12 DEF WriteRule, serving, Shape, TypeOK, Process
<1>13. ASSUME NEW r \in Requests, NEW p \in Procs, NEW pw \in Passwords \cup {Short},
              BeginSetup(r, p, pw)
       PROVE  Shape'
  <2>1. /\ req'[r] = [at |-> "counted", on |-> p, pw |-> pw]
        /\ \A q \in Requests \ {r} : req'[q] = req[q]
        /\ req' \in [Requests -> [at : {"idle", "counted", "stored"}, on : Procs \cup {None},
                                  pw : Passwords \cup {Short, None}]]
    BY <1>13 DEF BeginSetup, Shape
  <2>2. /\ mu'[p] = r /\ mu[p] = None /\ \A q \in Procs \ {p} : mu'[q] = mu[q]
        /\ mu' \in [Procs -> Requests \cup {None}]
    BY <1>13 DEF BeginSetup, Shape
  <2>3. req[r] = Idle
    BY <1>13 DEF BeginSetup, Shape
  <2>4. \A q \in Procs : mu'[q] = None \/ req'[mu'[q]].on = q
    BY <2>1, <2>2, <2>3, SetupShape, NamesAssumption DEF Idle
  <2>5. \A q \in Requests : req'[q].at # "idle" => mu'[req'[q].on] = q
    BY <2>1, <2>2, SetupShape, NamesAssumption
  <2>6. UNCHANGED <<data, proc>>
    BY <1>13 DEF BeginSetup
  <2> QED
    BY <2>1, <2>2, <2>4, <2>5, <2>6 DEF Shape, TypeOK, data
<1>14. ASSUME NEW r \in Requests, req[r].at # "idle", Answer(r),
              UNCHANGED <<keyfile, env, schema, bodies, rules, residue, hash, proc>>,
              sessions' \subseteq Passwords
       PROVE  Shape'
  <2>1. req[r].on \in Procs /\ mu[req[r].on] = r
    BY <1>14, SetupShape
  <2>2. \A q \in Procs : mu'[q] = None \/ req'[mu'[q]].on = q
    BY <1>14, <2>1, AnswerShape, SetupShape
  <2>3. \A q \in Requests : req'[q].at # "idle" => mu'[req'[q].on] = q
    BY <1>14, <2>1, AnswerShape, SetupShape DEF Idle
  <2>4. \A q \in Requests : req'[q] = req[q] \/ req'[q] = Idle
    BY <1>14, AnswerShape
  <2> QED
    BY <1>14, <2>2, <2>3, <2>4, AnswerShape DEF Shape, TypeOK, Idle
<1>15. ASSUME NEW r \in Requests, StoreAdmin(r) PROVE Shape'
  <2>1. CASE Answer(r) /\ hash' = hash
    BY <1>14, <1>15, <2>1, StoreMoves DEF StoreAdmin
  <2>2. CASE /\ hash' = req[r].pw /\ req[r].pw \in Passwords
             /\ req' = [req EXCEPT ![r].at = "stored"] /\ mu' = mu
    <3>1. /\ req' \in [Requests -> [at : {"idle", "counted", "stored"}, on : Procs \cup {None},
                                    pw : Passwords \cup {Short, None}]]
          /\ \A q \in Requests : req'[q].on = req[q].on /\ req'[q].pw = req[q].pw
          /\ \A q \in Requests \ {r} : req'[q] = req[q]
          /\ req'[r].at = "stored"
      BY <2>2 DEF Shape
    <3>2. req[r].at # "idle"
      BY <1>15 DEF StoreAdmin
    <3>3. UNCHANGED <<keyfile, env, schema, bodies, rules, residue, sessions, proc>>
      BY <1>15 DEF StoreAdmin
    <3> QED
      BY <2>2, <3>1, <3>2, <3>3 DEF Shape, TypeOK
  <2> QED
    BY <1>15, <2>1, <2>2, StoreMoves
<1>16. ASSUME NEW r \in Requests, IssueSession(r) PROVE Shape'
  <2>1. req[r].at # "idle" /\ req[r].pw \in Passwords
    BY <1>16 DEF IssueSession, Shape
  <2> QED
    BY <1>14, <1>16, <2>1 DEF IssueSession
<1>17. ASSUME NEW p \in Procs, NEW pw \in Passwords, Login(p, pw) PROVE Shape'
  BY <1>17 DEF Login, serving, Shape, TypeOK
<1>18. ASSUME NEW p \in Procs, Stop(p) PROVE Shape'
  <2>1. MovesTo(p, "down", None, None, None)
    BY <1>18, ExitMoves DEF Stop
  <2>2. \A q \in Procs : proc'[q].at \in Stages /\ proc'[q].key \in Keys \cup {None}
    BY <2>1 DEF MovesTo, Process
  <2>3. /\ mu' \in [Procs -> Requests \cup {None}]
        /\ mu'[p] = None /\ \A q \in Procs \ {p} : mu'[q] = mu[q]
    BY <1>18 DEF Stop, Shape
  <2>4. /\ \A r \in Requests : req'[r] = IF req[r].on = p THEN Idle ELSE req[r]
        /\ req' \in [Requests -> [at : {"idle", "counted", "stored"}, on : Procs \cup {None},
                                  pw : Passwords \cup {Short, None}]]
    BY <1>18 DEF Stop, Shape, Idle
  <2>5. \A q \in Procs : mu'[q] = None \/ req'[mu'[q]].on = q
    BY <2>3, <2>4, SetupShape
  <2>6. \A r \in Requests : req'[r].at # "idle" => mu'[req'[r].on] = r
    BY <2>3, <2>4, SetupShape DEF Idle
  <2>7. UNCHANGED data
    BY <1>18 DEF Stop
  <2> QED
    BY <2>1, <2>2, <2>3, <2>4, <2>5, <2>6, <2>7 DEF Shape, TypeOK, data, MovesTo, Idle
<1>19. ASSUME NEW k \in Keys \cup {None}, Rekey(k) PROVE Shape'
  BY <1>19 DEF Rekey, serving, Shape, TypeOK
<1>20. CASE UNCHANGED vars
  BY <1>20 DEF vars, Shape, TypeOK
<1> QED
  BY <1>1, <1>2, <1>3, <1>4, <1>5, <1>6, <1>7, <1>8, <1>9, <1>10, <1>11, <1>12, <1>13,
     <1>15, <1>16, <1>17, <1>18, <1>19, <1>20 DEF Next, Boot

-----------------------------------------------------------------------------
\* The admin.

LEMMA AdminStep == ASSUME Shape, AdminInv, [Next]_vars PROVE AdminInv' /\ (hash # None => hash' = hash)
<1> USE DataTypes, NamesAssumption
\* A move that stores nothing: only its own process has something to show.
<1>1. ASSUME NEW p \in Procs, NEW s, NEW k, NEW n, NEW l, MovesTo(p, s, k, n, l),
             UNCHANGED <<hash, sessions, req>>,
             s = "insert" => EnvPassword[p] \in Passwords,
             s \in {"secrets", "seal", "compact", "serve"} /\ EnvPassword[p] # None => hash # None
      PROVE  AdminInv' /\ hash' = hash
  BY <1>1 DEF AdminInv, AdminIsOwn, MovesTo
<1>2. ASSUME NEW p \in Procs, Start(p) \/ LoadKey(p) PROVE AdminInv' /\ hash' = hash
  BY <1>1, <1>2, StartMoves, LoadKeyMoves DEF Start, LoadKey, data, serving
<1>3. ASSUME NEW p \in Procs, CreateKey(p) \/ WriteKey(p) PROVE AdminInv' /\ hash' = hash
  BY <1>1, <1>3, CreateKeyMoves, WriteKeyMoves DEF CreateKey, WriteKey, serving
<1>4. ASSUME NEW p \in Procs, FindMigration(p) \/ ApplyMigration(p) PROVE AdminInv' /\ hash' = hash
  <2>1. CASE FindMigration(p)
    <3>1. UNCHANGED <<hash, sessions, req>>
      BY <2>1 DEF FindMigration, data, serving
    <3> QED
      BY <1>1, <2>1, <3>1, FindMoves
  <2>2. CASE ApplyMigration(p)
    BY <1>1, <2>2, ApplyMoves DEF ApplyMigration, serving
  <2> QED
    BY <1>4, <2>1, <2>2
<1>5. ASSUME NEW p \in Procs, CountAdmin(p) PROVE AdminInv' /\ hash' = hash
  BY <1>1, <1>5, CountMoves DEF CountAdmin, data, serving
<1>6. ASSUME NEW p \in Procs, InsertAdmin(p) PROVE AdminInv' /\ (hash # None => hash' = hash)
  <2>1. EnvPassword[p] \in Passwords /\ UNCHANGED <<sessions, req>>
    BY <1>6, InsertMoves DEF AdminInv, InsertAdmin, serving
  <2>2. hash' # None /\ (hash # None => hash' = hash)
    BY <1>6, <2>1, InsertMoves
  <2>3. hash = None => sessions = {} /\ \A r \in Requests : req[r].at # "stored"
    BY DEF AdminInv, AdminIsOwn, Shape
  <2>4. AdminIsOwn' /\ \A r \in Requests : req'[r].at = "stored" => hash' = req'[r].pw
    BY <2>1, <2>2, <2>3 DEF AdminInv, AdminIsOwn
  <2>5. \A q \in Procs : proc'[q].at = "insert" => EnvPassword[q] \in Passwords
    BY <1>6, InsertMoves DEF AdminInv, MovesTo
  <2> QED
    BY <2>2, <2>4, <2>5 DEF AdminInv
<1>7. ASSUME NEW p \in Procs, ReadSecrets(p) PROVE AdminInv' /\ hash' = hash
  BY <1>1, <1>7, ReadMoves DEF ReadSecrets, data, serving, AdminInv
<1>8. ASSUME NEW p \in Procs, SealSecrets(p) \/ CompactSecrets(p) PROVE AdminInv' /\ hash' = hash
  BY <1>1, <1>8, SealMoves, CompactMoves DEF SealSecrets, CompactSecrets, serving, AdminInv
<1>9. ASSUME NEW p \in Procs, NEW r \in Rules, WriteRule(p, r) PROVE AdminInv' /\ hash' = hash
  BY <1>9 DEF WriteRule, serving, AdminInv, AdminIsOwn
<1>10. ASSUME NEW r \in Requests, NEW p \in Procs, NEW pw \in Passwords \cup {Short},
              BeginSetup(r, p, pw)
       PROVE  AdminInv' /\ hash' = hash
  <2>1. /\ req'[r].at = "counted" /\ \A q \in Requests \ {r} : req'[q] = req[q]
        /\ UNCHANGED <<hash, sessions, proc>>
    BY <1>10 DEF BeginSetup, Shape, data
  <2> QED
    BY <2>1 DEF AdminInv, AdminIsOwn
<1>11. ASSUME NEW r \in Requests, StoreAdmin(r) PROVE AdminInv' /\ (hash # None => hash' = hash)
  <2>1. UNCHANGED <<sessions, proc>>
    BY <1>11 DEF StoreAdmin
  <2>2. CASE Answer(r) /\ hash' = hash
    <3>1. req'[r] = Idle /\ \A q \in Requests \ {r} : req'[q] = req[q]
      BY <1>11, <2>2, AnswerShape, StoreMoves
    <3> QED
      BY <2>1, <2>2, <3>1 DEF AdminInv, AdminIsOwn, Idle
  <2>3. CASE /\ hash = None /\ hash' = req[r].pw /\ req[r].pw \in Passwords
             /\ req' = [req EXCEPT ![r].at = "stored"]
    <3>1. sessions = {} /\ \A q \in Requests : req[q].at # "stored"
      BY <2>3 DEF AdminInv, AdminIsOwn, Shape
    <3>2. req'[r].pw = req[r].pw /\ \A q \in Requests \ {r} : req'[q] = req[q]
      BY <2>3 DEF Shape
    <3> QED
      BY <2>1, <2>3, <3>1, <3>2 DEF AdminInv, AdminIsOwn
  <2> QED
    BY <1>11, <2>2, <2>3, StoreMoves
<1>12. ASSUME NEW r \in Requests, IssueSession(r) PROVE AdminInv' /\ hash' = hash
  <2>1. /\ hash' = hash /\ proc' = proc /\ hash = req[r].pw
        /\ sessions' \in {sessions, sessions \cup {req[r].pw}}
    BY <1>12 DEF IssueSession, AdminInv
  <2>2. req'[r] = Idle /\ \A q \in Requests \ {r} : req'[q] = req[q]
    BY <1>12, AnswerShape DEF IssueSession
  <2> QED
    BY <2>1, <2>2 DEF AdminInv, AdminIsOwn, Idle
<1>13. ASSUME NEW p \in Procs, NEW pw \in Passwords, Login(p, pw) PROVE AdminInv' /\ hash' = hash
  BY <1>13 DEF Login, VerifyPassword, serving, AdminInv, AdminIsOwn
<1>14. ASSUME NEW p \in Procs, Stop(p) PROVE AdminInv' /\ hash' = hash
  <2>1. MovesTo(p, "down", None, None, None) /\ UNCHANGED <<hash, sessions>>
    BY <1>14, ExitMoves DEF Stop, data
  <2>2. \A r \in Requests : req'[r] = req[r] \/ req'[r] = Idle
    BY <1>14 DEF Stop
  <2> QED
    BY <2>1, <2>2 DEF AdminInv, AdminIsOwn, MovesTo, Idle
<1>15. ASSUME NEW k \in Keys \cup {None}, Rekey(k) PROVE AdminInv' /\ hash' = hash
  BY <1>15 DEF Rekey, serving, AdminInv, AdminIsOwn
<1>16. CASE UNCHANGED vars
  BY <1>16 DEF vars, AdminInv, AdminIsOwn
<1> QED
  BY <1>2, <1>3, <1>4, <1>5, <1>6, <1>7, <1>8, <1>9, <1>10, <1>11, <1>12, <1>13, <1>14,
     <1>15, <1>16 DEF Next, Boot

-----------------------------------------------------------------------------
\* The store: its schema, its key and what is sealed with it.

\* All that a start does is to move one process; all else leaves proc alone.
LEMMA Quiet ==
  ASSUME [Next]_vars
  PROVE  \/ \E p \in Procs : Start(p) \/ Boot(p) \/ Stop(p)
         \/ /\ UNCHANGED <<proc, schema, bodies, keyfile>>
            /\ \/ UNCHANGED <<rules, env>>
               \/ \E p \in Procs, r \in Rules : WriteRule(p, r) /\ env' = env
               \/ \E k \in Keys \cup {None} : Rekey(k) /\ rules' = rules
  BY DEF Next, vars, data, WriteRule, BeginSetup, StoreAdmin, IssueSession, Login, Rekey

LEMMA SchemaStep == ASSUME Shape, SchemaInv, [Next]_vars PROVE SchemaInv'
<1> DEFINE Past == {"bootstrap", "insert", "secrets", "seal", "compact", "serve"}
<1>1. ASSUME NEW p \in Procs, NEW s, NEW k, NEW n, NEW l, MovesTo(p, s, k, n, l),
             UNCHANGED <<schema, bodies>>,
             s = "apply" => n \in Versions, s \in Past => schema = Versions
      PROVE  SchemaInv'
  BY <1>1 DEF SchemaInv, MigratedOnce, MovesTo
<1>2. ASSUME NEW p \in Procs, ApplyMigration(p) PROVE SchemaInv'
  <2>1. CASE MovesTo(p, "down", None, None, None) /\ UNCHANGED <<schema, bodies>>
    BY <1>1, <2>1
  <2>2. CASE /\ MovesTo(p, "migrate", proc[p].key, proc[p].next, proc[p].seen)
             /\ proc[p].next \notin schema
             /\ schema' = schema \cup {proc[p].next}
             /\ bodies' = [bodies EXCEPT ![proc[p].next] = @ + 1]
    <3>1. proc[p].next \in Versions
      BY <1>2, ApplyMoves DEF SchemaInv
    <3>2. \A v \in Versions : bodies'[v] = IF v \in schema' THEN 1 ELSE 0
      BY <2>2, <3>1 DEF SchemaInv, MigratedOnce, Shape
    <3>3. \A q \in Procs : proc[q].at \notin Past
      BY <2>2, <3>1 DEF SchemaInv, MigratedOnce
    <3> QED
      BY <2>2, <3>2, <3>3 DEF SchemaInv, MigratedOnce, MovesTo
  <2> QED
    BY <1>2, <2>1, <2>2, ApplyMoves
<1>3. ASSUME NEW p \in Procs, Start(p) \/ Boot(p) \/ Stop(p) PROVE SchemaInv'
  <2>1. CASE Start(p) \/ LoadKey(p)
    BY <1>1, <2>1, StartMoves, LoadKeyMoves DEF Start, LoadKey, data
  <2>2. CASE CreateKey(p) \/ WriteKey(p)
    BY <1>1, <2>2, CreateKeyMoves, WriteKeyMoves DEF CreateKey, WriteKey
  <2>3. CASE FindMigration(p)
    BY <1>1, <2>3, FindMoves DEF FindMigration, data
  <2>4. CASE CountAdmin(p) \/ InsertAdmin(p)
    <3>1. schema = Versions /\ UNCHANGED <<schema, bodies>>
      BY <2>4, CountMoves, InsertMoves DEF SchemaInv, MigratedOnce, CountAdmin, InsertAdmin, data
    <3> QED
      BY <1>1, <2>4, <3>1, CountMoves, InsertMoves
  <2>5. CASE ReadSecrets(p) \/ SealSecrets(p) \/ CompactSecrets(p)
    <3>1. schema = Versions /\ UNCHANGED <<schema, bodies>>
      BY <2>5, ReadMoves, SealMoves, CompactMoves
         DEF SchemaInv, MigratedOnce, ReadSecrets, SealSecrets, CompactSecrets, data
    <3> QED
      <4>1. CASE ReadSecrets(p)
        BY <1>1, <3>1, <4>1, ReadMoves
      <4>2. CASE SealSecrets(p)
        BY <1>1, <3>1, <4>2, SealMoves
      <4>3. CASE CompactSecrets(p)
        BY <1>1, <3>1, <4>3, CompactMoves
      <4> QED
        BY <2>5, <4>1, <4>2, <4>3
  <2>6. CASE Stop(p)
    BY <1>1, <2>6, ExitMoves DEF Stop, data
  <2> QED
    BY <1>2, <1>3, <2>1, <2>2, <2>3, <2>4, <2>5, <2>6 DEF Boot
<1>4. CASE UNCHANGED <<proc, schema, bodies>>
  BY <1>4 DEF SchemaInv, MigratedOnce
<1> QED
  BY <1>3, <1>4, Quiet

LEMMA KeyStep == ASSUME Shape, KeyInv, [Next]_vars PROVE KeyInv'
<1> USE NamesAssumption DEF Partial
<1> DEFINE Early == {"down", "key", "create", "write"}
           Effective == IF env # None THEN env ELSE keyfile
\* A process moves and the key file stays.
<1>1. ASSUME NEW p \in Procs, NEW s, NEW k, NEW n, NEW l, MovesTo(p, s, k, n, l),
             UNCHANGED <<keyfile, env>>, s # "write",
             s = "create" => env = None,
             s \notin Early => k \in Keys /\ k = Effective
      PROVE  KeyInv'
  BY <1>1 DEF KeyInv, OneKey, MovesTo
\* A process past the key step keeps the key it has.
<1>2. ASSUME NEW p \in Procs, NEW s, NEW n, NEW l, MovesTo(p, s, proc[p].key, n, l),
             UNCHANGED <<keyfile, env>>, proc[p].at \notin Early, s \notin Early
      PROVE  KeyInv'
  BY <1>1, <1>2 DEF KeyInv, OneKey
<1>3. ASSUME NEW p \in Procs, CreateKey(p) PROVE KeyInv'
  <2>1. proc[p].at = "create" /\ env = None /\ env' = env
    BY <1>3, CreateKeyMoves DEF KeyInv, CreateKey
  <2>2. CASE /\ keyfile = None /\ keyfile' = Partial
             /\ \E k \in Keys : MovesTo(p, "write", k, proc[p].next, proc[p].seen)
    <3>1. \A q \in Procs : proc[q].at \in Early \ {"write"}
      BY <2>1, <2>2 DEF KeyInv, OneKey
    <3> QED
      BY <2>1, <2>2, <3>1 DEF KeyInv, OneKey, MovesTo
  <2>3. CASE keyfile' = keyfile /\ MovesTo(p, "down", None, None, None)
    BY <1>1, <2>1, <2>3
  <2>4. CASE /\ keyfile' = keyfile /\ keyfile \in Keys
             /\ MovesTo(p, "migrate", keyfile, proc[p].next, proc[p].seen)
    BY <1>1, <2>1, <2>4
  <2> QED
    BY <1>3, <2>2, <2>3, <2>4, CreateKeyMoves
<1>4. ASSUME NEW p \in Procs, WriteKey(p) PROVE KeyInv'
  <2>1. /\ proc[p].at = "write" /\ keyfile = Partial /\ proc[p].key \in Keys
        /\ env = None /\ env' = env /\ keyfile' = proc[p].key
        /\ MovesTo(p, "migrate", proc[p].key, proc[p].next, proc[p].seen)
    BY <1>4, WriteKeyMoves DEF KeyInv, WriteKey
  <2>2. \A q \in Procs \ {p} : proc[q].at \in Early \ {"write"}
    BY <2>1 DEF KeyInv, OneKey
  <2> QED
    BY <2>1, <2>2 DEF KeyInv, OneKey, MovesTo
<1>5. ASSUME NEW p \in Procs, Start(p) \/ Boot(p) \/ Stop(p) PROVE KeyInv'
  <2>1. CASE Start(p)
    BY <1>1, <2>1, StartMoves DEF Start, data
  <2>2. CASE LoadKey(p)
    BY <1>1, <2>2, LoadKeyMoves DEF LoadKey, data
  <2>3. CASE FindMigration(p)
    <3>1. UNCHANGED <<keyfile, env>> /\ proc[p].at = "migrate"
      BY <2>3 DEF FindMigration, data
    <3>2. PICK s, n :
         s \in {"bootstrap", "apply"} /\ MovesTo(p, s, proc[p].key, n, proc[p].seen)
      BY <2>3, FindMoves
    <3> QED
      BY <1>2, <3>1, <3>2
  <2>4. CASE ApplyMigration(p)
    <3>1. UNCHANGED <<keyfile, env>> /\ proc[p].at = "apply"
      BY <2>4 DEF ApplyMigration
    <3> QED
      BY <1>1, <1>2, <2>4, <3>1, ApplyMoves
  <2>5. CASE CountAdmin(p)
    <3>1. UNCHANGED <<keyfile, env>> /\ proc[p].at = "bootstrap"
      BY <2>5 DEF CountAdmin, data
    <3> QED
      BY <1>1, <1>2, <2>5, <3>1, CountMoves
  <2>6. CASE InsertAdmin(p)
    BY <1>2, <2>6, InsertMoves DEF InsertAdmin
  <2>7. CASE ReadSecrets(p)
    BY <1>1, <1>2, <2>7, ReadMoves DEF ReadSecrets, data
  <2>8. CASE SealSecrets(p)
    <3>1. UNCHANGED <<keyfile, env>> /\ proc[p].at = "seal"
      BY <2>8 DEF SealSecrets
    <3> QED
      BY <1>1, <1>2, <2>8, <3>1, SealMoves
  <2>9. CASE CompactSecrets(p)
    <3>1. UNCHANGED <<keyfile, env>> /\ proc[p].at = "compact"
      BY <2>9 DEF CompactSecrets
    <3> QED
      BY <1>2, <2>9, <3>1, CompactMoves
  <2>10. CASE Stop(p)
    BY <1>1, <2>10, ExitMoves DEF Stop, data
  <2> QED
    BY <1>3, <1>4, <1>5, <2>1, <2>2, <2>3, <2>4, <2>5, <2>6, <2>7, <2>8, <2>9, <2>10 DEF Boot
<1>6. ASSUME NEW k \in Keys \cup {None}, Rekey(k) PROVE KeyInv'
  BY <1>6 DEF Rekey, KeyInv, OneKey
<1>7. CASE UNCHANGED <<proc, keyfile, env>>
  BY <1>7 DEF KeyInv, OneKey
<1> QED
  BY <1>5, <1>6, <1>7, Quiet

LEMMA RulesStep == ASSUME Shape, KeyInv, RulesInv, [Next]_vars PROVE RulesInv'
<1> USE NamesAssumption DEF Legacy
\* A process moves and the rules stay.
<1>1. ASSUME NEW p \in Procs, NEW s, NEW k, NEW n, NEW l, MovesTo(p, s, k, n, l),
             rules' = rules,
             s = "seal" => \A r \in Rules : l[r] \in {None, Legacy, k},
             s \in {"compact", "serve"} => \A r \in Rules : rules[r] \in {None, k}
      PROVE  RulesInv'
  BY <1>1 DEF RulesInv, MovesTo
\* Of two processes that serve or seal, each can read what the other writes.
<1>2. \A p, q \in Procs : proc[p].at \in {"seal", "compact", "serve"} /\ proc[q].at \in {"compact", "serve"}
                            => proc[p].key = proc[q].key
  BY DEF KeyInv, OneKey
<1>3. ASSUME NEW p \in Procs, SealSecrets(p) PROVE RulesInv'
  <2>1. CASE MovesTo(p, "down", None, None, None) /\ UNCHANGED <<rules, residue>>
    BY <1>1, <2>1
  <2>2. CASE /\ rules = proc[p].seen
             /\ rules' = [r \in Rules |-> IF rules[r] = Legacy THEN proc[p].key ELSE rules[r]]
             /\ MovesTo(p, "compact", proc[p].key, proc[p].next, None)
    <3>1. proc[p].at = "seal"
      BY <1>3, SealMoves
    <3>2. \A r \in Rules : rules[r] \in {None, Legacy, proc[p].key}
      BY <2>2, <3>1 DEF RulesInv
    <3>3. \A r \in Rules : rules'[r] \in {None, proc[p].key}
      BY <2>2, <3>2
    <3> QED
      BY <1>2, <2>2, <3>1, <3>3 DEF RulesInv, MovesTo
  <2> QED
    BY <1>3, <2>1, <2>2, SealMoves
<1>4. ASSUME NEW p \in Procs, NEW r \in Rules, WriteRule(p, r) PROVE RulesInv'
  <2>1. /\ proc[p].at = "serve" /\ proc' = proc
        /\ rules'[r] \in {None, proc[p].key} /\ \A s \in Rules \ {r} : rules'[s] = rules[s]
    BY <1>4 DEF WriteRule, Shape, TypeOK
  <2> QED
    BY <1>2, <2>1 DEF RulesInv
<1>5. ASSUME NEW p \in Procs, Start(p) \/ Boot(p) \/ Stop(p) PROVE RulesInv'
  <2>1. CASE Start(p) \/ LoadKey(p)
    BY <1>1, <2>1, StartMoves, LoadKeyMoves DEF Start, LoadKey, data
  <2>2. CASE CreateKey(p) \/ WriteKey(p)
    BY <1>1, <2>2, CreateKeyMoves, WriteKeyMoves DEF CreateKey, WriteKey
  <2>3. CASE FindMigration(p) \/ ApplyMigration(p)
    <3>1. rules' = rules
      BY <2>3 DEF FindMigration, ApplyMigration, data
    <3>2. CASE FindMigration(p)
      BY <1>1, <3>1, <3>2, FindMoves
    <3>3. CASE ApplyMigration(p)
      BY <1>1, <3>1, <3>3, ApplyMoves
    <3> QED
      BY <2>3, <3>2, <3>3
  <2>4. CASE CountAdmin(p) \/ InsertAdmin(p)
    BY <1>1, <2>4, CountMoves, InsertMoves DEF CountAdmin, InsertAdmin, data
  <2>5. CASE ReadSecrets(p)
    BY <1>1, <2>5, ReadMoves DEF ReadSecrets, data
  <2>6. CASE CompactSecrets(p)
    <3>1. rules' = rules /\ proc[p].at = "compact"
      BY <2>6 DEF CompactSecrets
    <3>2. \A r \in Rules : rules[r] \in {None, proc[p].key}
      BY <3>1 DEF RulesInv
    <3> QED
      BY <1>1, <2>6, <3>1, <3>2, CompactMoves
  <2>7. CASE Stop(p)
    BY <1>1, <2>7, ExitMoves DEF Stop, data
  <2> QED
    BY <1>3, <1>5, <2>1, <2>2, <2>3, <2>4, <2>5, <2>6, <2>7 DEF Boot
<1>6. CASE UNCHANGED <<proc, rules>>
  BY <1>6 DEF RulesInv
<1> QED
  BY <1>4, <1>5, <1>6, Quiet

-----------------------------------------------------------------------------

LEMMA InvInit == Init => IInv
<1>1. Init => Shape
  BY ShapeInit
<1>2. Init => AdminInv /\ KeyInv /\ RulesInv
  BY DEF Init, Down, Idle, AdminInv, AdminIsOwn, KeyInv, OneKey, RulesInv
<1>3. Init => SchemaInv
  BY DEF Init, Down, SchemaInv, MigratedOnce
<1> QED
  BY <1>1, <1>2, <1>3 DEF IInv

LEMMA InvStep == IInv /\ [Next]_vars => IInv'
  BY ShapeStep, AdminStep, SchemaStep, KeyStep, RulesStep DEF IInv

LEMMA InvHolds == Spec => []IInv
  BY InvInit, InvStep, PTL DEF Spec

\* setup, login, bootstrapAdminFromEnv: whoever got a session had sent the password of
\* the admin, and a process that was given a password does not serve without an admin.
THEOREM AdminCorrect == Spec => []AdminIsOwn
<1>1. IInv => AdminIsOwn
  BY DEF IInv, AdminInv
<1> QED
  BY <1>1, InvHolds, PTL

\* setup, BootstrapAdmin: an admin password, once stored, is never replaced.
THEOREM AdminStays == Spec => FirstAdminStays
<1>1. IInv /\ [Next]_vars => [hash # None => hash' = hash]_vars
  BY AdminStep DEF IInv
<1> QED
  BY <1>1, InvHolds, PTL DEF Spec, FirstAdminStays

\* migrate, LoadOrCreateSecretBox, migrateAndValidateDestinations: who serves has the
\* whole schema, applied once, and the one key that reads everything stored.
THEOREM StoreCorrect == Spec => []ServedFromOneStore
<1>1. IInv => ServedFromOneStore
  BY DEF IInv, Shape, SchemaInv, KeyInv, RulesInv, ServedFromOneStore, ServedIsReadable
<1> QED
  BY <1>1, InvHolds, PTL
=============================================================================

------------------------------- MODULE Startup -------------------------------
(***************************************************************************)
(* run() of cmd/homedex up to serving, and the first setup: the instance   *)
(* key, the schema migrations, the admin password from the environment,    *)
(* the sealing of notification destinations, POST /api/setup and login.    *)
(* Processes may overlap on one data directory (a container replaced while *)
(* the old one still runs), and stop between any two steps.                *)
(***************************************************************************)
EXTENDS Naturals

CONSTANTS
  Procs,       \* processes that share the data directory
  Requests,    \* first-run setups and logins
  Keys,        \* instance keys
  Passwords,   \* passwords of 12 characters and more
  Short,       \* a password HashPassword refuses
  EnvPassword, \* process -> the password in its environment, or None
  Rules,       \* notification rules
  Versions,    \* schema migrations
  MaxStops,    \* bound on crashes, failed starts and shutdowns
  MaxRekeys,   \* bound on changes of HOMEDEX_SECRET
  None

ASSUME NamesAssumption ==
  /\ None \notin Keys \cup Passwords \cup Procs \cup Requests
  /\ {"partial", "legacy"} \cap (Keys \cup {None}) = {}
  /\ Short \notin Passwords \cup {None}
  /\ EnvPassword \in [Procs -> Passwords \cup {Short, None}]
ASSUME VersionsAssumption == Versions \subseteq Nat /\ Versions # {}

VARIABLES
  keyfile,  \* instance.key: None, Partial or a key
  env,      \* HOMEDEX_SECRET, or None
  schema,   \* versions in schema_migrations
  bodies,   \* how often the statements of a version took effect
  rules,    \* rule -> None, Legacy (destinations in the clear) or the key they are sealed with
  residue,  \* pages freed by the sealing are not yet rebuilt
  hash,     \* admin_password_hash: None or the password it verifies
  sessions, \* history: the passwords sent by those who got a session
  proc,     \* per process: [at, key, next, seen]
  mu,       \* setupMu of each process: its holder, or None
  req,      \* per request: [at, on, pw]
  stops, rekeys

vars == <<keyfile, env, schema, bodies, rules, residue, hash, sessions, proc, mu, req,
          stops, rekeys>>
data == <<keyfile, env, schema, bodies, rules, residue, hash, sessions>>
serving == <<mu, req>>
bounds == <<stops, rekeys>>

Partial == "partial"
Legacy == "legacy"
Down == [at |-> "down", key |-> None, next |-> None, seen |-> None]
Idle == [at |-> "idle", on |-> None, pw |-> None]
Stages == {"down", "key", "create", "write", "migrate", "apply", "bootstrap", "insert",
           "secrets", "seal", "compact", "serve"}

Earliest(V) == {v \in V : \A w \in V : v <= w}

Accepted(pw) == pw # Short
VerifyPassword(h, pw) == h # None /\ h = pw

Goto(p, stage) == proc' = [proc EXCEPT ![p].at = stage]
Exit(p) == proc' = [proc EXCEPT ![p] = Down]
TakeKey(p, stage, k) == proc' = [proc EXCEPT ![p].at = stage, ![p].key = k]
WithKey(p, k) == TakeKey(p, "migrate", k)

-----------------------------------------------------------------------------

\* A fresh data directory, or one an older version left.
Init ==
  /\ \/ keyfile = None /\ schema = {} /\ rules = [r \in Rules |-> None]
     \/ /\ keyfile \in Keys
        /\ \E v \in Earliest(Versions) : schema = {v}
        /\ rules \in [Rules -> {None, Legacy}]
  /\ env = None
  /\ bodies = [v \in Versions |-> IF v \in schema THEN 1 ELSE 0]
  /\ residue = FALSE
  /\ hash = None
  /\ sessions = {}
  /\ proc = [p \in Procs |-> Down]
  /\ mu = [p \in Procs |-> None]
  /\ req = [r \in Requests |-> Idle]
  /\ stops = 0
  /\ rekeys = 0

Start(p) ==
  /\ proc[p].at = "down"
  /\ Goto(p, "key")
  /\ UNCHANGED <<data, serving, bounds>>

\* LoadOrCreateSecretBox: the environment, else the file, whole or not at all.
LoadKey(p) ==
  /\ proc[p].at = "key"
  /\ CASE env # None -> WithKey(p, env)
       [] env = None /\ keyfile = None -> Goto(p, "create")
       [] env = None /\ keyfile = Partial -> Exit(p)
       [] OTHER -> WithKey(p, keyfile)
  /\ UNCHANGED <<data, serving, bounds>>

\* O_EXCL: whoever comes second reads the file of the first.
\* Seeded fault: O_TRUNC.
CreateKeyAnyway(p) ==
  /\ proc[p].at = "create"
  /\ \E k \in Keys : TakeKey(p, "write", k)
  /\ keyfile' = Partial
  /\ UNCHANGED <<env, schema, bodies, rules, residue, hash, sessions, serving, bounds>>
CreateKey(p) ==
  /\ proc[p].at = "create"
  /\ CASE keyfile = None ->
            /\ keyfile' = Partial
            /\ \E k \in Keys : TakeKey(p, "write", k)
       [] keyfile = Partial -> Exit(p) /\ UNCHANGED keyfile
       [] OTHER -> WithKey(p, keyfile) /\ UNCHANGED keyfile
  /\ UNCHANGED <<env, schema, bodies, rules, residue, hash, sessions, serving, bounds>>

WriteKey(p) ==
  /\ proc[p].at = "write"
  /\ keyfile' = proc[p].key
  /\ Goto(p, "migrate")
  /\ UNCHANGED <<env, schema, bodies, rules, residue, hash, sessions, serving, bounds>>

\* migrate: the next version that is not recorded, in order.
FindMigration(p) ==
  /\ proc[p].at = "migrate"
  /\ IF Versions \subseteq schema
     THEN Goto(p, "bootstrap")
     ELSE \E v \in Earliest(Versions \ schema) :
            proc' = [proc EXCEPT ![p].at = "apply", ![p].next = v]
  /\ UNCHANGED <<data, serving, bounds>>

\* Its statements and its record in one transaction; of two processes that found
\* the same version missing, the second fails on what the first created.
ApplyMigration(p) ==
  /\ proc[p].at = "apply"
  /\ IF proc[p].next \in schema
     THEN Exit(p) /\ UNCHANGED <<schema, bodies>>
     ELSE /\ schema' = schema \cup {proc[p].next}
          /\ bodies' = [bodies EXCEPT ![proc[p].next] = @ + 1]
          /\ Goto(p, "migrate")
  /\ UNCHANGED <<keyfile, env, rules, residue, hash, sessions, serving, bounds>>

\* BootstrapAdmin: COUNT, then HashPassword.
CountAdmin(p) ==
  /\ proc[p].at = "bootstrap"
  /\ CASE EnvPassword[p] = None \/ hash # None -> Goto(p, "secrets")
       [] hash = None /\ EnvPassword[p] # None /\ ~Accepted(EnvPassword[p]) -> Exit(p)
       [] OTHER -> Goto(p, "insert")
  /\ UNCHANGED <<data, serving, bounds>>

\* INSERT ... ON CONFLICT DO NOTHING.
\* Seeded fault: DO UPDATE.
InsertAdminOver(p) ==
  /\ proc[p].at = "insert"
  /\ hash' = EnvPassword[p]
  /\ Goto(p, "secrets")
  /\ UNCHANGED <<keyfile, env, schema, bodies, rules, residue, sessions, serving, bounds>>
InsertAdmin(p) ==
  /\ proc[p].at = "insert"
  /\ hash' = IF hash = None THEN EnvPassword[p] ELSE hash
  /\ Goto(p, "secrets")
  /\ UNCHANGED <<keyfile, env, schema, bodies, rules, residue, sessions, serving, bounds>>

\* migrateAndValidateDestinations opens a transaction and reads every rule: one it
\* cannot open stops the start.
ReadSecrets(p) ==
  /\ proc[p].at = "secrets"
  /\ CASE \E r \in Rules : rules[r] \in Keys \ {proc[p].key} -> Exit(p)
       [] (\A r \in Rules : rules[r] \in {None, Legacy, proc[p].key}) /\ Legacy \in {rules[r] : r \in Rules}
            -> proc' = [proc EXCEPT ![p].at = "seal", ![p].seen = rules]
       [] OTHER -> Goto(p, "serve")
  /\ UNCHANGED <<data, serving, bounds>>

\* The transaction goes on to write: rules written by another since it read them
\* make it fail.  (Any other write does, too; Stop stands for that.)
SealSecrets(p) ==
  /\ proc[p].at = "seal"
  /\ IF rules # proc[p].seen
     THEN Exit(p) /\ UNCHANGED <<rules, residue>>
     ELSE /\ rules' = [r \in Rules |-> IF rules[r] = Legacy THEN proc[p].key ELSE rules[r]]
          /\ residue' = TRUE
          /\ proc' = [proc EXCEPT ![p].at = "compact", ![p].seen = None]
  /\ UNCHANGED <<keyfile, env, schema, bodies, hash, sessions, serving, bounds>>

\* wal_checkpoint, VACUUM, wal_checkpoint, on the connection that sealed.
CompactSecrets(p) ==
  /\ proc[p].at = "compact"
  /\ residue' = FALSE
  /\ Goto(p, "serve")
  /\ UNCHANGED <<keyfile, env, schema, bodies, rules, hash, sessions, serving, bounds>>

-----------------------------------------------------------------------------

\* Manager.Create and Delete of a rule.
WriteRule(p, r) ==
  /\ proc[p].at = "serve"
  /\ rules' = [rules EXCEPT ![r] = IF @ = None THEN proc[p].key ELSE None]
  /\ UNCHANGED <<keyfile, env, schema, bodies, residue, hash, sessions, proc, serving, bounds>>

\* setup takes setupMu and counts; the password is decoded after that.
BeginSetup(r, p, pw) ==
  /\ proc[p].at = "serve"
  /\ req[r].at = "idle"
  /\ mu[p] = None
  /\ hash = None
  /\ mu' = [mu EXCEPT ![p] = r]
  /\ req' = [req EXCEPT ![r] = [at |-> "counted", on |-> p, pw |-> pw]]
  /\ UNCHANGED <<data, proc, bounds>>

Answer(r) ==
  /\ req' = [req EXCEPT ![r] = Idle]
  /\ mu' = [mu EXCEPT ![req[r].on] = None]

\* A plain INSERT in a transaction: a conflict, and any other error, is answered.
\* Seeded fault: a conflict counts as done.
StoreAdminOrNot(r) ==
  /\ req[r].at = "counted"
  /\ \/ req[r].pw = Short /\ Answer(r) /\ UNCHANGED hash
     \/ /\ req[r].pw # Short
        /\ hash' = IF hash = None THEN req[r].pw ELSE hash
        /\ req' = [req EXCEPT ![r].at = "stored"]
        /\ UNCHANGED mu
  /\ UNCHANGED <<keyfile, env, schema, bodies, rules, residue, sessions, proc, bounds>>
StoreAdmin(r) ==
  /\ req[r].at = "counted"
  /\ \/ Answer(r) /\ UNCHANGED hash
     \/ /\ Accepted(req[r].pw)
        /\ hash = None
        /\ hash' = req[r].pw
        /\ req' = [req EXCEPT ![r].at = "stored"]
        /\ UNCHANGED mu
  /\ UNCHANGED <<keyfile, env, schema, bodies, rules, residue, sessions, proc, bounds>>

\* issueSession, after the commit; it may fail and leave the admin to log in.
IssueSession(r) ==
  /\ req[r].at = "stored"
  /\ Answer(r)
  /\ sessions' \in {sessions, sessions \cup {req[r].pw}}
  /\ UNCHANGED <<keyfile, env, schema, bodies, rules, residue, hash, proc, bounds>>

Login(p, pw) ==
  /\ proc[p].at = "serve"
  /\ VerifyPassword(hash, pw)
  /\ sessions' = sessions \cup {pw}
  /\ UNCHANGED <<keyfile, env, schema, bodies, rules, residue, hash, proc, serving, bounds>>

\* A crash, a start that failed, a shutdown; transactions are rolled back.
Stop(p) ==
  /\ proc[p].at # "down"
  /\ stops < MaxStops
  /\ stops' = stops + 1
  /\ Exit(p)
  /\ mu' = [mu EXCEPT ![p] = None]
  /\ req' = [r \in Requests |-> IF req[r].on = p THEN Idle ELSE req[r]]
  /\ UNCHANGED <<data, rekeys>>

\* The operator sets or clears HOMEDEX_SECRET while nothing runs.
Rekey(k) ==
  /\ \A p \in Procs : proc[p].at = "down"
  /\ rekeys < MaxRekeys
  /\ rekeys' = rekeys + 1
  /\ env' = k
  /\ UNCHANGED <<keyfile, schema, bodies, rules, residue, hash, sessions, proc, serving, stops>>

Boot(p) ==
  \/ LoadKey(p) \/ CreateKey(p) \/ WriteKey(p) \/ FindMigration(p) \/ ApplyMigration(p)
  \/ CountAdmin(p) \/ InsertAdmin(p) \/ ReadSecrets(p) \/ SealSecrets(p) \/ CompactSecrets(p)

Next ==
  \/ \E p \in Procs : Start(p) \/ Boot(p) \/ Stop(p)
  \/ \E p \in Procs, r \in Rules : WriteRule(p, r)
  \/ \E r \in Requests, p \in Procs, pw \in Passwords \cup {Short} : BeginSetup(r, p, pw)
  \/ \E r \in Requests : StoreAdmin(r) \/ IssueSession(r)
  \/ \E p \in Procs, pw \in Passwords : Login(p, pw)
  \/ \E k \in Keys \cup {None} : Rekey(k)

Spec == Init /\ [][Next]_vars

-----------------------------------------------------------------------------

\* Types of the variables; a lock is held by a request that runs in its process.
TypeOK ==
  /\ keyfile \in Keys \cup {None, Partial}
  /\ env \in Keys \cup {None}
  /\ schema \subseteq Versions
  /\ rules \in [Rules -> Keys \cup {None, Legacy}]
  /\ residue \in BOOLEAN
  /\ hash \in Passwords \cup {None}
  /\ sessions \subseteq Passwords
  /\ \A p \in Procs :
       /\ proc[p].at \in Stages
       /\ proc[p].key \in Keys \cup {None}
       /\ mu[p] = None \/ req[mu[p]].on = p
  /\ \A r \in Requests :
       /\ req[r].at \in {"idle", "counted", "stored"}
       /\ req[r].at # "idle" => mu[req[r].on] = r

\* setup, BootstrapAdmin: the first admin password that is stored is never replaced,
\* however many setups and environments race for it.
FirstAdminStays == [][hash # None => hash' = hash]_vars

\* setup, login, bootstrapAdminFromEnv: whoever got a session had sent the password of
\* the admin, and a process that was given a password never serves a setup page.
AdminIsOwn ==
  /\ \A pw \in sessions : pw = hash
  /\ \A p \in Procs : proc[p].at = "serve" /\ EnvPassword[p] # None => hash # None

\* migrate: whoever serves has every version, and no version ran twice or in part.
MigratedOnce ==
  /\ \A v \in Versions : bodies[v] = IF v \in schema THEN 1 ELSE 0
  /\ \A p \in Procs : proc[p].at \in {"bootstrap", "insert", "secrets", "seal", "compact", "serve"}
                        => schema = Versions

\* LoadOrCreateSecretBox: processes past that step hold the same key, the one the
\* next start finds.
OneKey ==
  \A p \in Procs : proc[p].at \notin {"down", "key", "create", "write"} =>
    proc[p].key = IF env # None THEN env ELSE keyfile

\* migrateAndValidateDestinations: a process that serves can read every destination
\* that is stored; one stored under another key stopped the start.
ServedIsReadable ==
  \A p \in Procs, r \in Rules : proc[p].at = "serve" => rules[r] \in {None, proc[p].key}

\* migrate, LoadOrCreateSecretBox, migrateAndValidateDestinations: who serves has the
\* whole schema, once, and the one key with which everything stored can be read.
ServedFromOneStore == TypeOK /\ MigratedOnce /\ OneKey /\ ServedIsReadable
=============================================================================

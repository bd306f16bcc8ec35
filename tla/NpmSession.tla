----------------------------- MODULE NpmSession -----------------------------
(***************************************************************************)
(* internal/connectors/npm/npm.go: the session a login earns is cached and *)
(* shared by scans and connection tests of one account, which run at the   *)
(* same time.  The server ends sessions whenever it likes.  The server is  *)
(* external.                                                               *)
(***************************************************************************)
EXTENDS Naturals

CONSTANTS Scans,      \* calls of Scan
          Tests,      \* calls of Validate
          None,       \* no session
          MaxLogins,  \* bound: sessions the server issues
          MaxEvents   \* bound: times it ends them all or changes a password

Calls == Scans \cup Tests

VARIABLES
  issued,   \* how many sessions the server has issued
  live,     \* the sessions it accepts
  events,   \* how often it ended sessions or changed the password
  knows,    \* whose configuration holds the server's password
  cache,    \* Connector.sessions for this URL, account and pin
  pc,       \* what each call does next
  session,  \* the session it holds
  path,     \* the list it reads
  again,    \* this get has already logged in because of a refusal
  refusals, \* history: logins of this call that the server refused
  upset     \* history: calls that met a fault no login mends, tests whose password changed

vars == <<issued, live, events, knows, cache, pc, session, path, again,
          refusals, upset>>
server == <<issued, live, events, knows>>

Init ==
  /\ issued = 0 /\ live = {} /\ events = 0
  /\ knows \in {K \in SUBSET Calls : Scans \subseteq K}
  /\ cache = None
  /\ pc = [c \in Calls |-> "new"]
  /\ session = [c \in Calls |-> None]
  /\ path = [c \in Calls |-> "proxy-hosts"]
  /\ again = [c \in Calls |-> FALSE]
  /\ refusals = [c \in Calls |-> 0]
  /\ upset = {}

\* Every session expires or the server restarts with a new secret.  Only a get that has
\* used up its second login is at a loss.
EndSessions ==
  /\ events < MaxEvents /\ live # {}
  /\ live' = {} /\ events' = events + 1
  /\ upset' = upset \cup {c \in Calls : again[c] /\ pc[c] \in {"keep", "read"}}
  /\ UNCHANGED <<issued, knows, cache, pc, session, path, again, refusals>>

\* The password changes under a stored configuration, or is changed back.
ChangePassword ==
  /\ events < MaxEvents
  /\ knows' = Calls \ knows /\ events' = events + 1
  /\ upset' = upset \cup {c \in Tests : pc[c] = "keep"}
  /\ UNCHANGED <<issued, live, cache, pc, session, path, again, refusals>>

Goes(c, to) == pc' = [pc EXCEPT ![c] = to]

\* Validate always logs in, a scan asks the cache first.
Start(c) ==
  /\ pc[c] = "new"
  /\ Goes(c, IF c \in Tests THEN "login" ELSE "session")
  /\ UNCHANGED <<server, cache, session, path, again, refusals, upset>>

\* Connector.session.
Session(c) ==
  /\ pc[c] = "session"
  /\ session' = [session EXCEPT ![c] = cache]
  /\ Goes(c, IF cache = None THEN "login" ELSE "read")
  /\ UNCHANGED <<server, cache, path, again, refusals, upset>>

\* login: what the server makes of the posted credentials.
Login(c) ==
  /\ pc[c] = "login" /\ c \in knows /\ issued < MaxLogins
  /\ issued' = issued + 1 /\ live' = live \cup {issued'}
  /\ session' = [session EXCEPT ![c] = issued']
  /\ Goes(c, "keep")
  /\ UNCHANGED <<events, knows, cache, path, again, refusals, upset>>

Refuse(c) ==
  /\ pc[c] = "login" /\ c \notin knows
  /\ refusals' = [refusals EXCEPT ![c] = @ + 1]
  /\ session' = [session EXCEPT ![c] = None]
  /\ Goes(c, "keep")
  /\ UNCHANGED <<server, cache, path, again, upset>>

\* How a call ends whose get failed: the certificates' error is discarded.
Failed(c) == IF path[c] = "certificates" THEN "partial" ELSE "failed"

\* Seeded fault: a cached session is preferred to the new one.
KeepLate(c) ==
  /\ pc[c] = "keep"
  /\ cache' = IF cache = None THEN session[c] ELSE cache
  /\ session' = [session EXCEPT ![c] = cache']
  /\ Goes(c, IF cache' = None THEN Failed(c)
             ELSE IF c \in Tests THEN "listed" ELSE "read")
  /\ UNCHANGED <<server, path, again, refusals, upset>>

\* fresh: a login that failed forgets whatever session is cached.
Keep(c) ==
  /\ pc[c] = "keep"
  /\ cache' = session[c]
  /\ Goes(c, IF session[c] = None THEN Failed(c)
             ELSE IF c \in Tests THEN "listed" ELSE "read")
  /\ UNCHANGED <<server, session, path, again, refusals, upset>>

Advance(c) ==
  /\ path' = [path EXCEPT ![c] = "certificates"]
  /\ again' = [again EXCEPT ![c] = FALSE]
  /\ Goes(c, IF path[c] = "certificates" THEN "listed" ELSE "session")

Accepted(c) ==
  /\ pc[c] = "read" /\ session[c] \in live
  /\ Advance(c)
  /\ UNCHANGED <<server, cache, session, refusals, upset>>

\* get logs in once more, never twice.
Renew(c) == ~ again[c]

Refused(c) ==
  /\ pc[c] = "read" /\ session[c] \notin live
  /\ again' = [again EXCEPT ![c] = TRUE]
  /\ Goes(c, IF Renew(c) THEN "login" ELSE Failed(c))
  /\ UNCHANGED <<server, cache, session, path, refusals, upset>>

\* A cookie's session that lives, but may not see the list: taken for a refusal.
Denied(c) ==
  /\ pc[c] = "read" /\ session[c] \in live
  /\ again' = [again EXCEPT ![c] = TRUE]
  /\ Goes(c, IF Renew(c) THEN "login" ELSE Failed(c))
  /\ upset' = upset \cup {c}
  /\ UNCHANGED <<server, cache, session, path, refusals>>

\* A request that is lost, or answered with another status.
Break(c) ==
  /\ pc[c] \in {"login", "read"}
  /\ session' = IF pc[c] = "login" THEN [session EXCEPT ![c] = None] ELSE session
  /\ Goes(c, IF pc[c] = "login" THEN "keep" ELSE Failed(c))
  /\ upset' = upset \cup {c}
  /\ UNCHANGED <<server, cache, path, again, refusals>>

Step(c) == \/ Start(c) \/ Session(c) \/ Login(c) \/ Refuse(c) \/ Keep(c)
           \/ Accepted(c) \/ Refused(c) \/ Denied(c) \/ Break(c)

Next == EndSessions \/ ChangePassword \/ \E c \in Calls : Step(c)

Spec == Init /\ [][Next]_vars

-----------------------------------------------------------------------------
TypeOK ==
  /\ live \subseteq 1..issued /\ issued \in 0..MaxLogins
  /\ events \in 0..MaxEvents
  /\ cache \in {None} \cup 1..issued
  /\ \A c \in Calls :
       /\ pc[c] \in {"new", "session", "login", "keep", "read", "listed",
                     "partial", "failed"}
       /\ session[c] \in {None} \cup 1..issued
       /\ pc[c] = "read" => session[c] # None
       /\ c \in Tests => path[c] = "proxy-hosts"

(* "A scan makes at most one failed login" (docs/CONNECTORS.md), whatever  *)
(* tests with another password and other scans do to the cache meanwhile.  *)
OneFailedLogin == \A c \in Calls : refusals[c] <= 1

(* A scan whose password is right returns both lists, whatever dead        *)
(* session the cache held, whichever call forgot or overwrote it meanwhile *)
(* and wherever between its reads the server ended the sessions, unless a  *)
(* request broke, was denied, or a session died that was made for it.      *)
DeadSessionIsHarmless ==
  \A c \in Calls : pc[c] \in {"partial", "failed"} => c \in upset \/ refusals[c] > 0

(* A wrong password never passes a connection test, whatever session of    *)
(* another call is cached.                                                 *)
TestsAreReal ==
  [][\A c \in Tests : pc[c] # "listed" /\ pc'[c] = "listed"
       => session[c] # None /\ (c \in knows \/ c \in upset)]_pc
=============================================================================
